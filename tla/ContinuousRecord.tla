--------------------------- MODULE ContinuousRecord ---------------------------
(***************************************************************************)
(* ContinuousTaskRecord, its key and notification labels, what of it is    *)
(* saved, and the checks of a request that only read the request.          *)
(*                                                                         *)
(* An ability stands for an (ability name, ability id) pair.  Notification *)
(* labels hash the ability name; collisions of the hash are left out, so   *)
(* that a label is its key.                                                *)
(***************************************************************************)
EXTENDS Integers, FiniteSets, Functions

CONSTANTS
    Uids, Abilities,
    Declared,       \* background modes that the bundle of each uid declares
    Traits,         \* of each uid: see TraitNames
    Device          \* what the product supports, a subset of {"keeping", "auth"}

TraitNames == {"system", "acl", "specialExempt", "keepingExempt", "malicious"}

\* DEFAULT is INVALID_BGMODE, the mode of a request of the old interface.
Modes == {"DEFAULT", "DATA_TRANSFER", "AUDIO_PLAYBACK", "AUDIO_RECORDING", "LOCATION",
          "BLUETOOTH_INTERACTION", "MULTI_DEVICE_CONNECTION", "WIFI_INTERACTION", "VOIP",
          "TASK_KEEPING", "WORKOUT", "AV_PLAYBACK_AND_RECORD",
          "SPECIAL_SCENARIO_PROCESSING", "NEARLINK"}

SubModes == {"NORMAL", "CAR_KEY", "AVSESSION", "MEDIA_PROCESS", "VIDEO_BROADCAST", "WORK_OUT"}

ASSUME RecordAssumption ==
    /\ Declared \in [Uids -> SUBSET Modes]
    /\ Traits \in [Uids -> SUBSET TraitNames]
    /\ Device \subseteq {"keeping", "auth"}

NoId == -1
NoLabel == <<"none">>

-----------------------------------------------------------------------------
(* Requests, records, keys and labels.                                     *)

\* ContinuousTaskParam, and ContinuousTaskParamForInner (inner).  needNotif and
\* component are what StartBackgroundRunningForInner derives from the caller.
Request == [uid : Uids, ability : Abilities, newApi : BOOLEAN, byReq : BOOLEAN,
            inner : BOOLEAN, needNotif : BOOLEAN, component : BOOLEAN,
            modes : SUBSET Modes, subModes : SUBSET SubModes, combined : BOOLEAN]

\* taskInfoMapKey: only a task made by a request object has its id in its key.
Key(r) == <<r.uid, r.ability, IF r.byReq THEN r.id ELSE NoId>>

CreateNotificationLabel(r) == <<"main", Key(r)>>

CreateSubNotificationLabel(r) == <<"sub", Key(r)>>

\* The constructor and InitRecordParam, which is not called for the inner
\* interface, so that its records are not of a system application; bgModeId_, the mode that callbacks name
\* first, is left out.
NewRecord(q, pid, mergeId) ==
    [uid |-> q.uid, ability |-> q.ability, pid |-> pid, newApi |-> q.newApi, byReq |-> q.byReq,
     system |-> "system" \in Traits[q.uid] /\ ~q.inner,
     inner |-> q.inner, needNotif |-> q.needNotif, component |-> q.component,
     modes |-> q.modes, subModes |-> q.subModes, combined |-> q.combined, combinedId |-> mergeId,
     id |-> NoId, nid |-> NoId, label |-> NoLabel, subNid |-> NoId,
     suspended |-> FALSE, standby |-> FALSE, standbySuspend |-> FALSE,
     playing |-> TRUE, detect |-> TRUE, times |-> 0]

\* The suspension is not saved.
MutParseToJsonStrActive(r) == [r EXCEPT !.detect = TRUE, !.times = 0, !.suspended = FALSE]

\* What ParseFromJson reads back: a field that is not saved has its initial value.
ParseToJsonStr(r) == [r EXCEPT !.detect = TRUE, !.times = 0]

CheckModesSame(M, N) == M = N

\* The modes whose applications publish live views of their own.
LiveViewTypes == {"DATA_TRANSFER", "AUDIO_RECORDING", "LOCATION", "VOIP"}

CheckExistOtherMode(M, mode) == M \cap (LiveViewTypes \ {mode}) # {}

-----------------------------------------------------------------------------
(* Checks of a request.                                                    *)

AllowUseTaskKeeping(r) ==
    \/ "keeping" \in Device
    \/ "keepingExempt" \in Traits[r.uid]
    \/ "acl" \in Traits[r.uid] /\ ~r.system

AllowUseSpecial(r) ==
    /\ "specialExempt" \in Traits[r.uid] \/ ("acl" \in Traits[r.uid] /\ ~r.system)
    /\ "malicious" \notin Traits[r.uid]
    /\ "auth" \in Device

CheckBgmodeType(configured, mode, isNewApi, r) ==
    IF ~isNewApi THEN configured # {}
    ELSE /\ mode = "WIFI_INTERACTION" => r.system
         /\ mode = "TASK_KEEPING" => AllowUseTaskKeeping(r)
         /\ mode = "SPECIAL_SCENARIO_PROCESSING" => AllowUseSpecial(r)
         /\ \/ /\ mode \in {"AUDIO_PLAYBACK", "AUDIO_RECORDING", "VOIP"}
               /\ r.byReq
               /\ "AV_PLAYBACK_AND_RECORD" \in configured
            \/ mode \in configured

\* Mode numbers from 1 to BGMODE_NUMS: the inner interface does not reach the
\* others.
CheckBgmodeTypeForInner(mode) == mode \notin {"SPECIAL_SCENARIO_PROCESSING", "NEARLINK",
                                              "AV_PLAYBACK_AND_RECORD", "DEFAULT"}

\* The modes that g_innerApiReqBgRunningConfig gives to system abilities, and
\* playback that a component of the application asks for.
CheckPermissionForInner(q) ==
    \/ q.component /\ q.modes = {"AUDIO_PLAYBACK"}
    \/ q.modes \in {{"VOIP"}, {"SPECIAL_SCENARIO_PROCESSING"}, {"AUDIO_PLAYBACK"}, {"WORKOUT"}}

\* A request that the service takes; the old interface names no mode.
CheckTaskParam(q) ==
    /\ q.modes # {}
    /\ ~q.newApi => q.modes = {"DEFAULT"} /\ ~q.byReq
    /\ q.byReq => q.subModes # {}

\* Without a request object the only sub mode is the car key, which comes with
\* the want agent.
CheckSubMode(q) ==
    ~q.byReq /\ q.subModes # {} => q.subModes = {"CAR_KEY"} /\ "BLUETOOTH_INTERACTION" \in q.modes
=============================================================================
