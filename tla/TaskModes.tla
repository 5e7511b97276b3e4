------------------------------ MODULE TaskModes ------------------------------
(***************************************************************************)
(* The modes of a request object: pairs of a mode and a submode, checked   *)
(* by the bindings and converted to the modes the manager knows from the   *)
(* older interface.                                                        *)
(***************************************************************************)
EXTENDS Naturals, Sequences, FiniteSets

\* The modes a NORMAL submode is for.
PlainModes == {"AUDIO_PLAYBACK", "AUDIO_RECORDING", "LOCATION", "BLUETOOTH_INTERACTION",
               "MULTI_DEVICE_CONNECTION", "ALLOW_WIFI_AWARE", "VOIP", "TASK_KEEPING", "NEARLINK"}
BackgroundTaskMode == PlainModes \cup {"DATA_TRANSFER", "AV_PLAYBACK_AND_RECORD", "SPECIAL_SCENARIO_PROCESSING"}

AvSubmodes == {"AUDIO_PLAYBACK_NORMAL", "AVSESSION_AUDIO_PLAYBACK", "AUDIO_RECORD_NORMAL",
               "SCREEN_RECORD_NORMAL", "VOICE_CHAT_NORMAL"}
SpecialSubmodes == {"MEDIA_PROCESS_NORMAL", "VIDEO_BROADCAST_NORMAL", "WORK_OUT_NORMAL"}
BackgroundTaskSubmode == AvSubmodes \cup SpecialSubmodes \cup {"CAR_KEY_NORMAL", "NORMAL", "LIVE_VIEW"}

\* The modes of the older interface.
BackgroundMode == {"DATA_TRANSFER", "AUDIO_PLAYBACK", "AUDIO_RECORDING", "LOCATION", "BLUETOOTH_INTERACTION",
                   "MULTI_DEVICE_CONNECTION", "WIFI_INTERACTION", "VOIP", "TASK_KEEPING",
                   "SPECIAL_SCENARIO_PROCESSING", "NEARLINK"}

IsModeTypeMatching(mode) == mode \in PlainModes

GetSubModeTypeMatching(sub) ==
  CASE sub = "LIVE_VIEW" -> "DATA_TRANSFER"
    [] sub = "CAR_KEY_NORMAL" -> "BLUETOOTH_INTERACTION"
    [] sub \in AvSubmodes -> "AV_PLAYBACK_AND_RECORD"
    [] sub \in SpecialSubmodes -> "SPECIAL_SCENARIO_PROCESSING"
    [] OTHER -> "END"

GetV9BackgroundModeByMode(mode) ==
  CASE mode = "ALLOW_WIFI_AWARE" -> "WIFI_INTERACTION"
    [] mode \in (PlainModes \ {"ALLOW_WIFI_AWARE"}) \cup {"SPECIAL_SCENARIO_PROCESSING"} -> mode
    [] OTHER -> "END"

MutV9BySubModeNoScreen(sub) ==
  CASE sub = "LIVE_VIEW" -> "DATA_TRANSFER"
    [] sub = "CAR_KEY_NORMAL" -> "BLUETOOTH_INTERACTION"
    [] sub \in {"AUDIO_PLAYBACK_NORMAL", "AVSESSION_AUDIO_PLAYBACK"} -> "AUDIO_PLAYBACK"
    [] sub = "AUDIO_RECORD_NORMAL" -> "AUDIO_RECORDING"
    [] sub = "VOICE_CHAT_NORMAL" -> "VOIP"
    [] sub \in SpecialSubmodes -> "SPECIAL_SCENARIO_PROCESSING"
    [] OTHER -> "END"

GetV9BackgroundModeBySubMode(sub) ==
  CASE sub = "LIVE_VIEW" -> "DATA_TRANSFER"
    [] sub = "CAR_KEY_NORMAL" -> "BLUETOOTH_INTERACTION"
    [] sub \in {"AUDIO_PLAYBACK_NORMAL", "AVSESSION_AUDIO_PLAYBACK"} -> "AUDIO_PLAYBACK"
    [] sub \in {"AUDIO_RECORD_NORMAL", "SCREEN_RECORD_NORMAL"} -> "AUDIO_RECORDING"
    [] sub = "VOICE_CHAT_NORMAL" -> "VOIP"
    [] sub \in SpecialSubmodes -> "SPECIAL_SCENARIO_PROCESSING"
    [] OTHER -> "END"

Count(seq, x) == Cardinality({i \in DOMAIN seq : seq[i] = x})

\* A special scenario is asked for once and alone; it and a data transfer
\* have notifications of their own.
CheckSpecialModeParma(modes, combined) ==
  LET special == Count(modes, "SPECIAL_SCENARIO_PROCESSING")
      transfer == Count(modes, "DATA_TRANSFER")
  IN CASE combined /\ special > 0 -> "special_combined"
       [] combined /\ special = 0 /\ transfer > 0 -> "transfer_combined"
       [] ~combined /\ special > 1 -> "special_twice"
       [] ~combined /\ special = 1 /\ Len(modes) > 1 -> "special_with_others"
       [] OTHER -> ""

\* What is wrong with the pair at one index.
PairError(mode, sub) ==
  CASE sub \notin BackgroundTaskSubmode -> "cross_border"
    [] sub = "NORMAL" /\ ~IsModeTypeMatching(mode) -> "type_mismatch"
    [] sub \in BackgroundTaskSubmode \ {"NORMAL"} /\ GetSubModeTypeMatching(sub) # mode -> "type_mismatch"
    [] OTHER -> ""

StartBackgroundRunningCheckModes(modes, subs, combined) ==
  LET special == CheckSpecialModeParma(modes, combined)
      wrong == {i \in DOMAIN subs : i \in DOMAIN modes /\ PairError(modes[i], subs[i]) # ""}
  IN CASE modes = <<>> \/ subs = <<>> -> "empty"
       [] modes # <<>> /\ subs # <<>> /\ Len(modes) # Len(subs) -> "length_mismatch"
       [] modes # <<>> /\ Len(modes) = Len(subs) /\ special # "" -> special
       [] modes # <<>> /\ Len(modes) = Len(subs) /\ special = "" /\ wrong # {} ->
            LET i == CHOOSE i \in wrong : \A k \in wrong : i <= k IN PairError(modes[i], subs[i])
       [] OTHER -> ""

\* The old modes, position by position.
TaskModeTypeConversion(modes, subs) ==
  [i \in DOMAIN subs |-> IF subs[i] = "NORMAL" THEN GetV9BackgroundModeByMode(modes[i])
                                               ELSE GetV9BackgroundModeBySubMode(subs[i])]

------------------------------------------------------------------------------
(* A request [modes, subs, combined] and what became of it, [err, old].     *)

VARIABLES req, res

modeVars == <<req, res>>

Pending == [err |-> "pending", old |-> <<>>]

ModesInit(Requests) == req \in Requests /\ res = Pending

\* StartBackgroundRunning with a request object: checked, then converted.
Convert ==
  LET err == StartBackgroundRunningCheckModes(req.modes, req.subs, req.combined)
  IN /\ res = Pending
     /\ res' = [err |-> err, old |-> IF err = "" THEN TaskModeTypeConversion(req.modes, req.subs) ELSE <<>>]
     /\ UNCHANGED req

ModesSpec(Requests) == ModesInit(Requests) /\ [][Convert]_modeVars

\* What a pair of mode and submode asks for among the modes of the manager.
Recording == {"AUDIO_RECORD_NORMAL", "SCREEN_RECORD_NORMAL"}
AsksFor(mode, sub, old) ==
  CASE mode = "ALLOW_WIFI_AWARE" -> old = "WIFI_INTERACTION"
    [] mode = "AV_PLAYBACK_AND_RECORD" ->
         /\ old \in {"AUDIO_PLAYBACK", "AUDIO_RECORDING", "VOIP"}
         /\ (old = "AUDIO_RECORDING") <=> (sub \in Recording)
         /\ (old = "VOIP") <=> (sub = "VOICE_CHAT_NORMAL")
    [] OTHER -> old = mode

(***************************************************************************)
(* An accepted request is converted to modes the manager knows, and each   *)
(* of them is what its pair asks for: recording where recording was asked, *)
(* never a wider or another mode.  The check and the conversion read four  *)
(* different tables.  After it, too, a special scenario stands alone, and  *)
(* neither it nor a data transfer shares a notification, which the manager *)
(* relies on when it merges them.  (background_task_mode.cpp:41-93,        *)
(* common.cpp:857-879, bg_continuous_task_napi_module.cpp:656-733)         *)
(***************************************************************************)
ModesConvert ==
  res.err = "" =>
    /\ Len(res.old) = Len(req.modes)
    /\ \A i \in DOMAIN res.old : res.old[i] \in BackgroundMode /\ AsksFor(req.modes[i], req.subs[i], res.old[i])
    /\ LET old == {res.old[i] : i \in DOMAIN res.old}
       IN /\ "SPECIAL_SCENARIO_PROCESSING" \in old => Len(res.old) = 1 /\ ~req.combined
          /\ "DATA_TRANSFER" \in old => ~req.combined
=============================================================================
