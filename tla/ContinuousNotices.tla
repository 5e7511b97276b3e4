-------------------------- MODULE ContinuousNotices --------------------------
(***************************************************************************)
(* What the continuous task manager tells others: the notifications it     *)
(* publishes and withdraws, the changes it reports to subscribers, and the *)
(* file of records.                                                        *)
(*                                                                         *)
(* The operators compute on a record s of the manager's state:             *)
(*   tasks    continuousTaskInfosMap_                                      *)
(*   nidx     notificationIdIndex_                                         *)
(*   texts    how far the notification texts could be read                 *)
(*   cached   cachedBundleInfos_: declared modes and whether there is a    *)
(*            name for the application                                     *)
(*   avs      avSessionNotification_                                       *)
(*   live     liveViewInfo_                                                *)
(*   saved    the file of task records                                     *)
(*   sa       a system ability has subscribed                              *)
(*   heard    the tasks that run, as it has been told                      *)
(*   busy     the uids with a task, as it has been told                    *)
(*   shade    the notifications published and not withdrawn                *)
(*   stuck    history: labels that the notification service refused, or    *)
(*            that were published again after the user had removed them    *)
(* bad is the set of what fails while a handler runs: the kinds of label,  *)
(* "main" and "sub", that the notification service refuses, and queries of *)
(* other services by name.                                                 *)
(* An operator that may fail returns the state s, the record r it works on *)
(* and ok.                                                                 *)
(***************************************************************************)
EXTENDS ContinuousRecord, FiniteSetsExt

\* Do Op with each key of K, in an order that does not matter.
ForEach(s, K, Op(_, _)) == FoldSet(LAMBDA k, t : Op(t, k), s, K)

\* The orders in which a hash table may have the keys of K.
Orders(K) == Bijection(1..Cardinality(K), K)

\* Do Op with each key of order, from the first to the last.
InOrder(s, order, Op(_, _)) ==
    MapThenFoldSet(LAMBDA i, t : Op(t, order[i]), s, LAMBDA i : i, LAMBDA D : Max(D), DOMAIN order)

Put(s, r) == [s EXCEPT !.tasks = [k \in DOMAIN @ \cup {Key(r)} |-> IF k = Key(r) THEN r ELSE @[k]]]

Erase(s, k) == [s EXCEPT !.tasks = Restrict(@, DOMAIN @ \ {k})]

TasksOf(s, uid) == {k \in DOMAIN s.tasks : s.tasks[k].uid = uid}

-----------------------------------------------------------------------------
(* The file and the subscribers.                                           *)

RefreshTaskRecord(s) ==
    [s EXCEPT !.saved = [k \in DOMAIN s.tasks |-> ParseToJsonStr(s.tasks[k])]]

NotifySubscribersTaskStart(s, r) ==
    IF s.sa THEN [s EXCEPT !.heard = @ \cup {Key(r)}, !.busy = @ \cup {r.uid}] ELSE s

NotifySubscribersTaskCancel(s, r) == IF s.sa THEN [s EXCEPT !.heard = @ \ {Key(r)}] ELSE s

\* A suspension by the standby service is not told to system abilities.
NotifySubscribersTaskSuspend(s, r) ==
    IF s.sa /\ ~r.standby THEN [s EXCEPT !.heard = @ \ {Key(r)}] ELSE s

NotifySubscribersTaskActive(s, r) ==
    IF s.sa /\ ~r.standby
    THEN [s EXCEPT !.heard = @ \cup {Key(r)}, !.busy = @ \cup {r.uid}] ELSE s

\* An update changes nothing of what is kept of the subscriber.
OnContinuousTaskChanged(s, r, event) ==
    CASE event = "START"   -> NotifySubscribersTaskStart(s, r)
      [] event = "UPDATE"  -> s
      [] event = "CANCEL"  -> NotifySubscribersTaskCancel(s, r)
      [] event = "SUSPEND" -> NotifySubscribersTaskSuspend(s, r)
      [] event = "ACTIVE"  -> NotifySubscribersTaskActive(s, r)

\* The end of an application's tasks is reported without looking for others.
MutHandleAppContinuousTaskStopAlways(s, uid) ==
    IF s.sa THEN [s EXCEPT !.busy = @ \ {uid}] ELSE s

HandleAppContinuousTaskStop(s, uid) ==
    IF s.sa /\ TasksOf(s, uid) = {} THEN [s EXCEPT !.busy = @ \ {uid}] ELSE s

-----------------------------------------------------------------------------
(* NotificationTools.                                                      *)

Refused(bad, label) == label[1] \in bad

\* A number is used up even when the publication fails.
PublishNotification(s, bad, r) ==
    LET label == CreateNotificationLabel(r)
        id == IF r.nid = NoId THEN s.nidx + 1 ELSE r.nid
        t == [s EXCEPT !.nidx = IF r.nid = NoId THEN id ELSE @]
    IN  IF Refused(bad, label)
        THEN [s |-> [t EXCEPT !.stuck = @ \cup {label}], r |-> r, ok |-> FALSE]
        ELSE [s |-> [t EXCEPT !.shade = @ \cup {<<label, id>>}],
              r |-> [r EXCEPT !.label = label, !.nid = id], ok |-> TRUE]

PublishMainNotification(s, bad, r) == PublishNotification(s, bad, r)

PublishSubNotification(s, bad, r) ==
    LET label == CreateSubNotificationLabel(r)
        id == IF r.subNid = NoId THEN s.nidx + 1 ELSE r.subNid
        t == [s EXCEPT !.nidx = IF r.subNid = NoId THEN id ELSE @]
    IN  IF Refused(bad, label)
        THEN [s |-> [t EXCEPT !.stuck = @ \cup {label}], r |-> r, ok |-> FALSE]
        ELSE [s |-> [t EXCEPT !.shade = @ \cup {<<label, id>>}],
              r |-> [r EXCEPT !.subNid = id], ok |-> TRUE]

\* NotificationTools::CancelNotification.
Withdraw(s, bad, label, id) ==
    IF Refused(bad, label) THEN [s EXCEPT !.stuck = @ \cup {label}]
    ELSE [s EXCEPT !.shade = @ \ {<<label, id>>}]

WithdrawSub(s, bad, r) ==
    IF r.subNid = NoId THEN s ELSE Withdraw(s, bad, CreateSubNotificationLabel(r), r.subNid)

\* No task that is left shows the notification of r.
LastHolder(s, r) ==
    \A k \in DOMAIN s.tasks : <<s.tasks[k].label, s.tasks[k].nid>> # <<r.label, r.nid>>

\* BgContinuousTaskMgr::CancelNotification, for a record that is out of the map.
CancelNotification(s, bad, r) ==
    IF r.nid = NoId \/ ~LastHolder(s, r) THEN [s |-> s, ok |-> TRUE]
    ELSE LET sub == r.subNid # NoId /\ r.byReq
             t == Withdraw(s, bad, r.label, r.nid)
         IN  [s |-> IF sub THEN WithdrawSub(t, bad, r) ELSE t,
              ok |-> ~Refused(bad, IF sub THEN CreateSubNotificationLabel(r) ELSE r.label)]

-----------------------------------------------------------------------------
(* The bundle of an application and the text of a notification.            *)

\* A bundle without declared modes is cached only for a component's playback.  The
\* name is cached even when it could not be read.
SetCachedBundleInfo(s, bad, r) ==
    LET modes == IF Declared[r.uid] = {} /\ r.needNotif /\ r.component THEN {"AUDIO_PLAYBACK"}
                 ELSE Declared[r.uid]
    IN  IF r.uid \in DOMAIN s.cached \/ "bundle" \in bad \/ modes = {} THEN s
        ELSE [s EXCEPT !.cached = [u \in DOMAIN @ \cup {r.uid} |->
                  IF u = r.uid THEN [modes |-> modes, named |-> "label" \notin bad] ELSE @[u]]]

GetBackgroundModeInfo(s, uid) == IF uid \in DOMAIN s.cached THEN s.cached[uid].modes ELSE {}

\* There is a text and a name to show.
CanName(s, uid) == s.texts # "none" /\ uid \in DOMAIN s.cached /\ s.cached[uid].named

CheckLiveViewInfoModes(r) == "LOCATION" \in r.modes /\ ~CheckExistOtherMode(r.modes, "LOCATION")

CheckLiveViewInfo(s, r) == r.uid \in s.live /\ CheckLiveViewInfoModes(r)

IsPublishAvsession(s, r) == r.uid \in s.avs \/ ("AVSESSION" \in r.subModes /\ r.byReq)

HasCarKey(r) == "BLUETOOTH_INTERACTION" \in r.modes /\ "CAR_KEY" \in r.subModes

\* The modes that a notification names.
FilterNotificationMode(s, r) ==
    {mode \in r.modes :
        /\ ~(mode = "BLUETOOTH_INTERACTION" /\ HasCarKey(r))
        /\ ~(mode = "AUDIO_PLAYBACK" /\ IsPublishAvsession(s, r))
        /\ ~(mode \in {"VOIP", "AUDIO_RECORDING"} /\ r.system)}

\* Playback that has not begun has a text of its own.
SingleModeNotificationText(s, bad, r) ==
    IF /\ "BLUETOOTH_INTERACTION" \notin r.modes
       /\ "AUDIO_PLAYBACK" \in FilterNotificationMode(s, r)
       /\ s.texts = "all" /\ "silent" \in bad
    THEN "starting" ELSE "text"

\* Texts of several modes are read from the resource bundle; WORKOUT and the
\* modes no request names have none.
MergeNotificationText(s, bad, M) ==
    IF \/ s.texts # "all" \/ "bundle" \in bad
       \/ M \cap {"WORKOUT", "DEFAULT", "AV_PLAYBACK_AND_RECORD"} # {}
    THEN "error" ELSE "text"

CheckSpecialNotificationText(s, r) ==
    IF s.texts = "all" /\ r.subModes \cap {"MEDIA_PROCESS", "VIDEO_BROADCAST", "WORK_OUT"} # {}
    THEN "text" ELSE "error"

\* What there is to show: an error, nothing, a text, or the text of playback that
\* is starting.
CheckNotificationText(s, bad, r) ==
    LET checkModes == FilterNotificationMode(s, r)
    IN  CASE CheckLiveViewInfo(s, r) -> "empty"
          [] ~CheckLiveViewInfo(s, r) /\ "SPECIAL_SCENARIO_PROCESSING" \in r.modes ->
                CheckSpecialNotificationText(s, r)
          [] OTHER ->
                IF HasCarKey(r) /\ s.texts # "all" THEN "error"
                ELSE IF checkModes = {} THEN (IF HasCarKey(r) THEN "text" ELSE "empty")
                ELSE IF Cardinality(checkModes) = 1 THEN SingleModeNotificationText(s, bad, r)
                ELSE MergeNotificationText(s, bad, checkModes)

-----------------------------------------------------------------------------
(* Sending the notification of a task.                                     *)

SendContinuousTaskNotification(s, bad, r) ==
    LET text == CheckNotificationText(s, bad, r)
        q == IF text = "starting" THEN [r EXCEPT !.playing = FALSE] ELSE r
    IN  IF ~CanName(s, r.uid) \/ text = "error" THEN [s |-> s, r |-> r, ok |-> FALSE]
        ELSE IF text = "empty"
             THEN [s |-> IF r.nid = NoId THEN s ELSE Withdraw(s, bad, r.label, r.nid),
                   r |-> [r EXCEPT !.nid = NoId], ok |-> TRUE]
        ELSE IF r.modes = {"AUDIO_PLAYBACK"} /\ IsPublishAvsession(s, r)
             THEN [s |-> s, r |-> q, ok |-> TRUE]
        ELSE PublishNotification(s, bad, q)

\* The live view of the transfer, then a notification for the other modes; the
\* record for them is made anew and is not of a system application.
SendLiveViewAndOtherNotification(s, bad, r) ==
    LET main == PublishMainNotification(s, bad, r)
        other == [r EXCEPT !.modes = @ \ {"DATA_TRANSFER"}, !.system = FALSE]
        text == CheckNotificationText(s, bad, other)
        sub == PublishSubNotification(main.s, bad, main.r)
        undo(m) == [m EXCEPT !.s = Withdraw(@, bad, m.r.label, m.r.nid), !.ok = FALSE]
    IN  IF ~CanName(s, r.uid) THEN [s |-> s, r |-> r, ok |-> FALSE]
        ELSE IF ~main.ok \/ text = "empty" THEN main
        ELSE IF text = "error" THEN undo(main)
        ELSE IF sub.ok THEN sub ELSE undo(sub)

HasLiveViewAndOther(r) == r.byReq /\ Cardinality(r.modes) > 1 /\ "DATA_TRANSFER" \in r.modes

Send(s, bad, r) == IF HasLiveViewAndOther(r) THEN SendLiveViewAndOtherNotification(s, bad, r)
                   ELSE SendContinuousTaskNotification(s, bad, r)

\* The state after the record has been sent and is back in the map, whether that
\* succeeded or not.
Sent(m) == Put(m.s, m.r)

HandleActiveNotification(s, bad, r) == IF r.suspended THEN s ELSE Sent(Send(s, bad, r))
=============================================================================
