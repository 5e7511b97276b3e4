-------------------------- MODULE ContinuousControl --------------------------
(***************************************************************************)
(* What ends, suspends or changes continuous tasks without a request of    *)
(* the application: the scheduler, the audio and session services, the     *)
(* user, the bundle and account services, a debug command.  The state      *)
(* record s has in addition                                                *)
(*   hap    what the subscriber of each uid is to be told                  *)
(*   delay  delayTasks_                                                    *)
(*   late   the delayed tasks TASK_NOTIFY_AUDIO_PLAYBACK_SEND in the queue *)
(*   hushed history: labels withdrawn because their task made no sound     *)
(***************************************************************************)
EXTENDS ContinuousRequests

\* Main and sub notification of a record, whoever else shows them.
WithdrawBoth(s, bad, r) ==
    LET t == Withdraw(s, bad, r.label, r.nid) IN IF r.byReq THEN WithdrawSub(t, bad, r) ELSE t

-----------------------------------------------------------------------------
(* The scheduler.                                                          *)

RemoveRecord(s, bad, k) ==
    LET r == s.tasks[k]
    IN  RefreshTaskRecord(Erase(WithdrawBoth(OnContinuousTaskChanged(s, r, "CANCEL"), bad, r), k))

RemoveRecords(s, bad, K) == ForEach(s, K, LAMBDA t, k : RemoveRecord(t, bad, k))

RemoveContinuousTaskRecordByUid(s, bad, uid) ==
    HandleAppContinuousTaskStop(RemoveRecords(s, bad, TasksOf(s, uid)), uid)

RemoveContinuousTaskRecordByUidAndMode(s, bad, uid, mode) ==
    HandleAppContinuousTaskStop(
        RemoveRecords(s, bad, {k \in TasksOf(s, uid) : mode \in s.tasks[k].modes}), uid)

\* taskType is a mode, "ALL_MODES", or "NONE" when the key alone counts.
HandleStopContinuousTask(s, bad, uid, taskType, k) ==
    CASE taskType = "DATA_TRANSFER" -> RemoveContinuousTaskRecordByUidAndMode(s, bad, uid, taskType)
      [] taskType = "ALL_MODES"     -> RemoveContinuousTaskRecordByUid(s, bad, uid)
      [] OTHER -> IF k \in DOMAIN s.tasks THEN StopBackgroundRunningByTask(s, bad, k).s ELSE s

\* The suspension is not written to the file.
MutHandleSuspendUnsaved(s, bad, uid, k) ==
    LET r == [s.tasks[k] EXCEPT !.suspended = TRUE, !.standby = FALSE]
        t == OnContinuousTaskChanged(Put(s, r), r, "SUSPEND")
    IN  HandleAppContinuousTaskStop(
            WithdrawBoth(IF r.uid = uid THEN t ELSE s, bad, s.tasks[k]), uid)

\* The notifications are withdrawn even when the task is not of uid.
HandleSuspendContinuousTask(s, bad, uid, k) ==
    LET r == [s.tasks[k] EXCEPT !.suspended = TRUE, !.standby = FALSE]
        t == RefreshTaskRecord(OnContinuousTaskChanged(Put(s, r), r, "SUSPEND"))
    IN  IF k \notin DOMAIN s.tasks THEN s
        ELSE HandleAppContinuousTaskStop(
                 WithdrawBoth(IF r.uid = uid THEN t ELSE s, bad, s.tasks[k]), uid)

HandleSuspendContinuousTaskByStandby(s, uid, k) ==
    LET r == [s.tasks[k] EXCEPT !.standby = TRUE, !.standbySuspend = TRUE]
        stays == s.tasks[k].uid # uid \/ s.tasks[k].suspended \/ s.tasks[k].standbySuspend
    IN  IF k \notin DOMAIN s.tasks THEN s
        ELSE IF stays THEN s
        ELSE RefreshTaskRecord(OnContinuousTaskChanged(Put(s, r), r, "SUSPEND"))

IsExistCallback(s, uid, type) == type \in s.hap[uid]

\* Without a callback a task that should be suspended is stopped.
SuspendContinuousTask(s, bad, uid, k, isStandby) ==
    IF isStandby
    THEN IF IsExistCallback(s, uid, "SUSPEND") THEN HandleSuspendContinuousTaskByStandby(s, uid, k) ELSE s
    ELSE IF IsExistCallback(s, uid, "SUSPEND") THEN HandleSuspendContinuousTask(s, bad, uid, k)
         ELSE HandleStopContinuousTask(s, bad, uid, "NONE", k)

ActivateByStandby(s, k) ==
    LET r == [s.tasks[k] EXCEPT !.standby = TRUE, !.standbySuspend = FALSE]
    IN  RefreshTaskRecord(OnContinuousTaskChanged(Put(s, r), r, "ACTIVE"))

HandleActiveContinuousTaskByStandby(s, uid) ==
    ForEach(s, {k \in TasksOf(s, uid) : s.tasks[k].standbySuspend}, ActivateByStandby)

ActiveContinuousTask(s, bad, uid, order, isStandby) ==
    IF ~isStandby THEN HandleActiveContinuousTask(s, bad, order)
    ELSE IF IsExistCallback(s, uid, "ACTIVE") THEN HandleActiveContinuousTaskByStandby(s, uid) ELSE s

-----------------------------------------------------------------------------
(* Audio and sessions.                                                     *)

\* The second suspension of a task ends it.
SuspendAudio(s, bad, k) ==
    LET r == [s.tasks[k] EXCEPT !.detect = FALSE]
        t == [Withdraw(Put(s, r), bad, r.label, r.nid) EXCEPT !.hushed = @ \cup {r.label}]
        q == [r EXCEPT !.suspended = TRUE, !.times = 1]
    IN  IF ~IsExistCallback(s, r.uid, "SUSPEND") THEN t
        ELSE IF r.times = 0
             THEN RefreshTaskRecord(OnContinuousTaskChanged(Put(t, q), q, "SUSPEND"))
        ELSE RefreshTaskRecord(Erase(OnContinuousTaskChanged(t, r, "CANCEL"), k))

HandleSuspendContinuousAudioTask(s, bad, uid) ==
    HandleAppContinuousTaskStop(
        ForEach(s, {k \in TasksOf(s, uid) : "AUDIO_PLAYBACK" \in s.tasks[k].modes},
                LAMBDA t, k : SuspendAudio(t, bad, k)), uid)

\* The name of the delayed task is the same for every application.
RemoveAudioPlaybackDelayTask(s, uid) ==
    IF uid \in s.delay THEN [s EXCEPT !.late = {}, !.delay = @ \ {uid}] ELSE s

\* k is the first record of uid in the map.
UpdateForAVSession(s, bad, k, isPublish) ==
    LET r == s.tasks[k]
        m == SendContinuousTaskNotification(s, bad, r)
        text == GetNotificationText(s, bad, r)
    IN  IF ~r.detect THEN Put(s, [r EXCEPT !.detect = TRUE])
        ELSE IF ~isPublish /\ "AVSESSION" \in r.subModes THEN s
        ELSE IF ~isPublish /\ r.modes = {"AUDIO_PLAYBACK"} THEN RefreshTaskRecord(Sent(m))
        ELSE IF "DATA_TRANSFER" \in r.modes THEN s
        ELSE IF text = "empty"
             THEN RefreshTaskRecord(Put(Withdraw(s, bad, r.label, r.nid), [r EXCEPT !.nid = NoId]))
        ELSE RefreshTaskRecord(IF text = "starting" THEN Put(s, [r EXCEPT !.playing = FALSE]) ELSE s)

AVSessionNotifyUpdateNotificationInner(s, bad, uid, k, isPublish) ==
    LET t == [s EXCEPT !.avs = IF isPublish THEN @ \cup {uid} ELSE @ \ {uid}]
        u == IF isPublish THEN RemoveAudioPlaybackDelayTask(t, uid) ELSE t
    IN  RemoveAudioPlaybackDelayTask(
            IF TasksOf(s, uid) = {} THEN u ELSE UpdateForAVSession(u, bad, k, isPublish), uid)

\* A session that ends is handled by a delayed task.
AVSessionNotifyUpdateNotification(s, uid) == [s EXCEPT !.late = @ \cup {uid}, !.delay = @ \cup {uid}]

SetPlaying(s, k) == Put(s, [s.tasks[k] EXCEPT !.playing = TRUE])

\* Playback has begun: the text of the notification is replaced.  A first task
\* is looked for with an id above 0.
NotifyAudioStartInner(s, bad, uid) ==
    LET silent == {k \in TasksOf(s, uid) : ~s.tasks[k].playing /\ s.tasks[k].nid # NoId}
        found == \E k \in silent : s.tasks[k].nid > 0
    IN  IF ~found \/ "label" \in bad \/ s.texts = "none" THEN s
        ELSE RefreshTaskRecord(ForEach(s, silent, SetPlaying))

ShowDetected(s, bad, k) ==
    LET t == [s EXCEPT !.avs = @ \ {s.tasks[k].uid}] IN HandleActiveNotification(t, bad, t.tasks[k])

\* Tasks that the detection names are shown again; the file is not written.
SendNotificationByDeteTaskInner(s, bad, K) ==
    ForEach(s, K \cap DOMAIN s.tasks, LAMBDA t, k : ShowDetected(t, bad, k))

-----------------------------------------------------------------------------
(* Live views of applications.                                             *)

SetLiveViewInfo(s, uid, shown) ==
    [s EXCEPT !.live = IF shown THEN @ \cup {uid} ELSE @ \ {uid}]

HideNotification(s, bad, k) ==
    LET r == s.tasks[k]
    IN  RefreshTaskRecord(Put(Withdraw(s, bad, r.label, r.nid), [r EXCEPT !.nid = NoId]))

CancelBgTaskNotificationInner(s, bad, uid) ==
    ForEach(s, {k \in TasksOf(s, uid) : s.tasks[k].nid # NoId /\ CheckLiveViewInfoModes(s.tasks[k])},
            LAMBDA t, k : HideNotification(t, bad, k))

ShowNotification(s, bad, k) ==
    RefreshTaskRecord(Sent(SendContinuousTaskNotification(s, bad, s.tasks[k])))

SendNotificationByLiveViewCancelInner(s, bad, uid) ==
    ForEach(s, {k \in TasksOf(s, uid) : s.tasks[k].nid = NoId},
            LAMBDA t, k : ShowNotification(t, bad, k))

-----------------------------------------------------------------------------
(* The user, the application's life, bundles, accounts and the shell.      *)

EndShown(s, bad, isSub, k) ==
    LET r == s.tasks[k]
        t == OnContinuousTaskChanged(s, r, "CANCEL")
        u == IF isSub THEN Withdraw(t, bad, r.label, r.nid)
             ELSE IF r.byReq THEN WithdrawSub(t, bad, r) ELSE t
    IN  RefreshTaskRecord(HandleAppContinuousTaskStop(Erase(u, k), r.uid))

\* The user removed the main or the sub notification of the task k: every task
\* that shows it ends, and the other notification goes.
StopContinuousTaskByUserInner(s, bad, k, isSub) ==
    LET same == {j \in DOMAIN s.tasks : /\ s.tasks[j].nid = s.tasks[k].nid
                                        /\ s.tasks[j].label = s.tasks[k].label}
    IN  IF k \notin DOMAIN s.tasks THEN s
        ELSE IF s.tasks[k].nid = NoId THEN s
        ELSE ForEach(s, same, LAMBDA t, j : EndShown(t, bad, isSub, j))

\* A record ends with its application, account or data; kinds says which of its
\* notifications are withdrawn.  Withdrawing the number NoId has no effect.
EndRecord(s, bad, kinds, k) ==
    LET r == s.tasks[k]
        t == OnContinuousTaskChanged(s, r, "CANCEL")
        u == IF "main" \in kinds /\ r.nid # NoId THEN Withdraw(t, bad, r.label, r.nid) ELSE t
        v == IF "sub" \in kinds /\ r.byReq THEN WithdrawSub(u, bad, r) ELSE u
    IN  RefreshTaskRecord(HandleAppContinuousTaskStop(Erase(v, k), r.uid))

EndRecords(s, bad, K, kinds) == ForEach(s, K, LAMBDA t, k : EndRecord(t, bad, kinds, k))

\* A stopped application keeps its tasks' notifications.
MutOnAppStoppedShown(s, bad, uid) == EndRecords(s, bad, TasksOf(s, uid), {})

OnAppStopped(s, bad, uid) == EndRecords(s, bad, TasksOf(s, uid), {"main", "sub"})

\* What an application in the background may ask for is fixed when it leaves the
\* foreground.
OnAppStateChanged(s, uid, foreground) ==
    LET modes == UNION {s.tasks[k].modes : k \in TasksOf(s, uid)}
    IN  IF foreground THEN [s EXCEPT !.fore = @ \cup {uid}, !.prelaunch = @ \ {uid}]
        ELSE [s EXCEPT !.fore = @ \ {uid}, !.applied[uid] = modes]

OnBundleInfoChanged(s, bad, uid, action) ==
    LET t == [s EXCEPT !.cached = Restrict(@, DOMAIN @ \ {uid})]
    IN  IF action = "DATA_CLEARED"
        THEN EndRecords(t, bad, TasksOf(s, uid), {"main"}) ELSE t

\* U: the uids of the users that are not active.
ClearBgOsAccountTask(s, bad, U) ==
    EndRecords(s, bad, {k \in DOMAIN s.tasks : s.tasks[k].uid \in U}, {"main"})

RemoveInner(s, bad, k) ==
    LET r == s.tasks[k]
        t == Erase(OnContinuousTaskChanged(s, r, "CANCEL"), k)
    IN  CancelNotification(RefreshTaskRecord(HandleAppContinuousTaskStop(t, r.uid)), bad, r).s

HandleRemoveTaskByMode(s, bad, mode) ==
    ForEach(s, {k \in DOMAIN s.tasks : s.tasks[k].inner /\ mode \in s.tasks[k].modes},
            LAMBDA t, k : RemoveInner(t, bad, k))

DumpCancel(s, bad, k) ==
    LET r == s.tasks[k] IN OnContinuousTaskChanged(Withdraw(s, bad, r.label, r.nid), r, "CANCEL")

\* The command that cancels every task.
DumpCancelTask(s, bad) ==
    LET K == DOMAIN s.tasks
        t == ForEach(s, K, LAMBDA u, k : DumpCancel(u, bad, k))
        none == RefreshTaskRecord([t EXCEPT !.tasks = Restrict(@, {})])
    IN  ForEach(none, {s.tasks[k].uid : k \in K}, HandleAppContinuousTaskStop)

SetSilent(s, k) == Put(s, [s.tasks[k] EXCEPT !.playing = FALSE])

\* The language changed: texts and names are read again.
OnBundleResourcesChangedInner(s, bad, texts) ==
    LET t == [s EXCEPT !.texts = texts, !.cached = Restrict(@, {})]
        plain == {k \in DOMAIN s.tasks :
                     s.tasks[k].subNid = NoId /\ "DATA_TRANSFER" \notin s.tasks[k].modes}
    IN  ForEach(t, {k \in plain : GetNotificationText(t, bad, s.tasks[k]) = "starting"}, SetSilent)

-----------------------------------------------------------------------------
(* Subscribers.                                                            *)

\* A second subscription of an application adds to what it is told.
AddSubscriberInner(s, uid, flags) == [s EXCEPT !.hap[uid] = @ \cup flags]

\* The subscriber is forgotten when nothing is left to tell it.
RemoveSubscriberInner(s, uid, flags) == [s EXCEPT !.hap[uid] = @ \ flags]

OnRemoteSubscriberDiedInner(s, uid) == [s EXCEPT !.hap[uid] = {}]
=============================================================================
