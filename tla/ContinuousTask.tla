---------------------------- MODULE ContinuousTask ----------------------------
(***************************************************************************)
(* BgContinuousTaskMgr: continuous tasks, from the request of an           *)
(* application to their end, over restarts of the service.                 *)
(*                                                                         *)
(* Every operation runs to its end on the one thread of the manager, so    *)
(* each is one action.  An IPC call waits for its operation and overtakes  *)
(* what has been posted: events about applications and notifications are   *)
(* delivered from posted, late and in any order.                           *)
(***************************************************************************)
EXTENDS ContinuousControl

CONSTANTS
    Requests,       \* the requests that applications and system abilities make
    Faults,         \* the sets of failures that one operation may meet
    Texts,          \* how far the notification texts may be readable
    FlagSets,       \* what an application may ask to be told with one call
    MaxId, MaxNid,  \* bounds on task and notification numbers
    MaxGen          \* bound on the processes that an application has in turn

ASSUME TaskAssumption ==
    /\ Requests \subseteq Request
    /\ Texts \subseteq {"none", "main", "all"}
    /\ FlagSets \subseteq SUBSET {"SUSPEND", "ACTIVE"}
    /\ {MaxId, MaxNid, MaxGen} \subseteq Nat

VARIABLES
    mgr,        \* the state record of the manager, of the file and of the shade
    phase,      \* of the service: "down", "waiting" for others, "ready" or "failed"
    proc,       \* the process of each application: its number and whether it lives
    posted,     \* events on their way to the manager
    before      \* history: the tasks when the service last went down

vars == <<mgr, phase, proc, posted, before>>

Ready == phase = "ready"
Only(m) == mgr' = m /\ UNCHANGED <<phase, proc, posted, before>>
PidOf(uid) == <<uid, proc[uid].gen>>
Lives(pid) == proc[pid[1]].alive /\ proc[pid[1]].gen = pid[2]
Bounded == mgr.nidx < MaxNid

\* The manager's memory when its process starts.
Fresh(s) ==
    [s EXCEPT !.tasks = Restrict(@, {}), !.tidx = 0, !.nidx = NoId, !.texts = "none",
              !.cached = Restrict(@, {}), !.avs = {}, !.live = {}, !.fore = {},
              !.applied = [u \in Uids |-> {}], !.prelaunch = {}, !.disabled = {},
              !.hap = [u \in Uids |-> {}], !.delay = {}, !.late = {}, !.sa = FALSE,
              !.heard = {}, !.busy = {}]

-----------------------------------------------------------------------------
(* Start of the service.                                                   *)

\* The notification of a task whose process is gone stays.
MutCheckRecordShown(s, bad, k) ==
    LET r == s.tasks[k]
    IN  IF ~Lives(r.pid) THEN Erase(s, k)
        ELSE IF r.nid = NoId THEN s
        ELSE HandleActiveNotification(SetCachedBundleInfo(s, bad, r), bad, r)

\* The task of a process that is gone ends, any other is shown again.
CheckRecord(s, bad, k) ==
    LET r == s.tasks[k]
    IN  IF ~Lives(r.pid) THEN CancelNotification(Erase(s, k), bad, r).s
        ELSE IF r.nid = NoId THEN s
        ELSE HandleActiveNotification(SetCachedBundleInfo(s, bad, r), bad, r)

\* The numbers begin again at the first.
MutCheckPersistenceDataKeepsIndices(s, bad, order) ==
    InOrder(s, order, LAMBDA t, k : CheckRecord(t, bad, k))

\* order is that of the map.
CheckPersistenceData(s, bad, order) ==
    LET t == InOrder(s, order, LAMBDA u, k : CheckRecord(u, bad, k))
        maxNotificationId == Max({NoId} \cup {s.tasks[k].nid : k \in DOMAIN s.tasks})
        maxContinuousTaskId == Max({NoId} \cup {s.tasks[k].id : k \in DOMAIN s.tasks})
    IN  [t EXCEPT !.nidx = IF maxNotificationId = NoId THEN @ ELSE maxNotificationId,
                  !.tidx = IF maxContinuousTaskId = NoId THEN @ ELSE maxContinuousTaskId]

RestoreApplyRecord(s, bad) ==
    IF "query" \in bad THEN [s EXCEPT !.fore = {}]
    ELSE [s EXCEPT !.fore = s.front,
                   !.applied = [u \in Uids |-> UNION {s.tasks[k].modes : k \in TasksOf(s, u)}]]

\* When the processes cannot be listed everything stays as the file has it.
HandlePersistenceData(s, bad, order) ==
    LET t == [s EXCEPT !.tasks = s.saved]
    IN  IF "process" \in bad THEN t
        ELSE RestoreApplyRecord(RefreshTaskRecord(CheckPersistenceData(t, bad, order)), bad)

\* The texts are read from the resources of the service's own bundle: all of them,
\* none when the resources or the names of the modes are missing, or only these.
GetNotificationPrompt(s, texts) == [s EXCEPT !.texts = texts]

InitRequiredResourceInfo(s, bad, order, texts) ==
    HandlePersistenceData(GetNotificationPrompt(s, texts), bad, order)

RegisterListeners(bad) == "register" \notin bad

\* Init of the service; InitNecessaryState is tried again until the services
\* that it needs are there.
Start ==
    /\ phase = "down"
    /\ phase' = "waiting"
    /\ UNCHANGED <<mgr, proc, posted, before>>

\* A listener that cannot be registered is not tried again.
InitNecessaryState ==
    /\ phase = "waiting"
    /\ \E bad \in Faults :
        IF ~RegisterListeners(bad) THEN phase' = "failed" /\ UNCHANGED mgr
        ELSE /\ phase' = "ready"
             /\ \E order \in Orders(DOMAIN mgr.saved), texts \in Texts :
                    mgr' = InitRequiredResourceInfo(mgr, bad, order, texts)
    /\ UNCHANGED <<proc, posted, before>>

\* The process of the service dies; the file and the shade stay, and a system
\* ability has to subscribe again.
Crash ==
    /\ phase # "down"
    /\ phase' = "down"
    /\ mgr' = Fresh(mgr)
    /\ before' = IF Ready THEN mgr.tasks ELSE before
    /\ posted' = {}
    /\ UNCHANGED proc

-----------------------------------------------------------------------------
(* Requests.                                                               *)

Mergeable == {NoId} \cup {mgr.tasks[k].id : k \in {k \in DOMAIN mgr.tasks : mgr.tasks[k].combined}}

StartBackgroundRunning ==
    /\ Ready
    /\ mgr.tidx < MaxId /\ Bounded
    /\ \E q \in Requests, bad \in Faults :
        /\ ~q.inner
        /\ proc[q.uid].alive
        /\ CheckTaskParam(q) /\ CheckSubMode(q)
        /\ \E mergeId \in IF q.byReq /\ q.combined THEN Mergeable ELSE {NoId} :
               Only(StartBackgroundRunningInner(mgr, bad, NewRecord(q, PidOf(q.uid), mergeId)))

StartBackgroundRunningForInner ==
    /\ Ready
    /\ mgr.tidx < MaxId /\ Bounded
    /\ \E q \in Requests, bad \in Faults :
        /\ q.inner
        /\ CheckPermissionForInner(q)
        /\ proc[q.uid].alive
        /\ Only(StartBackgroundRunningInner(mgr, bad, NewRecord(q, PidOf(q.uid), NoId)))

OrdersOf(uid) == Orders(SuspendedOf(mgr, uid))

\* By the id that the request object was given, or by the caller's ability.
UpdateBackgroundRunning ==
    /\ Ready /\ Bounded
    /\ \E q \in Requests, k \in DOMAIN mgr.tasks, bad \in Faults :
        /\ proc[q.uid].alive
        /\ ~q.inner
        /\ \E order \in OrdersOf(k[1]) :
            IF q.byReq
            THEN /\ mgr.tasks[k].byReq
                 /\ Only(UpdateBackgroundRunningByTaskIdInner(mgr, bad, order, q.uid, k, q))
            ELSE /\ k = <<q.uid, q.ability, NoId>>
                 /\ q.newApi
                 /\ Only(UpdateBackgroundRunningInner(mgr, bad, order, k, q))

UpdateDataTransferProgress ==
    /\ Ready /\ Bounded
    /\ \E k \in DOMAIN mgr.tasks, bad \in Faults :
        /\ proc[k[1]].alive
        /\ Only(UpdateDataTransferProgressInner(mgr, bad, k))

\* By id, of whatever application, or all tasks of an ability of the caller.
StopBackgroundRunningInner(uid, ability, id, bad) ==
    IF id # NoId
    THEN \E k \in {k \in DOMAIN mgr.tasks : mgr.tasks[k].id = id} :
             Only(StopBackgroundRunningByTask(mgr, bad, k).s)
    ELSE /\ TasksOfAbility(mgr, uid, ability) # {}
         /\ \E order \in Orders(TasksOfAbility(mgr, uid, ability)) :
                Only(StopBackgroundRunningByContext(mgr, bad, order))

StopBackgroundRunning ==
    /\ Ready
    /\ \E uid \in Uids, ability \in Abilities, id \in {NoId} \cup 1..MaxId, bad \in Faults :
           StopBackgroundRunningInner(uid, ability, id, bad)

-----------------------------------------------------------------------------
(* The scheduler, audio and sessions.                                      *)

StopContinuousTask ==
    /\ Ready
    /\ \E uid \in Uids, k \in DOMAIN mgr.tasks, bad \in Faults,
          taskType \in {"DATA_TRANSFER", "ALL_MODES", "NONE"} :
           Only(HandleStopContinuousTask(mgr, bad, uid, taskType, k))

SuspendTask ==
    /\ Ready
    /\ \E k \in DOMAIN mgr.tasks, bad \in Faults, isStandby \in BOOLEAN :
           Only(SuspendContinuousTask(mgr, bad, k[1], k, isStandby))

ActivateTask ==
    /\ Ready /\ Bounded
    /\ \E uid \in Uids, bad \in Faults, isStandby \in BOOLEAN :
        \E order \in OrdersOf(uid) :
           Only(ActiveContinuousTask(mgr, bad, uid, order, isStandby))

SuspendContinuousAudioTask ==
    /\ Ready
    /\ \E uid \in Uids, bad \in Faults : Only(HandleSuspendContinuousAudioTask(mgr, bad, uid))

\* The record of uid that comes first in the map, which has no order.
FirstOf(uid) == IF TasksOf(mgr, uid) = {} THEN {<<>>} ELSE TasksOf(mgr, uid)

SessionShown ==
    /\ Ready /\ Bounded
    /\ \E uid \in Uids, bad \in Faults : \E k \in FirstOf(uid) :
           Only(AVSessionNotifyUpdateNotificationInner(mgr, bad, uid, k, TRUE))

SessionGone ==
    /\ Ready
    /\ \E uid \in Uids : uid \notin mgr.late /\ Only(AVSessionNotifyUpdateNotification(mgr, uid))

SessionGoneLate ==
    /\ Ready /\ Bounded
    /\ \E uid \in mgr.late, bad \in Faults : \E k \in FirstOf(uid) :
           LET s == [mgr EXCEPT !.late = @ \ {uid}]
           IN  Only(AVSessionNotifyUpdateNotificationInner(s, bad, uid, k, FALSE))

NotifyAudioStart ==
    /\ Ready
    /\ \E uid \in Uids, bad \in Faults : Only(NotifyAudioStartInner(mgr, bad, uid))

SendNotificationByDeteTask ==
    /\ Ready /\ Bounded
    /\ \E k \in DOMAIN mgr.tasks, bad \in Faults :
           Only(SendNotificationByDeteTaskInner(mgr, bad, {k}))

-----------------------------------------------------------------------------
(* Notifications, applications, bundles, accounts, subscribers.            *)

\* The subscriber of notifications sees a navigation view of an application.
OnConsumed ==
    /\ Ready
    /\ \E uid \in Uids, bad \in Faults :
           Only(CancelBgTaskNotificationInner(SetLiveViewInfo(mgr, uid, TRUE), bad, uid))

OnCanceledLiveView ==
    /\ Ready /\ Bounded
    /\ \E uid \in mgr.live, bad \in Faults :
           Only(SendNotificationByLiveViewCancelInner(SetLiveViewInfo(mgr, uid, FALSE), bad, uid))

\* The user removes a notification; the manager hears of it later.
UserRemoves ==
    /\ \E n \in mgr.shade :
        /\ mgr' = [mgr EXCEPT !.shade = @ \ {n}]
        /\ posted' = IF phase = "down" THEN posted ELSE posted \cup {<<"removed", n[1]>>}
    /\ UNCHANGED <<phase, proc, before>>

\* The key of the task is read from the label.  A notification that has been
\* published again meanwhile is not withdrawn.
CancelNotificationByBgTask ==
    \E e \in posted, bad \in Faults :
        /\ e[1] = "removed"
        /\ posted' = posted \ {e}
        /\ LET s == [mgr EXCEPT !.stuck = @ \cup ({e[2]} \cap {n[1] : n \in mgr.shade})]
           IN  mgr' = IF Ready THEN StopContinuousTaskByUserInner(s, bad, e[2][2], e[2][1] = "sub")
                      ELSE mgr
        /\ UNCHANGED <<phase, proc, before>>

AppStarts ==
    \E uid \in Uids :
        /\ ~proc[uid].alive
        /\ proc[uid].gen < MaxGen
        /\ proc' = [proc EXCEPT ![uid] = [gen |-> @.gen + 1, alive |-> TRUE]]
        /\ UNCHANGED <<mgr, phase, posted, before>>

\* The subscriber of the application dies with it; its end is posted.
AppDies ==
    \E uid \in Uids :
        /\ proc[uid].alive
        /\ proc' = [proc EXCEPT ![uid].alive = FALSE]
        /\ posted' = IF phase = "down" THEN posted ELSE posted \cup {<<"stopped", uid>>}
        /\ LET s == [mgr EXCEPT !.front = @ \ {uid}, !.prelaunch = @ \ {uid}]
           IN  mgr' = IF Ready THEN OnRemoteSubscriberDiedInner(s, uid) ELSE s
        /\ UNCHANGED <<phase, before>>

AppStopped ==
    \E e \in posted, bad \in Faults :
        /\ e[1] = "stopped"
        /\ posted' = posted \ {e}
        /\ mgr' = IF Ready THEN OnAppStopped(mgr, bad, e[2]) ELSE mgr
        /\ UNCHANGED <<phase, proc, before>>

\* An ability is terminated.
OnAbilityStateChanged ==
    /\ Ready
    /\ \E uid \in Uids, ability \in Abilities, bad \in Faults :
        \E order \in Orders(TasksOfAbility(mgr, uid, ability)) :
            Only(StopBackgroundRunningByContext(mgr, bad, order))

AppStateChanged ==
    /\ \E uid \in Uids :
        /\ proc[uid].alive
        /\ LET foreground == uid \notin mgr.front
               s == [mgr EXCEPT !.front = IF foreground THEN @ \cup {uid} ELSE @ \ {uid}]
           IN  Only(IF Ready THEN OnAppStateChanged(s, uid, foreground) ELSE s)

\* A game is launched in advance.
OnProcessCreated ==
    /\ phase # "down"
    /\ \E uid \in Uids : proc[uid].alive /\ Only([mgr EXCEPT !.prelaunch = @ \cup {uid}])

BundleInfoChanged ==
    /\ Ready
    /\ \E uid \in Uids, bad \in Faults, action \in {"CHANGED", "DATA_CLEARED"} :
           Only(OnBundleInfoChanged(mgr, bad, uid, action))

OnBundleResourcesChanged ==
    /\ Ready
    /\ \E bad \in Faults, texts \in Texts : Only(OnBundleResourcesChangedInner(mgr, bad, texts))

OnAccountsStateChanged ==
    /\ Ready
    /\ \E uid \in Uids, bad \in Faults : Only(ClearBgOsAccountTask(mgr, bad, {uid}))

OnRemoveSystemAbility ==
    /\ Ready
    /\ \E mode \in {"VOIP", "WORKOUT", "AUDIO_PLAYBACK"}, bad \in Faults :
           Only(HandleRemoveTaskByMode(mgr, bad, mode))

ShellDump ==
    /\ Ready
    /\ \E bad \in Faults : Only(DumpCancelTask(mgr, bad))

EnableContinuousTaskRequest ==
    /\ Ready
    /\ \E uid \in Uids : Only([mgr EXCEPT !.disabled = IF uid \in @ THEN @ \ {uid} ELSE @ \cup {uid}])

AddSubscriber ==
    /\ Ready
    /\ \E uid \in Uids, flags \in FlagSets :
           proc[uid].alive /\ Only(AddSubscriberInner(mgr, uid, flags))

RemoveSubscriber ==
    /\ Ready
    /\ \E uid \in Uids, flags \in FlagSets :
           proc[uid].alive /\ Only(RemoveSubscriberInner(mgr, uid, flags))

\* A system ability subscribes and asks for the tasks that run.
SystemAbilitySubscribes ==
    /\ Ready
    /\ ~mgr.sa
    /\ Only([mgr EXCEPT !.sa = TRUE, !.heard = GetContinuousTaskAppsInner(mgr, Uids, FALSE),
                        !.busy = {k[1] : k \in GetContinuousTaskAppsInner(mgr, Uids, TRUE)}])

-----------------------------------------------------------------------------
NoTasks == [k \in {} |-> {}]

Init ==
    /\ mgr = [tasks |-> NoTasks, tidx |-> 0, nidx |-> NoId, texts |-> "none", cached |-> NoTasks,
              avs |-> {}, live |-> {}, saved |-> NoTasks, sa |-> FALSE, heard |-> {}, busy |-> {},
              shade |-> {}, stuck |-> {}, shared |-> {}, hushed |-> {}, fore |-> {}, front |-> {},
              applied |-> [u \in Uids |-> {}], prelaunch |-> {}, disabled |-> {},
              hap |-> [u \in Uids |-> {}], delay |-> {}, late |-> {}]
    /\ phase = "down"
    /\ proc = [u \in Uids |-> [gen |-> 1, alive |-> TRUE]]
    /\ posted = {}
    /\ before = NoTasks

Restarting == Start \/ InitNecessaryState \/ Crash

Requesting ==
    \/ StartBackgroundRunning \/ StartBackgroundRunningForInner \/ UpdateBackgroundRunning
    \/ UpdateDataTransferProgress \/ StopBackgroundRunning

Subscribing == AddSubscriber \/ RemoveSubscriber \/ SystemAbilitySubscribes

Scheduling == StopContinuousTask \/ SuspendTask \/ ActivateTask

Sounding ==
    \/ SuspendContinuousAudioTask \/ SessionShown \/ SessionGone \/ SessionGoneLate
    \/ NotifyAudioStart

Showing ==
    SendNotificationByDeteTask \/ OnConsumed \/ OnCanceledLiveView

Removing == UserRemoves \/ CancelNotificationByBgTask

Dying == AppStarts \/ AppDies \/ AppStopped

Moving == AppStateChanged \/ OnProcessCreated \/ EnableContinuousTaskRequest

Clearing ==
    \/ OnAbilityStateChanged \/ BundleInfoChanged \/ OnBundleResourcesChanged
    \/ OnAccountsStateChanged \/ OnRemoveSystemAbility \/ ShellDump

Next ==
    \/ Restarting \/ Requesting \/ Subscribing \/ Scheduling \/ Sounding \/ Showing
    \/ Removing \/ Dying \/ Moving \/ Clearing

Spec == Init /\ [][Next]_vars

-----------------------------------------------------------------------------
(* Properties.                                                             *)

\* No task notification outlives its task: each main notification in the shade is
\* that of a task in the map, unless it was once given to several tasks or the
\* notification service refused to withdraw it.
NotificationsOwned ==
    Ready => \A n \in mgr.shade :
        n[1][1] = "main" =>
            \/ n[2] \in mgr.shared \/ n[1] \in mgr.stuck
            \/ \E k \in DOMAIN mgr.tasks : <<mgr.tasks[k].label, mgr.tasks[k].nid>> = n

\* Every operation leaves the file with the tasks of the map and with their
\* suspension, so that a crash after it loses neither.
FileMatchesTasks ==
    Ready => /\ DOMAIN mgr.saved = DOMAIN mgr.tasks
             /\ \A k \in DOMAIN mgr.tasks : mgr.saved[k].suspended = mgr.tasks[k].suspended

\* A system ability that follows the callbacks knows of every task that is not
\* suspended and of none that has ended, and of which applications have tasks.
SubscriberView ==
    Ready /\ mgr.sa =>
        /\ GetContinuousTaskAppsInner(mgr, Uids, FALSE) \subseteq mgr.heard
        /\ mgr.heard \subseteq DOMAIN mgr.tasks
        /\ mgr.busy = {k[1] : k \in DOMAIN mgr.tasks}

\* Tasks are stopped and updated by their ids alone, so no two have the same.
TaskIdsUnique ==
    \A j, k \in DOMAIN mgr.tasks : mgr.tasks[j].id = mgr.tasks[k].id => j = k

\* What the user is to see of a task that runs is in the shade: while it has a
\* notification, this has not been withdrawn, unless the notification is shared or
\* was refused, the audio of the task was once found silent, or the user removed it.
RunningIsShown ==
    Ready => \A k \in DOMAIN mgr.tasks :
        LET r == mgr.tasks[k]
        IN  r.nid # NoId /\ ~r.suspended =>
                \/ <<r.label, r.nid>> \in mgr.shade
                \/ r.nid \in mgr.shared \/ r.label \in mgr.hushed
                \/ {r.label, CreateSubNotificationLabel(r)} \cap mgr.stuck # {}
                \/ <<"removed", r.label>> \in posted

\* The tasks that a restarted service has are those it had whose process lives, as
\* suspended as they were.
TasksSurvive ==
    [][phase # "ready" /\ phase' = "ready" =>
        /\ DOMAIN mgr'.tasks = {k \in DOMAIN before : Lives(before[k].pid)}
        /\ \A k \in DOMAIN mgr'.tasks : mgr'.tasks[k].suspended = before[k].suspended]_vars
=============================================================================
