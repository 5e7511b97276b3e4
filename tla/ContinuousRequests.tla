-------------------------- MODULE ContinuousRequests --------------------------
(***************************************************************************)
(* Starting, updating, activating and stopping continuous tasks: the       *)
(* functions that the runner thread of BgContinuousTaskMgr executes for a  *)
(* request.  The state record s of ContinuousNotices has in addition       *)
(*   tidx       continuousTaskIdIndex_                                     *)
(*   fore       appOnForeground_                                           *)
(*   applied    applyTaskOnForeground_                                     *)
(*   front      the applications that really are in the foreground         *)
(*   prelaunch  the games that are being launched in advance               *)
(*   disabled   the uids that may not request anything                     *)
(*   shared     history: notification numbers given to more than one task  *)
(***************************************************************************)
EXTENDS ContinuousNotices

CONSTANT ABILITY_TASK_MAX_NUM

ASSUME MaxNumAssumption == ABILITY_TASK_MAX_NUM \in Nat \ {0}

-----------------------------------------------------------------------------
(* Activation.                                                             *)

SuspendedOf(s, uid) == {k \in TasksOf(s, uid) : s.tasks[k].suspended}

\* An activated task is not shown again.
MutActivateOneUnshown(a, bad, k) ==
    LET r == [a.s.tasks[k] EXCEPT !.suspended = FALSE, !.standby = FALSE]
    IN  [a EXCEPT !.s = RefreshTaskRecord(OnContinuousTaskChanged(Put(a.s, r), r, "ACTIVE"))]

\* One turn of the loop of HandleActiveContinuousTask: a holds the notification
\* that was sent last and the ids seen.
ActivateOne(a, bad, k) ==
    LET r == [a.s.tasks[k] EXCEPT !.suspended = FALSE, !.standby = FALSE]
        t == OnContinuousTaskChanged(Put(a.s, r), r, "ACTIVE")
        u == HandleActiveNotification(t, bad, r)
        merged == [Put(t, [r EXCEPT !.label = a.label, !.nid = a.nid])
                      EXCEPT !.shared = @ \cup {a.nid}]
    IN  IF r.nid = NoId THEN [a EXCEPT !.s = RefreshTaskRecord(t)]
        ELSE IF a.old = {} \/ r.nid \notin a.old
             THEN [s |-> RefreshTaskRecord(u), old |-> a.old \cup {r.nid},
                   label |-> u.tasks[k].label, nid |-> u.tasks[k].nid]
        ELSE [a EXCEPT !.s = RefreshTaskRecord(merged)]

\* The suspended tasks of uid in the order of the map, which is a hash table's.
HandleActiveContinuousTask(s, bad, order) ==
    InOrder([s |-> s, old |-> {}, label |-> NoLabel, nid |-> NoId], order,
            LAMBDA a, k : ActivateOne(a, bad, k)).s

-----------------------------------------------------------------------------
(* Start.                                                                  *)

CheckAbilityTaskNum(s, r) ==
    Cardinality({k \in DOMAIN s.tasks : s.tasks[k].ability = r.ability /\ s.tasks[k].byReq})
        < ABILITY_TASK_MAX_NUM

\* In the background a request object may only ask for the modes that ran when the
\* application left the foreground, and for playback.
AllowApplyContinuousTask(s, bad, r) ==
    /\ r.uid \notin s.prelaunch
    /\ r.byReq => /\ CheckAbilityTaskNum(s, r)
                  /\ \/ r.inner \/ r.uid \in s.fore
                     \/ r.modes \subseteq s.applied[r.uid] \cup {"AUDIO_PLAYBACK"}
                     \/ r.uid \in s.front /\ "query" \notin bad

\* The tasks of the same application that the request may share the notification of.
DetermineMatchCombinedTaskNotifacation(s, r) ==
    {k \in TasksOf(s, r.uid) :
        LET t == s.tasks[k]
        IN  /\ t.id = r.combinedId /\ t.combined /\ t.nid # NoId
            /\ CheckModesSame(t.modes, r.modes) /\ CheckModesSame(t.subModes, r.subModes)}

\* Whether the request is admitted, and whether it has a notification of its own.
CheckCombinedTaskNotification(s, r) ==
    LET alone == ~r.byReq \/ r.combinedId = NoId
        mergeable == r.modes \cap {"DATA_TRANSFER", "SPECIAL_SCENARIO_PROCESSING"} = {}
    IN  [ok |-> /\ r.byReq /\ r.combined => mergeable
                /\ ~alone => r.combined /\ DetermineMatchCombinedTaskNotifacation(s, r) # {},
         send |-> alone]

\* The record takes the notification of the task it is merged with.
ShareNotification(s, r) ==
    LET k == CHOOSE k \in DetermineMatchCombinedTaskNotifacation(s, r) : TRUE
        t == s.tasks[k]
    IN  [s |-> [Put(s, [t EXCEPT !.combinedId = r.combinedId]) EXCEPT !.shared = @ \cup {t.nid}],
         r |-> [r EXCEPT !.nid = t.nid, !.label = t.label], ok |-> TRUE]

StartBackgroundRunningSubmit(s, bad, r) ==
    LET configured == GetBackgroundModeInfo(s, r.uid)
        checked == IF r.inner THEN \A mode \in r.modes : CheckBgmodeTypeForInner(mode)
                   ELSE \A mode \in r.modes : CheckBgmodeType(configured, mode, r.newApi, r)
        merge == CheckCombinedTaskNotification(s, r)
        m == IF ~merge.send THEN ShareNotification(s, r)
             ELSE IF ~r.inner \/ r.needNotif THEN Send(s, bad, r)
             ELSE [s |-> s, r |-> r, ok |-> TRUE]
    IN  IF ~checked \/ ~merge.ok THEN s
        ELSE IF ~m.ok THEN m.s
        ELSE RefreshTaskRecord(OnContinuousTaskChanged(Sent(m), m.r, "START"))

\* The id is used up even when the task does not start.
StartBackgroundRunningInner(s, bad, q) ==
    LET r == [q EXCEPT !.id = s.tidx + 1]
        t == [s EXCEPT !.tidx = @ + 1]
        u == IF ~r.inner \/ r.needNotif THEN SetCachedBundleInfo(t, bad, r) ELSE t
    IN  IF r.uid \in s.disabled \/ ~AllowApplyContinuousTask(s, bad, r) THEN s
        ELSE IF Key(r) \in DOMAIN s.tasks THEN t
        ELSE StartBackgroundRunningSubmit(u, bad, r)

-----------------------------------------------------------------------------
(* Update.  A failure leaves the record changed, and not saved.            *)

\* GetNotificationText is empty when the text cannot be made.
GetNotificationText(s, bad, r) ==
    LET text == CheckNotificationText(s, bad, r) IN IF text = "error" THEN "empty" ELSE text

UpdateTaskNotification(s, bad, r, q) ==
    LET n == [r EXCEPT !.modes = q.modes, !.subModes = q.subModes]
        text == GetNotificationText(s, bad, n)
        p == IF text = "starting" THEN [n EXCEPT !.playing = FALSE] ELSE n
    IN  IF "label" \in bad THEN [s |-> s, r |-> r, ok |-> FALSE]
        ELSE IF r.combined
             THEN [s |-> s, r |-> r, ok |-> CheckModesSame(r.modes, q.modes) /\ "active" \notin bad]
        ELSE IF text = "empty" THEN [s |-> s, r |-> n, ok |-> TRUE]
        ELSE IF r.nid = NoId THEN SendContinuousTaskNotification(s, bad, p)
        ELSE [s |-> s, r |-> p, ok |-> "active" \notin bad]

\* An updated task is activated, with all of its application.
Updated(s, bad, order, r) ==
    LET t == IF r.suspended THEN HandleActiveContinuousTask(s, bad, order) ELSE s
    IN  RefreshTaskRecord(OnContinuousTaskChanged(t, t.tasks[Key(r)], "UPDATE"))

UpdateTaskInfo(s, bad, order, r, q) ==
    LET m == UpdateTaskNotification(s, bad, r, q)
    IN  IF m.ok THEN Updated(Sent(m), bad, order, m.r) ELSE Sent(m)

\* uid is the caller; the task is found by its id alone.
UpdateBackgroundRunningByTaskIdInner(s, bad, order, uid, k, q) ==
    LET r == s.tasks[k]
        configured == GetBackgroundModeInfo(s, uid)
        refused == \/ uid \in s.disabled
                   \/ \E mode \in q.modes : ~CheckBgmodeType(configured, mode, TRUE, r)
                   \/ "DATA_TRANSFER" \in r.modes \cup q.modes
                   \/ "SPECIAL_SCENARIO_PROCESSING" \in r.modes /\ q.combined
    IN  IF refused THEN s ELSE UpdateTaskInfo(s, bad, order, r, q)

\* Without an id the task is the one of the caller's ability.
UpdateBackgroundRunningInner(s, bad, order, k, q) ==
    LET r == IF "BLUETOOTH_INTERACTION" \in q.modes THEN s.tasks[k]
             ELSE [s.tasks[k] EXCEPT !.subModes = {}]
        configured == GetBackgroundModeInfo(s, r.uid)
        n == [r EXCEPT !.modes = q.modes]
        m == IF "DATA_TRANSFER" \in r.modes \cap q.modes THEN [s |-> s, r |-> n, ok |-> TRUE]
             ELSE SendContinuousTaskNotification(s, bad, n)
    IN  IF r.uid \in s.disabled \/ CheckModesSame(r.modes, q.modes) THEN s
        ELSE IF \E mode \in q.modes : ~CheckBgmodeType(configured, mode, TRUE, r) THEN Put(s, r)
        ELSE IF m.ok THEN Updated(Sent(m), bad, order, m.r) ELSE Sent(m)

UpdateDataTransferProgressInner(s, bad, k) ==
    LET m == SendContinuousTaskNotification(s, bad, s.tasks[k])
    IN  IF "DATA_TRANSFER" \notin s.tasks[k].modes THEN s
        ELSE IF m.ok THEN RefreshTaskRecord(Sent(m)) ELSE Sent(m)

-----------------------------------------------------------------------------
(* Stop.                                                                   *)

\* The notification is withdrawn only when no other task shows it.
StopBackgroundRunningByTask(s, bad, k) ==
    LET r == s.tasks[k]
        c == CancelNotification(Erase(OnContinuousTaskChanged(s, r, "CANCEL"), k), bad, r)
    IN  [c EXCEPT !.s = RefreshTaskRecord(HandleAppContinuousTaskStop(@, r.uid))]

TasksOfAbility(s, uid, ability) == {k \in TasksOf(s, uid) : s.tasks[k].ability = ability}

\* The tasks of an ability in the order of the map; an error ends the loop.
StopNext(c, bad, k) == IF c.ok THEN StopBackgroundRunningByTask(c.s, bad, k) ELSE c

StopBackgroundRunningByContext(s, bad, order) ==
    InOrder([s |-> s, ok |-> TRUE], order, LAMBDA c, k : StopNext(c, bad, k)).s

-----------------------------------------------------------------------------
(* Queries.                                                                *)

GetAllContinuousTasksInner(s, uid, includeSuspended, exemptUid) ==
    {k \in DOMAIN s.tasks : /\ exemptUid \/ s.tasks[k].uid = uid
                            /\ includeSuspended \/ ~s.tasks[k].suspended}

\* For the uids U: all of them when the caller names none.
GetContinuousTaskAppsInner(s, U, includeSuspended) ==
    {k \in DOMAIN s.tasks : /\ s.tasks[k].uid \in U
                            /\ ~s.tasks[k].suspended \/ includeSuspended}
=============================================================================
