------------------------- MODULE EfficiencyResources -------------------------
(***************************************************************************)
(* BgEfficiencyResourcesMgr: applications and processes apply for and      *)
(* reset resources, for a time or for good; resources that run out of      *)
(* time are reset by delayed tasks; records are saved in a file, restored  *)
(* after a restart of the service and compared with the processes that     *)
(* run.  A call is checked on its IPC thread and posted to the runner,     *)
(* which does everything else.  The two maps are one function: a pid is    *)
(* a key of procResourceApplyMap_, a uid one of appResourceApplyMap_.      *)
(***************************************************************************)
EXTENDS ResourceRecords, Sequences, Functions

CONSTANTS
    Uids, Pids,         \* applications and processes
    UidOf,              \* the application of each process
    Permitted,          \* resourcesApply of each application
    Timeouts,           \* bound: the times requests ask for
    Forever,            \* a time later than all others
    EarlyBoot,          \* systemUpMaxDurationMs
    Faults,             \* what may go wrong: see FaultNames
    MaxCalls,           \* bound: calls, package removals and dumps
    MaxTime             \* bound: the clock stops here unless a reset is due later

FaultNames == {"crash", "tear", "reboot", "ability", "connect"}

ASSUME ResourcesAssumption ==
    /\ \A S \in SUBSET Pids : Cardinality(S) \in Nat
    /\ Uids \cap Pids = {}
    /\ "init" \notin Uids \cup Pids
    /\ UidOf \in [Pids -> Uids]
    /\ Permitted \in [Uids -> SUBSET Kinds]
    /\ Timeouts \subseteq Nat \ {0}
    /\ Forever \in Nat
    /\ EarlyBoot \in Nat
    /\ Faults \subseteq FaultNames
    /\ MaxCalls \in Nat
    /\ MaxTime \in Nat

Owners == Uids \cup Pids

VARIABLES
    rec,        \* appResourceApplyMap_ and procResourceApplyMap_
    queue,      \* tasks posted to handler_, in order
    timers,     \* delayed ResetTimeOutResource: owner and due time
    saving,     \* what the runner has to write before its task ends
    disk,       \* the file of resource records
    depends,    \* dependsReady_ = ALL_DEPENDS_READY
    ready,      \* isSysReady_
    starting,   \* OnAddSystemAbility waits for InitNecessaryState
    call,       \* the checked call of each process on its IPC thread
    proc,       \* environment: the processes
    notices,    \* environment: deaths not yet told to AppStateObserver
    clock,      \* TimeProvider::GetCurrentTime()
    calls,      \* how many calls there have been
    view,       \* what a subscriber has been told
    watching,   \* whether it has subscribed
    restored,   \* history: the records have been restored since the start
    last,       \* history: what the runner did last to the records
    since       \* history: kinds applied for since the last reset of the
                \* application, for a process; since the start, for an
                \* application

vars == <<rec, queue, timers, saving, disk, depends, ready, starting, call, proc,
          notices, clock, calls, view, watching, restored, last, since>>

serviceVars == <<depends, ready, starting, restored>>
outside == <<proc, notices, clock>>
histories == <<view, watching, last, since>>

-----------------------------------------------------------------------------
(* Requests, tasks and types.                                              *)

\* inherit: the level is to be read from the record of the application.
Request == [apply : BOOLEAN, process : BOOLEAN, bits : SUBSET Kinds, persist : BOOLEAN,
            timeout : Nat, level : Levels, inherit : BOOLEAN]

NoCall == [apply |-> FALSE, process |-> FALSE, bits |-> {}, persist |-> FALSE,
           timeout |-> 0, level |-> DEFAULT, inherit |-> FALSE]

Task == [apply : BOOLEAN, owner : Owners \cup {"init"}, bits : SUBSET Kinds, persist : BOOLEAN,
         timeout : Nat, level : Levels, inherit : BOOLEAN]

ApplyTask(o, q, level) == [apply |-> q.apply, owner |-> o, bits |-> q.bits,
                           persist |-> q.persist, timeout |-> q.timeout, level |-> level,
                           inherit |-> q.inherit]

ResetTask(o, K) == [apply |-> FALSE, owner |-> o, bits |-> K, persist |-> FALSE,
                    timeout |-> 0, level |-> DEFAULT, inherit |-> FALSE]

\* The task in which OnAddSystemAbility calls InitNecessaryState.
InitTask == ResetTask("init", {})

NoRecords == [o \in Owners |-> NoRecord]

\* The records, tasks and calls have their types.
TypeOK ==
    /\ rec \in [Owners -> Record]
    /\ disk \in [Owners -> Record]
    /\ queue \in Seq(Task)
    /\ timers \subseteq Owners \X Nat
    /\ saving \in {"no", "task", "init"}
    /\ depends \in BOOLEAN /\ ready \in BOOLEAN /\ starting \in BOOLEAN
    /\ restored \in BOOLEAN /\ watching \in BOOLEAN
    /\ call \in [Pids -> Request]
    /\ proc \in [Pids -> {"new", "alive", "dead"}]
    /\ notices \subseteq Owners
    /\ clock \in Nat /\ calls \in Nat
    /\ view \in [Owners -> SUBSET Kinds]
    /\ last \in {"start", "apply", "reset", "timeout"}
    /\ since \in [Owners -> SUBSET Kinds]

Init ==
    /\ rec = NoRecords /\ disk = NoRecords
    /\ queue = <<>> /\ timers = {}
    /\ saving = "no"
    /\ depends = FALSE /\ ready = FALSE /\ starting = FALSE /\ restored = FALSE
    /\ call = [p \in Pids |-> NoCall]
    /\ proc = [p \in Pids |-> "new"]
    /\ notices = {}
    /\ clock = 1 /\ calls = 0
    /\ view = [o \in Owners |-> {}] /\ watching = FALSE
    /\ last = "start" /\ since = [o \in Owners |-> {}]

-----------------------------------------------------------------------------
(* Calls, on their IPC threads.                                            *)

\* ApplyEfficiencyResources up to ApplyResourceForPkgAndProc.  asked is what the
\* application asked for, and what it is not permitted is left out; a level may
\* come only with CPU among the kinds asked for.  The quota of CPU is external:
\* a call that it refuses changes nothing.
ApplyEfficiencyResources(p, asked, q) ==
    /\ proc[p] = "alive" /\ call[p] = NoCall
    /\ calls < MaxCalls
    /\ ready
    /\ q.apply /\ ~q.persist => q.timeout # 0
    /\ CPU \notin asked => q.level = DEFAULT
    /\ q.bits = asked \cap Permitted[UidOf[p]]
    /\ q.bits # {}
    /\ call' = [call EXCEPT ![p] = q]
    /\ calls' = calls + 1
    /\ UNCHANGED <<rec, queue, timers, saving, disk, serviceVars, outside, histories>>

\* ResetAllEfficiencyResources up to its task.
ResetAllEfficiencyResources(p) ==
    /\ proc[p] = "alive" /\ call[p] = NoCall
    /\ calls < MaxCalls
    /\ ready
    /\ Permitted[UidOf[p]] # {}
    /\ call' = [call EXCEPT ![p] = [NoCall EXCEPT !.bits = Permitted[UidOf[p]]]]
    /\ calls' = calls + 1
    /\ UNCHANGED <<rec, queue, timers, saving, disk, serviceVars, outside, histories>>

\* appResourceInfo: what the application applies for in a call of a process.
AppPart(q) == [q EXCEPT !.bits = @ \ {CPU}, !.process = FALSE, !.inherit = TRUE]

\* ApplyResourceForPkgAndProc, a call of a process: CPU is the process's, the
\* other kinds are the application's.
SendProcessPart(p) ==
    /\ call[p].bits # {} /\ call[p].process
    /\ queue' = IF CPU \in call[p].bits
                THEN Append(queue, ApplyTask(p, [call[p] EXCEPT !.bits = {CPU}], call[p].level))
                ELSE queue
    /\ call' = [call EXCEPT ![p] =
                    IF call[p].bits \subseteq {CPU} THEN NoCall
                    ELSE AppPart(call[p])]
    /\ UNCHANGED <<rec, timers, saving, disk, serviceVars, outside, calls, histories>>

\* GetPreAppCpuLevel reads the records while the runner may change them.
GetPreAppCpuLevel(u) == IF rec[u].present THEN rec[u].level ELSE DEFAULT

\* ApplyResourceForPkgAndProc and ResetAllEfficiencyResources, the
\* application's part.
SendAppPart(p) ==
    /\ call[p].bits # {} /\ ~call[p].process
    /\ LET u == UidOf[p]
       IN  queue' = Append(queue, ApplyTask(u, call[p],
                        IF call[p].inherit THEN GetPreAppCpuLevel(u) ELSE call[p].level))
    /\ call' = [call EXCEPT ![p] = NoCall]
    /\ UNCHANGED <<rec, timers, saving, disk, serviceVars, outside, calls, histories>>

-----------------------------------------------------------------------------
(* Processes that start and die, and packages that are removed.            *)

ProcessesOf(u) == {p \in Pids : UidOf[p] = u}

Running(u) == \E p \in ProcessesOf(u) : proc[p] = "alive"

StartProcess(p) ==
    /\ proc[p] = "new"
    /\ proc' = [proc EXCEPT ![p] = "alive"]
    /\ UNCHANGED <<rec, queue, timers, saving, disk, serviceVars, call, notices, clock,
                   calls, histories>>

ProcessDies(p) ==
    /\ proc[p] = "alive"
    /\ proc' = [proc EXCEPT ![p] = "dead"]
    /\ notices' = notices \cup {p} \cup {u \in {UidOf[p]} : ~Running(u)'}
    /\ UNCHANGED <<rec, queue, timers, saving, disk, serviceVars, call, clock, calls,
                   histories>>

\* RemoveAppRecord and RemoveProcessRecord
RemoveRecord(o, K) == queue' = IF ready THEN Append(queue, ResetTask(o, K)) ELSE queue

\* OnProcessDied and OnAppStopped, which come in either order.
RemoveDeadRecord(o) ==
    /\ o \in notices
    /\ notices' = notices \ {o}
    /\ RemoveRecord(o, Kinds \ Kept)
    /\ UNCHANGED <<rec, timers, saving, disk, serviceVars, call, proc, clock, calls,
                   histories>>

\* COMMON_EVENT_PACKAGE_REMOVED: RemoveAppRecord with resetAll.
PackageRemoved(u) ==
    /\ ~Running(u)
    /\ calls < MaxCalls
    /\ calls' = calls + 1
    /\ RemoveRecord(u, Kinds)
    /\ UNCHANGED <<rec, timers, saving, disk, serviceVars, outside, call, histories>>

-----------------------------------------------------------------------------
(* The runner.                                                             *)

\* subscriberMgr_->OnResourceChanged
NotifyApply(o, K) ==
    view' = IF watching THEN [view EXCEPT ![o] = @ \cup K] ELSE view

NotifyReset(o, K) ==
    view' = IF watching THEN [view EXCEPT ![o] = @ \ K] ELSE view

\* ApplyEfficiencyResourcesInner that does not call UpdateResourcesEndtime's
\* PostTask for a record that exists already.
MutApplyNoTimer(t) ==
    /\ saving = "no" /\ t = Head(queue) /\ t.apply
    /\ queue' = Tail(queue)
    /\ rec' = [rec EXCEPT ![t.owner] =
                   Applied(@, t.bits, t.persist, clock + t.timeout, t.level)]
    /\ timers' = IF t.persist \/ rec[t.owner].present THEN timers
                 ELSE timers \cup {<<t.owner, clock + t.timeout>>}
    /\ NotifyApply(t.owner, NewKinds(rec[t.owner], t.bits))
    /\ saving' = "task"
    /\ last' = "apply" /\ since' = [since EXCEPT ![t.owner] = @ \cup t.bits]
    /\ UNCHANGED <<disk, serviceVars, outside, call, calls, watching>>

ApplyEfficiencyResourcesInner(t) ==
    /\ saving = "no" /\ t = Head(queue) /\ t.apply
    /\ queue' = Tail(queue)
    /\ rec' = [rec EXCEPT ![t.owner] =
                   Applied(@, t.bits, t.persist, clock + t.timeout, t.level)]
    /\ timers' = IF t.persist THEN timers
                 ELSE timers \cup {<<t.owner, clock + t.timeout>>}
    /\ NotifyApply(t.owner, NewKinds(rec[t.owner], t.bits))
    /\ saving' = "task"
    /\ last' = "apply" /\ since' = [since EXCEPT ![t.owner] = @ \cup t.bits]
    /\ UNCHANGED <<disk, serviceVars, outside, call, calls, watching>>

\* RemoveTargetResourceRecord
RemoveTargetResourceRecord(o, K) ==
    /\ rec' = [rec EXCEPT ![o] = Erased(@, @.bits \cap K)]
    /\ NotifyReset(o, rec[o].bits \cap K)
    /\ last' = "reset"

\* RemoveRelativeProcessRecord: the tasks it posts, in any order, as the map of
\* processes is unordered.
RelativeProcesses(u, K) == {p \in ProcessesOf(u) : rec[p].bits \cap K # {}}

RelativeTasks(u, K) ==
    LET S == RelativeProcesses(u, K)
    IN  {[i \in 1 .. Cardinality(S) |-> ResetTask(f[i], K \cap rec[f[i]].bits)]
            : f \in Bijection(1 .. Cardinality(S), S)}

\* ResetEfficiencyResourcesInner of a process
ResetProcessInner(t) ==
    /\ saving = "no" /\ t = Head(queue) /\ ~t.apply /\ t.owner \in Pids
    /\ queue' = Tail(queue)
    /\ RemoveTargetResourceRecord(t.owner, t.bits)
    /\ saving' = "task"
    /\ UNCHANGED <<timers, disk, serviceVars, outside, call, calls, watching, since>>

\* ResetEfficiencyResourcesInner that resets processes only with a record of
\* the application.
MutResetAppOnlyWithRecord(t) ==
    /\ saving = "no" /\ t = Head(queue) /\ ~t.apply /\ t.owner \in Uids
    /\ RemoveTargetResourceRecord(t.owner, t.bits)
    /\ \E follow \in RelativeTasks(t.owner, t.bits) :
           queue' = Tail(queue) \o (IF rec[t.owner].present THEN follow ELSE <<>>)
    /\ saving' = "task"
    /\ since' = [o \in Owners |-> IF o \in ProcessesOf(t.owner) THEN since[o] \ t.bits
                                 ELSE since[o]]
    /\ UNCHANGED <<timers, disk, serviceVars, outside, call, calls, watching>>

\* ResetEfficiencyResourcesInner of an application
ResetAppInner(t) ==
    /\ saving = "no" /\ t = Head(queue) /\ ~t.apply /\ t.owner \in Uids
    /\ RemoveTargetResourceRecord(t.owner, t.bits)
    /\ \E follow \in RelativeTasks(t.owner, t.bits) : queue' = Tail(queue) \o follow
    /\ saving' = "task"
    /\ since' = [o \in Owners |-> IF o \in ProcessesOf(t.owner) THEN since[o] \ t.bits
                                 ELSE since[o]]
    /\ UNCHANGED <<timers, disk, serviceVars, outside, call, calls, watching>>

RunTask ==
    /\ queue # <<>>
    /\ \/ ApplyEfficiencyResourcesInner(Head(queue))
       \/ ResetProcessInner(Head(queue))
       \/ ResetAppInner(Head(queue))

\* ResetTimeOutResource that tells nobody when the record goes.
MutTimeOutSilent(o, due) ==
    /\ saving = "no"
    /\ <<o, due>> \in timers /\ due <= clock
    /\ timers' = timers \ {<<o, due>>}
    /\ rec' = [rec EXCEPT ![o] = Erased(@, TimedOut(@, clock))]
    /\ IF rec'[o].present THEN NotifyReset(o, TimedOut(rec[o], clock)) ELSE UNCHANGED view
    /\ last' = "timeout"
    /\ UNCHANGED <<queue, saving, disk, serviceVars, outside, call, calls, watching, since>>

\* ResetTimeOutResource; the file is not written.
ResetTimeOutResource(o, due) ==
    /\ saving = "no"
    /\ <<o, due>> \in timers /\ due <= clock
    /\ timers' = timers \ {<<o, due>>}
    /\ rec' = [rec EXCEPT ![o] = Erased(@, TimedOut(@, clock))]
    /\ NotifyReset(o, TimedOut(rec[o], clock))
    /\ last' = "timeout"
    /\ UNCHANGED <<queue, saving, disk, serviceVars, outside, call, calls, watching, since>>

\* RefreshResourceRecord at the end of a task, and of InitNecessaryState, which
\* then sets isSysReady_.  The file holds every field that a record has here.
RefreshResourceRecord ==
    /\ saving # "no"
    /\ saving' = "no"
    /\ disk' = rec
    /\ ready' = (ready \/ saving = "init")
    /\ starting' = (starting /\ saving # "init")
    /\ UNCHANGED <<rec, queue, timers, depends, restored, outside, call, calls, histories>>

\* DumpResetAllResource; the file is not written.
DumpResetAllResource ==
    /\ saving = "no" /\ ready
    /\ calls < MaxCalls
    /\ calls' = calls + 1
    /\ rec' = NoRecords
    /\ view' = IF watching THEN [o \in Owners |-> view[o] \ rec[o].bits] ELSE view
    /\ last' = "reset"
    /\ UNCHANGED <<queue, timers, saving, disk, serviceVars, outside, call, watching, since>>

\* DumpResetResource of one record; the file is not written.
DumpResetResource(o, K) ==
    /\ saving = "no" /\ ready
    /\ calls < MaxCalls
    /\ calls' = calls + 1
    /\ rec[o].present
    /\ RemoveTargetResourceRecord(o, K)
    /\ UNCHANGED <<queue, timers, saving, disk, serviceVars, outside, call, watching, since>>

\* A subscriber adds itself and asks for the records (AddSubscriber,
\* GetEfficiencyResourcesInfos): what it is told in between is in the answer.
Subscribe ==
    /\ saving = "no" /\ restored
    /\ ~watching
    /\ watching' = TRUE
    /\ view' = [o \in Owners |-> rec[o].bits]
    /\ UNCHANGED <<rec, queue, timers, saving, disk, serviceVars, outside, call, calls,
                   last, since>>

-----------------------------------------------------------------------------
(* System abilities, restart and time.                                     *)

\* OnAddSystemAbility, when the last of the three comes: PostSyncTask, for which
\* it waits with sysAbilityLock_ held.
OnAddSystemAbility ==
    /\ ~depends
    /\ depends' = TRUE /\ starting' = TRUE
    /\ queue' = Append(queue, InitTask)
    /\ UNCHANGED <<rec, timers, saving, disk, ready, restored, outside, call, calls,
                   histories>>

OnRemoveSystemAbility ==
    /\ "ability" \in Faults
    /\ depends /\ ~starting
    /\ depends' = FALSE /\ ready' = FALSE
    /\ UNCHANGED <<rec, queue, timers, saving, disk, starting, restored, outside, call,
                   calls, histories>>

\* RestoreResourceRecord emplaces: records in memory stay.
RestoreResourceRecord == [o \in Owners |-> IF rec[o].present THEN rec[o] ELSE disk[o]]

CheckPersistenceData(R) ==
    [o \in Owners |-> IF o \in Uids THEN RunningApp(R[o], Running(o))
                      ELSE RunningProcess(R[o], proc[o] = "alive")]

RecoveredRecords ==
    LET R == CheckPersistenceData(RestoreResourceRecord)
    IN  [o \in Owners |-> IF o \in Uids /\ R[o].present /\ clock <= EarlyBoot
                          THEN RecoverResourceNumber(R[o]) ELSE R[o]]

RecoverDelayedTask(R) ==
    UNION {{o} \X UNION {RecoveredDue(R[o].units[k], clock) : k \in {j \in Kinds : Timed(R[o], j)}}
               : o \in Owners}

\* InitNecessaryState: HandlePersistenceData, of which connecting to the
\* application manager may fail; then the records as they are get written.
InitNecessaryState ==
    /\ saving = "no" /\ queue # <<>> /\ Head(queue) = InitTask
    /\ queue' = Tail(queue)
    /\ restored' = TRUE
    /\ \/ /\ rec' = RecoveredRecords
          /\ timers' = timers \cup RecoverDelayedTask(RecoveredRecords)
       \/ /\ "connect" \in Faults /\ ~restored
          /\ UNCHANGED <<rec, timers>>
    /\ saving' = "init"
    /\ last' = "start"
    /\ since' = [o \in Owners |-> IF o \in Pids THEN since[o]
                                 ELSE IF clock <= EarlyBoot THEN {} ELSE rec'[o].bits]
    /\ UNCHANGED <<disk, depends, ready, starting, outside, call, calls, view, watching>>

\* What is left of the service when its process ends.  A file that is being
\* written is empty or cut short, and then cannot be parsed.
ServiceEnds ==
    /\ rec' = NoRecords
    /\ queue' = <<>> /\ timers' = {} /\ saving' = "no"
    /\ disk' \in {disk} \cup {d \in {NoRecords} : "tear" \in Faults /\ saving # "no"}
    /\ depends' = FALSE /\ ready' = FALSE /\ starting' = FALSE /\ restored' = FALSE
    /\ call' = [p \in Pids |-> NoCall]
    /\ notices' = {}
    /\ view' = [o \in Owners |-> {}] /\ watching' = FALSE
    /\ last' = "start"
    /\ UNCHANGED <<calls, since>>

ServiceCrash ==
    /\ "crash" \in Faults /\ depends
    /\ ServiceEnds
    /\ UNCHANGED <<proc, clock>>

Reboot ==
    /\ "reboot" \in Faults /\ depends
    /\ ServiceEnds
    /\ proc' = [p \in Pids |-> IF proc[p] = "alive" THEN "dead" ELSE proc[p]]
    /\ clock' = 1

Tick ==
    /\ clock < MaxTime \/ \E t \in timers : clock < t[2]
    /\ clock' = clock + 1
    /\ UNCHANGED <<rec, queue, timers, saving, disk, serviceVars, call, proc, notices, calls,
                   histories>>

-----------------------------------------------------------------------------
(* The specification.                                                      *)

\* What the manager does with its records.
Runner ==
    \/ RunTask
    \/ \E t \in timers : ResetTimeOutResource(t[1], t[2])
    \/ RefreshResourceRecord
    \/ InitNecessaryState

Calls(p) ==
    \/ \E asked \in SUBSET Kinds, apply, process, persist \in BOOLEAN,
          timeout \in Timeouts \cup {0}, level \in Levels :
           /\ persist => timeout = 0
           /\ ~apply => ~persist /\ timeout = 0
           /\ ApplyEfficiencyResources(p, asked,
                  [apply |-> apply, process |-> process,
                   bits |-> asked \cap Permitted[UidOf[p]], persist |-> persist,
                   timeout |-> timeout, level |-> level, inherit |-> FALSE])
    \/ ResetAllEfficiencyResources(p)

Posts(p) == SendProcessPart(p) \/ SendAppPart(p)

Processes ==
    \/ \E p \in Pids : StartProcess(p) \/ ProcessDies(p)
    \/ \E o \in Owners : RemoveDeadRecord(o)

Service == OnAddSystemAbility \/ OnRemoveSystemAbility \/ ServiceCrash \/ Reboot

Next ==
    \/ Runner
    \/ \E p \in Pids : Calls(p) \/ Posts(p)
    \/ Processes
    \/ \E u \in Uids : PackageRemoved(u)
    \/ DumpResetAllResource
    \/ \E o \in Owners, K \in SUBSET Kinds : DumpResetResource(o, K)
    \/ Subscribe
    \/ Service
    \/ Tick

Spec == Init /\ [][Next]_vars

-----------------------------------------------------------------------------
(* What the manager guarantees.                                            *)

\* The bits of a record are those of its units, in memory and in the file, and
\* a record without bits is not kept: a bit without a unit would never run out
\* of time, and a unit without a bit would set its bit when its time is over
\* (ResetTimeOutResource flips bits).
BitsMatchUnits ==
    \A o \in Owners : \A r \in {rec[o], disk[o]} :
        r.bits = Listed(r) /\ r.present = (r.bits # {})

\* A unit that ends at a time has a reset posted that is not due before that
\* time, whatever requests, resets, timeouts and restarts come in between.
TimedWillBeReset ==
    \A o \in Owners, k \in Kinds :
        Timed(rec[o], k) => \E t \in timers : t[1] = o /\ t[2] >= rec[o].units[k].end

\* A subscriber that has asked for the records knows which resources are in
\* force from the changes it is told (OnResourceChanged).
SubscriberSeesAll == watching => \A o \in Owners : view[o] = rec[o].bits

\* A reset by an application reaches its processes: what a process holds was
\* applied for after the last reset of the application, or is about to be reset.
AppResetReaches ==
    \A p \in Pids : rec[p].bits \subseteq
        since[p] \cup UNION {queue[i].bits : i \in {j \in DOMAIN queue :
                                 queue[j].owner = p /\ ~queue[j].apply}}

\* The first start after the end of the service brings back what was saved of
\* the kinds that outlive their application.
StartRestoresKept ==
    [][~restored /\ restored' =>
          \A u \in Uids : disk[u].bits \cap Kept \subseteq rec'[u].bits]_vars

\* The mapping to ResourceGrants: until when each kind is in force, in memory
\* and in the file.  Before the records are restored, those of the file count.
Until(R) == [o \in Owners |-> [k \in Kinds |->
                IF k \notin R[o].bits THEN 0
                ELSE IF R[o].units[k].persist THEN Forever ELSE R[o].units[k].end]]

Grants == INSTANCE ResourceGrants WITH
              Times <- 1 .. Forever,
              until <- Until(IF restored THEN rec ELSE disk),
              saved <- Until(disk),
              now   <- clock

\* The manager keeps the promises of ResourceGrants: a kind stays in force until
\* the latest time asked for, or for ever, unless someone resets it.
KeepsPromises == Grants!Spec
=============================================================================
