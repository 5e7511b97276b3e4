----------------------- MODULE EfficiencyResourcesProofs -----------------------
(***************************************************************************)
(* Invariants of EfficiencyResources for every set of applications,        *)
(* processes and kinds, and every value of the time constants.             *)
(***************************************************************************)
EXTENDS EfficiencyResources, TLAPS

-----------------------------------------------------------------------------
(* Sums, sequences and functions.                                          *)

\* A sum of naturals is one.
LEMMA SumIsNat ==
    ASSUME NEW m \in Nat, NEW n \in Nat
    PROVE  m + n \in Nat
OBVIOUS

\* The domain of a queue.
LEMMA SeqDomain ==
    ASSUME NEW T, NEW s \in Seq(T)
    PROVE  DOMAIN s = 1 .. Len(s)
OBVIOUS

\* What is appended to a queue comes after what it holds.
LEMMA AppendKeeps ==
    ASSUME NEW T, NEW s \in Seq(T), NEW e, NEW i \in 1 .. Len(s)
    PROVE  i \in 1 .. Len(Append(s, e)) /\ Append(s, e)[i] = s[i]
<1>1. s \in Seq(T \cup {e}) /\ e \in T \cup {e}
    OBVIOUS
<1>2. Len(Append(s, e)) = Len(s) + 1 /\ Len(s) \in Nat /\ Append(s, e)[i] = s[i]
    BY <1>1
<1>. QED  BY <1>2

\* Nothing follows the rest of a queue.
LEMMA TailNil ==
    ASSUME NEW T, NEW s \in Seq(T), s # <<>>
    PROVE  <<>> \in Seq(T) /\ Tail(s) = Tail(s) \o <<>>
OBVIOUS

\* A function that differs from another in one place.
LEMMA ExceptPointwise ==
    ASSUME NEW S, NEW f, f = [o \in S |-> f[o]], NEW g, g = [o \in S |-> g[o]], NEW x, NEW v,
           x \in S => g[x] = v, \A o \in S : o # x => g[o] = f[o]
    PROVE  g = [f EXCEPT ![x] = v]
BY Zenon

-----------------------------------------------------------------------------
(* The operators of ResourceRecords: the type of a record, the agreement   *)
(* of its bits with its units, and how far its ends are away.              *)

\* The bits of a record are those of its units, and it is there only with bits.
Sound(r) == r.bits = Listed(r) /\ r.present = (r.bits # {})

\* Every end in the record comes before b.
EndsBefore(r, b) == \A k \in Kinds : r.units[k].end < b

-----------------------------------------------------------------------------

\* A record that is not there has its type, is sound and holds no unit
\* (erase of the map entry).
LEMMA NoRecordFacts ==
    /\ NoRecord \in Record
    /\ Sound(NoRecord)
    /\ \A k \in Kinds : ~Timed(NoRecord, k)
    /\ \A b \in Nat \ {0} : EndsBefore(NoRecord, b)
<1>1. NoRecord \in Record
    BY RecordsAssumption, Zenon DEF NoRecord, Record, NoUnit, Unit
<1>2. \A k \in Kinds : NoRecord.units[k] = NoUnit
    BY Zenon DEF NoRecord
<1>3. \A k \in Kinds : ~NoRecord.units[k].on
    BY <1>2 DEF NoUnit
<1>4. NoRecord.bits = {} /\ NoRecord.present = FALSE
    BY Zenon DEF NoRecord
<1>5. Listed(NoRecord) = {}
    BY <1>3, Zenon DEF Listed
<1>6. Sound(NoRecord)
    BY <1>4, <1>5, Zenon DEF Sound
<1>7. \A b \in Nat \ {0} : EndsBefore(NoRecord, b)
    BY <1>2 DEF EndsBefore, NoUnit
<1>. QED  BY <1>1, <1>3, <1>6, <1>7 DEF Timed

\* Extending a unit (UpdateResourcesEndtime) leaves a unit that is on.
LEMMA ExtendUnitFacts ==
    ASSUME NEW u \in Unit, NEW persist \in BOOLEAN, NEW end \in Nat
    PROVE  /\ ExtendUnit(u, persist, end) \in Unit
           /\ ExtendUnit(u, persist, end).on
           /\ ExtendUnit(u, persist, end).end \in {0, u.end, end}
BY Zenon DEF ExtendUnit, Unit, Later

\* Applying for resources (ApplyEfficiencyResourcesInner) keeps the type.
LEMMA AppliedType ==
    ASSUME NEW r \in Record, NEW K \in SUBSET Kinds, NEW persist \in BOOLEAN,
           NEW end \in Nat, NEW level \in Levels
    PROVE  Applied(r, K, persist, end, level) \in Record
<1>1. UpdateResourcesEndtime(r.units, K, persist, end) \in [Kinds -> Unit]
    BY ExtendUnitFacts, Zenon DEF UpdateResourcesEndtime, Record
<1>. QED  BY <1>1 DEF Applied, Record, NewKinds

\* Applying for at least one resource leaves a sound record sound.
LEMMA AppliedSound ==
    ASSUME NEW r \in Record, NEW K \in SUBSET Kinds, NEW persist \in BOOLEAN,
           NEW end \in Nat, NEW level \in Levels, Sound(r), K # {}
    PROVE  Sound(Applied(r, K, persist, end, level))
<1> DEFINE a == Applied(r, K, persist, end, level)
<1>1. /\ a.bits = r.bits \cup K /\ a.present
      /\ a.units = UpdateResourcesEndtime(r.units, K, persist, end)
    BY Zenon DEF Applied
<1>2. \A k \in Kinds : a.units[k].on <=> (k \in K \/ r.units[k].on)
    BY <1>1, ExtendUnitFacts DEF UpdateResourcesEndtime, Record
<1>3. Listed(a) = Listed(r) \cup K
    BY <1>2, Zenon DEF Listed
<1>. QED  BY <1>1, <1>3, Zenon DEF Sound, Record

\* A reset of K (RemoveListRecord, erase) keeps the type.
LEMMA ErasedType ==
    ASSUME NEW r \in Record, NEW K \in SUBSET Kinds
    PROVE  Erased(r, K) \in Record
BY NoRecordFacts, Zenon DEF Erased, Record, RemoveListRecord, Xor, Unit, NoUnit

\* A reset of bits that are set leaves a sound record sound, without these bits.
LEMMA ErasedSound ==
    ASSUME NEW r \in Record, NEW K \in SUBSET r.bits, Sound(r)
    PROVE  Sound(Erased(r, K)) /\ Erased(r, K).bits = r.bits \ K
<1>0. Xor(r.bits, K) = r.bits \ K
    BY Zenon DEF Xor
<1>1. CASE K = {}
    BY <1>1, Zenon DEF Erased
<1>2. CASE K # {} /\ Xor(r.bits, K) = {}
    <2>1. Erased(r, K) = NoRecord
        BY <1>2, Zenon DEF Erased
    <2>. QED  BY <2>1, <1>0, <1>2, NoRecordFacts DEF NoRecord
<1>3. CASE K # {} /\ Xor(r.bits, K) # {}
    <2> DEFINE e == Erased(r, K)
    <2>1. /\ e = [r EXCEPT !.bits = Xor(@, K), !.units = RemoveListRecord(@, K)]
        BY <1>3, Zenon DEF Erased
    <2>2. /\ e.bits = r.bits \ K /\ e.present = r.present
          /\ e.units = RemoveListRecord(r.units, K)
        BY <2>1, <1>0, Zenon DEF Record
    <2>3. \A k \in Kinds : e.units[k].on <=> (r.units[k].on /\ k \notin K)
        BY <2>2 DEF RemoveListRecord, NoUnit
    <2>4. Listed(e) = Listed(r) \ K
        BY <2>3, Zenon DEF Listed
    <2>. QED  BY <2>2, <2>4, <1>0, <1>3 DEF Sound
<1>. QED  BY <1>1, <1>2, <1>3

\* What has run out of time in a sound record (ResetTimeOutResource) has its bit
\* set.
LEMMA TimedOutWithin ==
    ASSUME NEW r \in Record, NEW now, Sound(r)
    PROVE  TimedOut(r, now) \in SUBSET r.bits
BY Zenon DEF TimedOut, Timed, Sound, Listed

\* After a reset the units that are left are those that were there.
LEMMA ErasedUnits ==
    ASSUME NEW r \in Record, NEW K \in SUBSET Kinds, NEW k \in Kinds,
           Timed(Erased(r, K), k)
    PROVE  /\ Timed(r, k) /\ k \notin K
           /\ Erased(r, K).units[k].end = r.units[k].end
BY Zenon DEF Erased, Record, RemoveListRecord, Timed, NoRecord, NoUnit

\* A reset moves no end away.
LEMMA ErasedEnds ==
    ASSUME NEW r \in Record, NEW K \in SUBSET Kinds, NEW b \in Nat \ {0}, EndsBefore(r, b)
    PROVE  EndsBefore(Erased(r, K), b)
BY NoRecordFacts DEF Erased, Record, RemoveListRecord, EndsBefore, NoUnit

\* An application moves ends at most to its own.
LEMMA AppliedEnds ==
    ASSUME NEW r \in Record, NEW K \in SUBSET Kinds, NEW persist \in BOOLEAN,
           NEW end \in Nat, NEW level, NEW b \in Nat \ {0}, EndsBefore(r, b), end < b
    PROVE  EndsBefore(Applied(r, K, persist, end, level), b)
<1>1. \A k \in Kinds : UpdateResourcesEndtime(r.units, K, persist, end)[k].end
                           \in {0, r.units[k].end, end}
    BY ExtendUnitFacts, Zenon DEF UpdateResourcesEndtime, Record
<1>. QED  BY <1>1 DEF Applied, EndsBefore

\* The reset of a restored unit is due at a time.
LEMMA RecoveredDueType ==
    ASSUME NEW u \in Unit, NEW now \in Nat
    PROVE  RecoveredDue(u, now) \subseteq Nat
<1>1. u.end - now \in Int /\ Int32Half \in Nat \ {0}
    BY RecordsAssumption DEF Unit
<1>2. ToInt32(u.end - now) \in Int
    BY <1>1 DEF ToInt32
<1>. QED  BY <1>2 DEF RecoveredDue, Later

\* What a start keeps of a record (CheckPersistenceData, RecoverResourceNumber)
\* has its type.
LEMMA RecoveredType ==
    ASSUME NEW r \in Record, NEW running
    PROVE  /\ RunningApp(r, running) \in Record
           /\ RunningProcess(r, running) \in Record
           /\ RecoverResourceNumber(r) \in Record
BY NoRecordFacts, Zenon DEF RunningApp, RunningProcess, RecoverResourceNumber, Record

\* The reset of a restored unit (RecoverDelayedTask) is due at its end or later,
\* as long as the end is less than 2^31 away.
LEMMA RecoveredNotEarly ==
    ASSUME NEW u \in Unit, NEW now \in Nat, u.end < now + Int32Half
    PROVE  \A due \in RecoveredDue(u, now) : due \in Nat /\ due >= u.end
<1> DEFINE d == u.end - now
<1>1. d \in Int /\ d < Int32Half /\ Int32Half \in Nat \ {0} /\ u.end \in Nat
    BY RecordsAssumption DEF Unit
<1>2. ToInt32(d) \in Int
    BY <1>1 DEF ToInt32
<1>3. CASE d < 0
    BY <1>1, <1>2, <1>3 DEF RecoveredDue, Later
<1>4. CASE d >= 0
    <2>1. d + Int32Half \in 0 .. (2 * Int32Half - 1)
        BY <1>1, <1>4
    <2>2. (d + Int32Half) % (2 * Int32Half) = d + Int32Half
        BY <2>1, <1>1
    <2>3. ToInt32(d) = d
        BY <2>2, <1>1 DEF ToInt32
    <2>. QED  BY <2>3, <1>1, <1>4 DEF RecoveredDue, Later
<1>. QED  BY <1>1, <1>3, <1>4

-----------------------------------------------------------------------------
(* The type invariant, with what is known of posted tasks.                 *)

Timely == Timeouts \cup {0}

\* A task that applies has an owner, applies for something and for some time.
GoodTask == {t \in Task : /\ t.timeout \in Timely
                          /\ t.apply => t.owner \in Owners /\ t.bits # {}
                          /\ t.apply => t.persist \/ t.timeout # 0}

GoodCall == {q \in Request : q.timeout \in Timely /\ (q.apply => q.persist \/ q.timeout # 0)}

RecordsTyped == rec \in [Owners -> Record] /\ disk \in [Owners -> Record]

RestTyped ==
    /\ timers \subseteq Owners \X Nat
    /\ saving \in {"no", "task", "init"}
    /\ depends \in BOOLEAN /\ ready \in BOOLEAN /\ starting \in BOOLEAN
    /\ restored \in BOOLEAN /\ watching \in BOOLEAN
    /\ proc \in [Pids -> {"new", "alive", "dead"}]
    /\ notices \subseteq Owners
    /\ clock \in Nat \ {0} /\ calls \in Nat
    /\ view \in [Owners -> SUBSET Kinds]
    /\ last \in {"start", "apply", "reset", "timeout"}
    /\ since \in [Owners -> SUBSET Kinds]

TInv ==
    /\ RecordsTyped
    /\ queue \in Seq(GoodTask)
    /\ call \in [Pids -> GoodCall]
    /\ RestTyped

-----------------------------------------------------------------------------
(* Tasks.                                                                  *)

\* A task of a sequence of good tasks is a task.
LEMMA GoodIsTask ==
    ASSUME NEW s \in Seq(GoodTask)
    PROVE  s \in Seq(Task)
<1>1. s \in [1 .. Len(s) -> GoodTask] /\ Len(s) \in Nat
    OBVIOUS
<1>2. s \in [1 .. Len(s) -> Task]
    BY <1>1, Zenon DEF GoodTask
<1>. QED  BY <1>1, <1>2

\* SendResourceApplyTask posts a good task.
LEMMA ApplyTaskGood ==
    ASSUME NEW o \in Owners, NEW q \in GoodCall, NEW level \in Levels, q.bits # {}
    PROVE  ApplyTask(o, q, level) \in GoodTask
BY Zenon DEF ApplyTask, GoodTask, GoodCall, Task, Request

\* So do the resets, and OnAddSystemAbility.
LEMMA ResetTaskGood ==
    ASSUME NEW o \in Owners \cup {"init"}, NEW K \in SUBSET Kinds
    PROVE  ResetTask(o, K) \in GoodTask
BY RecordsAssumption, Zenon DEF ResetTask, GoodTask, Task, Timely

\* RemoveRelativeProcessRecord posts good tasks.
LEMMA RelativeTasksGood ==
    ASSUME NEW u \in Uids, NEW K \in SUBSET Kinds, RecordsTyped,
           NEW follow \in RelativeTasks(u, K)
    PROVE  follow \in Seq(GoodTask) /\ \A i \in 1 .. Len(follow) : follow[i].owner \in Owners
<1> DEFINE S == RelativeProcesses(u, K)
<1>1. S \subseteq Pids
    BY Zenon DEF RelativeProcesses, ProcessesOf
<1>2. Cardinality(S) \in Nat
    <2>1. \A T \in SUBSET Pids : Cardinality(T) \in Nat
        BY ResourcesAssumption, Zenon
    <2>. QED  BY <1>1, <2>1, Zenon
<1>3. PICK f \in Bijection(1 .. Cardinality(S), S) :
          follow = [i \in 1 .. Cardinality(S) |-> ResetTask(f[i], K \cap rec[f[i]].bits)]
    BY Zenon DEF RelativeTasks
<1>4. f \in [1 .. Cardinality(S) -> S]
    BY <1>3, Zenon DEF Bijection, Injection
<1>5. \A i \in 1 .. Cardinality(S) : ResetTask(f[i], K \cap rec[f[i]].bits) \in GoodTask
    BY <1>1, <1>4, ResetTaskGood, Zenon DEF Owners
<1>6. follow \in [1 .. Cardinality(S) -> GoodTask]
    BY <1>3, <1>4, <1>5, Zenon
<1>7. \A i \in 1 .. Cardinality(S) : follow[i].owner \in Owners
    BY <1>1, <1>3, <1>4, Zenon DEF ResetTask, Owners
<1>8. follow \in Seq(GoodTask) /\ Len(follow) = Cardinality(S)
    BY <1>2, <1>6
<1>. QED  BY <1>7, <1>8

-----------------------------------------------------------------------------
(* TypeOK.                                                                 *)

\* The checks of calls and what they post keep the types.
LEMMA CallTypes ==
    ASSUME TInv, NEW p \in Pids, Calls(p) \/ Posts(p)
    PROVE  TInv'
<1> USE DEF TInv
<1>0. UidOf[p] \in Uids /\ p \in Owners /\ UidOf[p] \in Owners
    BY ResourcesAssumption, Zenon DEF Owners
<1>1. ASSUME NEW asked \in SUBSET Kinds, NEW q \in {r \in Request : r.timeout \in Timely},
             ApplyEfficiencyResources(p, asked, q)
      PROVE  TInv'
    <2>1. q \in GoodCall
        BY <1>1, Zenon DEF ApplyEfficiencyResources, GoodCall
    <2>. QED  BY <1>1, <2>1 DEF ApplyEfficiencyResources, RecordsTyped, RestTyped,
                                serviceVars, outside, histories
<1>2. CASE ResetAllEfficiencyResources(p)
    <2>1. [NoCall EXCEPT !.bits = Permitted[UidOf[p]]] \in GoodCall
        BY Zenon, <1>0, ResourcesAssumption, RecordsAssumption
           DEF NoCall, GoodCall, Request, Timely
    <2>. QED  BY <1>2, <2>1 DEF ResetAllEfficiencyResources, RecordsTyped, RestTyped,
                                serviceVars, outside, histories
<1>3. CASE SendProcessPart(p)
    <2>1. call[p] \in GoodCall
        BY Zenon
    <2>2. /\ [call[p] EXCEPT !.bits = {CPU}] \in GoodCall
          /\ [call[p] EXCEPT !.bits = {CPU}].bits # {}
          /\ call[p].level \in Levels
        BY <2>1, RecordsAssumption, Zenon DEF GoodCall, Request
    <2>3. ApplyTask(p, [call[p] EXCEPT !.bits = {CPU}], call[p].level) \in GoodTask
        BY Zenon, <2>2, <1>0, ApplyTaskGood
    <2>4. queue' \in Seq(GoodTask)
        BY <1>3, <2>3 DEF SendProcessPart
    <2>5. NoCall \in GoodCall
        BY RecordsAssumption, Zenon DEF NoCall, GoodCall, Request, Timely
    <2>6. AppPart(call[p]) \in GoodCall
        BY <2>1, Zenon DEF AppPart, GoodCall, Request
    <2>7. \E c \in GoodCall : call' = [call EXCEPT ![p] = c]
        BY <1>3, <2>5, <2>6, Zenon DEF SendProcessPart
    <2>8. call' \in [Pids -> GoodCall]
        BY <2>7, Zenon
    <2>. QED  BY <1>3, <2>4, <2>8 DEF SendProcessPart, RecordsTyped, RestTyped,
                                serviceVars, outside, histories
<1>4. CASE SendAppPart(p)
    <2>1. call[p] \in GoodCall /\ call[p].bits # {} /\ call[p].level \in Levels
        BY <1>4, Zenon DEF SendAppPart, GoodCall, Request
    <2>2. GetPreAppCpuLevel(UidOf[p]) \in Levels
        BY <1>0, RecordsAssumption, Zenon DEF GetPreAppCpuLevel, RecordsTyped, Record
    <2>3. \A l \in Levels : ApplyTask(UidOf[p], call[p], l) \in GoodTask
        BY <2>1, <1>0, ApplyTaskGood, Zenon
    <2>4. queue' \in Seq(GoodTask)
        BY <1>4, <2>1, <2>2, <2>3 DEF SendAppPart
    <2>5. NoCall \in GoodCall
        BY RecordsAssumption, Zenon DEF NoCall, GoodCall, Request, Timely
    <2>6. call' \in [Pids -> GoodCall]
        BY <1>4, <2>5, Zenon DEF SendAppPart
    <2>. QED  BY <1>4, <2>4, <2>6 DEF SendAppPart, RecordsTyped, RestTyped,
                                serviceVars, outside, histories
<1>5. ASSUME NEW asked \in SUBSET Kinds, NEW apply \in BOOLEAN, NEW process \in BOOLEAN,
             NEW persist \in BOOLEAN, NEW timeout \in Timeouts \cup {0}, NEW level \in Levels
      PROVE  [apply |-> apply, process |-> process,
              bits |-> asked \cap Permitted[UidOf[p]], persist |-> persist,
              timeout |-> timeout, level |-> level, inherit |-> FALSE]
                 \in {r \in Request : r.timeout \in Timely}
    BY ResourcesAssumption DEF Request, Timely
<1>6. CASE Calls(p)
    <2>1. CASE ResetAllEfficiencyResources(p)
        BY <1>2, <2>1, Zenon
    <2>2. CASE ~ResetAllEfficiencyResources(p)
        <3>1. PICK asked \in SUBSET Kinds, apply \in BOOLEAN, process \in BOOLEAN,
                   persist \in BOOLEAN, timeout \in Timeouts \cup {0}, level \in Levels :
                  ApplyEfficiencyResources(p, asked,
                      [apply |-> apply, process |-> process,
                       bits |-> asked \cap Permitted[UidOf[p]], persist |-> persist,
                       timeout |-> timeout, level |-> level, inherit |-> FALSE])
            BY <1>6, <2>2, ZenonT(60) DEF Calls
        <3>. QED  BY <3>1, <1>1, <1>5, Zenon
    <2>. QED  BY <2>1, <2>2
<1>. QED  BY <1>3, <1>4, <1>6 DEF Posts

\* What processes, packages and the clock do keeps the types.
LEMMA OutsideTypes ==
    ASSUME TInv, \/ Processes \/ Tick \/ Subscribe
                 \/ \E u \in Uids : PackageRemoved(u)
    PROVE  TInv'
<1> USE DEF TInv
<1>1. ASSUME NEW p \in Pids, StartProcess(p)
      PROVE  TInv'
    BY <1>1 DEF StartProcess, RecordsTyped, RestTyped, serviceVars, histories
<1>2. ASSUME NEW p \in Pids, ProcessDies(p)
      PROVE  TInv'
    <2>1. notices' \subseteq Owners
        BY <1>2, ResourcesAssumption, Zenon DEF ProcessDies, Owners, RestTyped
    <2>. QED  BY <1>2, <2>1 DEF ProcessDies, RecordsTyped, RestTyped, serviceVars, histories
<1>3. ASSUME NEW o \in Owners, RemoveDeadRecord(o)
      PROVE  TInv'
    <2>1. ResetTask(o, Kinds \ Kept) \in GoodTask
        BY ResetTaskGood, Zenon
    <2>2. queue' \in Seq(GoodTask)
        BY <1>3, <2>1 DEF RemoveDeadRecord, RemoveRecord
    <2>. QED  BY <1>3, <2>2 DEF RemoveDeadRecord, RecordsTyped, RestTyped, serviceVars,
                                histories
<1>4. ASSUME NEW u \in Uids, PackageRemoved(u)
      PROVE  TInv'
    <2>1. ResetTask(u, Kinds) \in GoodTask
        BY ResetTaskGood, Zenon DEF Owners
    <2>2. queue' \in Seq(GoodTask)
        BY <1>4, <2>1 DEF PackageRemoved, RemoveRecord
    <2>. QED  BY <1>4, <2>2 DEF PackageRemoved, RecordsTyped, RestTyped, serviceVars,
                                outside, histories
<1>5. CASE Tick
    BY <1>5 DEF Tick, RecordsTyped, RestTyped, serviceVars, histories
<1>6. CASE Subscribe
    <2>1. view' \in [Owners -> SUBSET Kinds]
        BY <1>6, Zenon DEF Subscribe, RecordsTyped, Record
    <2>. QED  BY <1>6, <2>1 DEF Subscribe, RecordsTyped, RestTyped, serviceVars, outside
<1>. QED  BY <1>1, <1>2, <1>3, <1>4, <1>5, <1>6 DEF Processes

\* The records after a start have their type.
LEMMA RecoveredTyped ==
    ASSUME TInv
    PROVE  /\ RecoveredRecords \in [Owners -> Record]
           /\ RecoverDelayedTask(RecoveredRecords) \subseteq Owners \X Nat
<1>1. RestoreResourceRecord \in [Owners -> Record]
    BY Zenon DEF RestoreResourceRecord, TInv, RecordsTyped
<1>2. CheckPersistenceData(RestoreResourceRecord) \in [Owners -> Record]
    BY <1>1, RecoveredType, Zenon DEF CheckPersistenceData
<1>3. RecoveredRecords \in [Owners -> Record]
    BY <1>2, RecoveredType, Zenon DEF RecoveredRecords
<1>4. \A o \in Owners, k \in Kinds : RecoveredDue(RecoveredRecords[o].units[k], clock) \subseteq Nat
    <2>1. \A o \in Owners, k \in Kinds : RecoveredRecords[o].units[k] \in Unit
        BY <1>3, Zenon DEF Record
    <2>. QED  BY <2>1, RecoveredDueType DEF TInv, RestTyped
<1>. QED  BY <1>3, <1>4 DEF RecoverDelayedTask

\* The first task of the runner, and what is left, are good.
LEMMA HeadIsGood ==
    ASSUME queue \in Seq(GoodTask), queue # <<>>
    PROVE  /\ Head(queue) \in GoodTask
           /\ Head(queue) \in Task
           /\ Tail(queue) \in Seq(GoodTask)
BY DEF GoodTask

\* A reset of bits of a record keeps the types of records and view.
LEMMA RemoveTargetTypes ==
    ASSUME TInv, NEW o \in Owners, NEW K \in SUBSET Kinds, RemoveTargetResourceRecord(o, K)
    PROVE  rec' \in [Owners -> Record] /\ view' \in [Owners -> SUBSET Kinds]
<1>1. rec[o] \in Record /\ rec[o].bits \cap K \in SUBSET Kinds
    BY Zenon DEF TInv, RecordsTyped
<1>2. Erased(rec[o], rec[o].bits \cap K) \in Record
    BY <1>1, ErasedType, Zenon
<1>. QED  BY <1>2 DEF RemoveTargetResourceRecord, NotifyReset, TInv, RecordsTyped, RestTyped

\* The tasks of the runner keep the types.
LEMMA TaskTypes ==
    ASSUME TInv, RunTask
    PROVE  TInv'
<1> DEFINE t == Head(queue)
<1> USE DEF TInv
<1>0. t \in GoodTask /\ t \in Task /\ Tail(queue) \in Seq(GoodTask)
    BY HeadIsGood, Zenon DEF RunTask
<1>1. CASE ApplyEfficiencyResourcesInner(t)
    <2>1. /\ t.owner \in Owners /\ t.bits \in SUBSET Kinds /\ t.persist \in BOOLEAN
          /\ t.level \in Levels /\ t.timeout \in Nat
        BY <1>0, <1>1, Zenon DEF ApplyEfficiencyResourcesInner, GoodTask, Task
    <2>2. clock + t.timeout \in Nat
        BY <2>1 DEF RestTyped
    <2>3. Applied(rec[t.owner], t.bits, t.persist, clock + t.timeout, t.level) \in Record
        BY <2>1, <2>2, AppliedType, Zenon DEF RecordsTyped
    <2>4. rec' \in [Owners -> Record]
        BY <1>1, <2>1, <2>3, Zenon DEF ApplyEfficiencyResourcesInner, RecordsTyped
    <2>5. timers' \subseteq Owners \X Nat
        BY <1>1, <2>1, <2>2, SMTT(30) DEF ApplyEfficiencyResourcesInner, RestTyped
    <2>6. view' \in [Owners -> SUBSET Kinds] /\ since' \in [Owners -> SUBSET Kinds]
        BY <1>1, <2>1, Zenon DEF ApplyEfficiencyResourcesInner, NotifyApply, NewKinds, RestTyped
    <2>. QED  BY <1>0, <1>1, <2>4, <2>5, <2>6 DEF ApplyEfficiencyResourcesInner,
                  RecordsTyped, RestTyped, serviceVars, outside
<1>2. CASE ResetProcessInner(t)
    <2>1. t.owner \in Owners /\ t.bits \in SUBSET Kinds
        BY <1>0, <1>2, Zenon DEF ResetProcessInner, Task, Owners
    <2>2. rec' \in [Owners -> Record] /\ view' \in [Owners -> SUBSET Kinds] /\ last' = "reset"
        BY <1>2, <2>1, RemoveTargetTypes, Zenon DEF ResetProcessInner, RemoveTargetResourceRecord
    <2>. QED  BY <1>0, <1>2, <2>2 DEF ResetProcessInner, RecordsTyped, RestTyped,
                  serviceVars, outside
<1>3. CASE ResetAppInner(t)
    <2>1. t.owner \in Uids /\ t.owner \in Owners /\ t.bits \in SUBSET Kinds
        BY <1>0, <1>3, Zenon DEF ResetAppInner, Task, Owners
    <2>2. rec' \in [Owners -> Record] /\ view' \in [Owners -> SUBSET Kinds] /\ last' = "reset"
        BY <1>3, <2>1, RemoveTargetTypes, Zenon DEF ResetAppInner, RemoveTargetResourceRecord
    <2>3. PICK follow \in RelativeTasks(t.owner, t.bits) : queue' = Tail(queue) \o follow
        BY <1>3, Zenon DEF ResetAppInner
    <2>4. follow \in Seq(GoodTask)
        BY <2>1, <2>3, RelativeTasksGood, Zenon
    <2>5. queue' \in Seq(GoodTask)
        BY <1>0, <2>3, <2>4
    <2>6. since' \in [Owners -> SUBSET Kinds]
        BY <1>3, Zenon DEF ResetAppInner, RestTyped
    <2>. QED  BY <1>3, <2>2, <2>5, <2>6, SMTT(30) DEF ResetAppInner, RecordsTyped, RestTyped,
                  serviceVars, outside
<1>. QED  BY <1>1, <1>2, <1>3 DEF RunTask

\* Timeouts, writing, dumps and the start of the manager keep the types.
LEMMA RunnerTypes ==
    ASSUME TInv,
           \/ \E t \in timers : ResetTimeOutResource(t[1], t[2])
           \/ RefreshResourceRecord \/ InitNecessaryState \/ DumpResetAllResource
           \/ \E o \in Owners, K \in SUBSET Kinds : DumpResetResource(o, K)
    PROVE  TInv'
<1> USE DEF TInv
<1>1. ASSUME NEW t \in timers, ResetTimeOutResource(t[1], t[2])
      PROVE  TInv'
    <2>1. t[1] \in Owners /\ TimedOut(rec[t[1]], clock) \in SUBSET Kinds
        BY Zenon DEF RestTyped, TimedOut
    <2>2. Erased(rec[t[1]], TimedOut(rec[t[1]], clock)) \in Record
        BY <2>1, ErasedType, Zenon DEF RecordsTyped
    <2>3. rec' \in [Owners -> Record] /\ view' \in [Owners -> SUBSET Kinds]
        BY <1>1, <2>1, <2>2, Zenon DEF ResetTimeOutResource, NotifyReset, RecordsTyped, RestTyped
    <2>. QED  BY <1>1, <2>3, SMTT(30) DEF ResetTimeOutResource, RecordsTyped, RestTyped, serviceVars,
                  outside
<1>2. CASE RefreshResourceRecord
    BY <1>2, Zenon DEF RefreshResourceRecord, RecordsTyped, RestTyped, outside, histories
<1>3. CASE InitNecessaryState
    <2>1. Tail(queue) \in Seq(GoodTask)
        BY <1>3, HeadIsGood, Zenon DEF InitNecessaryState
    <2>2. rec' \in [Owners -> Record] /\ timers' \subseteq Owners \X Nat
        BY <1>3, RecoveredTyped, Zenon DEF InitNecessaryState, RecordsTyped, RestTyped
    <2>3. since' \in [Owners -> SUBSET Kinds]
        BY <1>3, <2>2, Zenon DEF InitNecessaryState, RestTyped, Record
    <2>. QED  BY <1>3, <2>1, <2>2, <2>3, SMTT(30) DEF InitNecessaryState, RecordsTyped, RestTyped,
                  outside
<1>4. CASE DumpResetAllResource
    <2>1. rec' \in [Owners -> Record]
        BY <1>4, NoRecordFacts, ZenonT(30) DEF DumpResetAllResource, NoRecords
    <2>2. view' \in [Owners -> SUBSET Kinds]
        BY <1>4, Zenon DEF DumpResetAllResource, RestTyped
    <2>. QED  BY <1>4, <2>1, <2>2 DEF DumpResetAllResource, RecordsTyped, RestTyped,
                  serviceVars, outside
<1>5. ASSUME NEW o \in Owners, NEW K \in SUBSET Kinds, DumpResetResource(o, K)
      PROVE  TInv'
    <2>1. rec' \in [Owners -> Record] /\ view' \in [Owners -> SUBSET Kinds] /\ last' = "reset"
        BY <1>5, RemoveTargetTypes, Zenon DEF DumpResetResource, RemoveTargetResourceRecord
    <2>. QED  BY <1>5, <2>1 DEF DumpResetResource, RecordsTyped, RestTyped, serviceVars,
                  outside
<1>. QED  BY <1>1, <1>2, <1>3, <1>4, <1>5

\* So do the end of the service, the start of the device and system abilities.
LEMMA ServiceTypes ==
    ASSUME TInv, Service
    PROVE  TInv'
<1> USE DEF TInv
<1>1. CASE OnAddSystemAbility
    <2>1. InitTask \in GoodTask
        BY ResetTaskGood, Zenon DEF InitTask
    <2>2. queue' \in Seq(GoodTask)
        BY <1>1, <2>1 DEF OnAddSystemAbility
    <2>. QED  BY <1>1, <2>2 DEF OnAddSystemAbility, RecordsTyped, RestTyped, outside,
                  histories
<1>2. CASE OnRemoveSystemAbility
    BY <1>2, Zenon DEF OnRemoveSystemAbility, RecordsTyped, RestTyped, outside, histories
<1>3. ASSUME ServiceEnds
      PROVE  /\ RecordsTyped' /\ queue' \in Seq(GoodTask) /\ call' \in [Pids -> GoodCall]
             /\ timers' = {} /\ notices' = {} /\ view' \in [Owners -> SUBSET Kinds]
    <2>1. NoRecords \in [Owners -> Record]
        BY NoRecordFacts, Zenon DEF NoRecords
    <2>2. NoCall \in GoodCall
        BY RecordsAssumption, Zenon DEF NoCall, GoodCall, Request, Timely
    <2>. QED  BY <1>3, <2>1, <2>2 DEF ServiceEnds, RecordsTyped
<1>4. CASE ServiceCrash
    BY <1>3, <1>4, Zenon DEF ServiceCrash, ServiceEnds, RestTyped
<1>5. CASE Reboot
    <2>1. proc' \in [Pids -> {"new", "alive", "dead"}]
        BY <1>5, Zenon DEF Reboot, RestTyped
    <2>2. ServiceEnds /\ clock' \in Nat \ {0}
        BY <1>5 DEF Reboot
    <2>. QED  BY <1>3, <2>1, <2>2, Zenon DEF ServiceEnds, RestTyped
<1>. QED  BY <1>1, <1>2, <1>4, <1>5 DEF Service

\* Every step keeps the types.
LEMMA TypeStep ==
    ASSUME TInv, [Next]_vars
    PROVE  TInv'
<1>1. CASE Next
    BY <1>1, CallTypes, OutsideTypes, TaskTypes, RunnerTypes, ServiceTypes, Zenon DEF Next, Runner
<1>2. CASE UNCHANGED vars
    BY <1>2, Zenon DEF vars, TInv, RecordsTyped, RestTyped
<1>. QED  BY <1>1, <1>2

\* The initial state has the types.
LEMMA TypeInit == Init => TInv
<1>1. NoRecords \in [Owners -> Record]
    BY NoRecordFacts, Zenon DEF NoRecords
<1>2. NoCall \in GoodCall
    BY RecordsAssumption, Zenon DEF NoCall, GoodCall, Request, Timely
<1>3. Init => RecordsTyped
    BY <1>1, Zenon DEF Init, RecordsTyped
<1>4. Init => queue \in Seq(GoodTask) /\ call \in [Pids -> GoodCall]
    BY <1>2 DEF Init
<1>5. Init => proc \in [Pids -> {"new", "alive", "dead"}]
    BY Zenon DEF Init
<1>6. Init => clock \in Nat \ {0} /\ calls \in Nat
    BY DEF Init
<1>7. Init => view \in [Owners -> SUBSET Kinds] /\ since \in [Owners -> SUBSET Kinds]
    BY Zenon DEF Init
<1>8. Init => RestTyped
    BY <1>5, <1>6, <1>7, Zenon DEF Init, RestTyped
<1>. QED  BY <1>3, <1>4, <1>8 DEF TInv

\* BgEfficiencyResourcesMgr keeps records, tasks and calls in their types,
\* whatever requests, faults and restarts come.
THEOREM ResourcesTyped == Spec => []TypeOK
<1>1. TInv => TypeOK
    <2>1. TInv => queue \in Seq(Task)
        BY GoodIsTask, Zenon DEF TInv
    <2>2. TInv => call \in [Pids -> Request]
        BY Zenon DEF TInv, GoodCall
    <2>. QED  BY <2>1, <2>2 DEF TInv, RecordsTyped, RestTyped, TypeOK
<1>. QED  BY <1>1, TypeInit, TypeStep, PTL DEF Spec

-----------------------------------------------------------------------------
(* Which steps change the records, and how.                                *)

Quiet == UNCHANGED <<rec, disk, timers, clock, view, watching, restored, last, since>>

\* Some of the bits K of the record of o are reset, and the subscriber is told.
Resets(o, K) ==
    /\ rec' = [rec EXCEPT ![o] = Erased(@, K)]
    /\ view' = IF watching THEN [view EXCEPT ![o] = @ \ K] ELSE view
    /\ UNCHANGED <<disk, clock, watching, restored>>

\* Calls, posts, deaths and system abilities leave the records alone.
LEMMA QuietSteps ==
    ASSUME \/ \E p \in Pids : Calls(p) \/ Posts(p)
           \/ Processes \/ OnAddSystemAbility \/ OnRemoveSystemAbility
           \/ \E u \in Uids : PackageRemoved(u)
    PROVE  Quiet
<1>1. ASSUME NEW p \in Pids, Calls(p) PROVE Quiet
    <2>1. ASSUME NEW asked, NEW q, ApplyEfficiencyResources(p, asked, q) PROVE Quiet
        BY <2>1, Zenon DEF ApplyEfficiencyResources, Quiet, serviceVars, outside, histories
    <2>2. CASE ResetAllEfficiencyResources(p)
        BY <2>2, Zenon DEF ResetAllEfficiencyResources, Quiet, serviceVars, outside, histories
    <2>. QED  BY <1>1, <2>1, <2>2, ZenonT(30) DEF Calls
<1>2. ASSUME NEW p \in Pids, Posts(p) PROVE Quiet
    BY <1>2, Zenon
       DEF Posts, SendProcessPart, SendAppPart, Quiet, serviceVars, outside, histories
<1>3. CASE Processes
    BY <1>3, Zenon DEF Processes, StartProcess, ProcessDies, RemoveDeadRecord, Quiet, serviceVars,
                histories
<1>4. CASE OnAddSystemAbility \/ OnRemoveSystemAbility
    BY <1>4, Zenon DEF OnAddSystemAbility, OnRemoveSystemAbility, Quiet, outside, histories
<1>5. ASSUME NEW u \in Uids, PackageRemoved(u) PROVE Quiet
    BY <1>5, Zenon DEF PackageRemoved, Quiet, serviceVars, outside, histories
<1>. QED  BY <1>1, <1>2, <1>3, <1>4, <1>5

\* A reset task, or a dump of one record, resets bits that are set and leaves the
\* delayed resets alone (ResetEfficiencyResourcesInner, RemoveTargetResourceRecord).
LEMMA ResetSteps ==
    ASSUME TInv,
           \/ queue # <<>> /\ (ResetProcessInner(Head(queue)) \/ ResetAppInner(Head(queue)))
           \/ \E o \in Owners, K \in SUBSET Kinds : DumpResetResource(o, K)
    PROVE  \E o \in Owners, K \in SUBSET Kinds :
               K \subseteq rec[o].bits /\ Resets(o, K) /\ timers' = timers
<1>1. ASSUME NEW o \in Owners, NEW K \in SUBSET Kinds, RemoveTargetResourceRecord(o, K),
             UNCHANGED <<timers, disk, clock, watching, restored>>
      PROVE  \E L \in SUBSET Kinds :
                 L \subseteq rec[o].bits /\ Resets(o, L) /\ timers' = timers
    <2>1. rec[o].bits \cap K \in SUBSET Kinds
        BY Zenon
    <2>2. Resets(o, rec[o].bits \cap K)
        BY <1>1, Zenon DEF RemoveTargetResourceRecord, NotifyReset, Resets
    <2>. QED  BY <1>1, <2>1, <2>2
<1>2. ASSUME queue # <<>>, ResetProcessInner(Head(queue)) \/ ResetAppInner(Head(queue))
      PROVE  \E o \in Owners, K \in SUBSET Kinds :
                 RemoveTargetResourceRecord(o, K)
                 /\ UNCHANGED <<timers, disk, clock, watching, restored>>
    <2>1. Head(queue) \in Task
        BY <1>2, HeadIsGood, Zenon DEF TInv
    <2>2. Head(queue).owner \in Owners /\ Head(queue).bits \in SUBSET Kinds
        BY <1>2, <2>1, Zenon DEF ResetProcessInner, ResetAppInner, Task, Owners
    <2>3. RemoveTargetResourceRecord(Head(queue).owner, Head(queue).bits)
          /\ UNCHANGED <<timers, disk, clock, watching, restored>>
        BY <1>2, <2>1, Zenon DEF ResetProcessInner, ResetAppInner, serviceVars, outside
    <2>. QED  BY <2>2, <2>3
<1>3. ASSUME NEW o \in Owners, NEW K \in SUBSET Kinds, DumpResetResource(o, K)
      PROVE  RemoveTargetResourceRecord(o, K)
             /\ UNCHANGED <<timers, disk, clock, watching, restored>>
    BY <1>3, Zenon DEF DumpResetResource, serviceVars, outside
<1>. QED  BY <1>1, <1>2, <1>3, ZenonT(30)

-----------------------------------------------------------------------------
(* BitsMatchUnits.                                                         *)

\* The records that are restored, when the device has been up for long.
LEMMA RecoveredSound ==
    ASSUME EarlyBoot = 0, TInv, BitsMatchUnits, NEW o \in Owners
    PROVE  Sound(RecoveredRecords[o])
<1>1. Sound(RestoreResourceRecord[o])
    BY Zenon DEF RestoreResourceRecord, BitsMatchUnits, Sound
<1>2. Sound(CheckPersistenceData(RestoreResourceRecord)[o])
    BY <1>1, NoRecordFacts, Zenon DEF CheckPersistenceData, RunningApp, RunningProcess
<1>3. ~(clock <= EarlyBoot)
    BY DEF TInv, RestTyped
<1>. QED  BY <1>2, <1>3 DEF RecoveredRecords

\* A step keeps bits and units in agreement.
LEMMA BitsStep ==
    ASSUME EarlyBoot = 0, TInv, BitsMatchUnits, [Next]_vars
    PROVE  BitsMatchUnits'
<1>0. SUFFICES \A o \in Owners : Sound(rec'[o]) /\ Sound(disk'[o])
    BY DEF BitsMatchUnits, Sound, Listed
<1>1. \A o \in Owners : Sound(rec[o]) /\ Sound(disk[o]) /\ rec[o] \in Record
    BY Zenon DEF BitsMatchUnits, Sound, TInv, RecordsTyped
<1>2. ASSUME UNCHANGED <<rec, disk>>
      PROVE  \A o \in Owners : Sound(rec'[o]) /\ Sound(disk'[o])
    BY <1>1, <1>2, Zenon
<1>3. ASSUME NEW o \in Owners, NEW K \in SUBSET Kinds, K \subseteq rec[o].bits,
             rec' = [rec EXCEPT ![o] = Erased(@, K)], disk' = disk
      PROVE  \A q \in Owners : Sound(rec'[q]) /\ Sound(disk'[q])
    <2>1. Sound(Erased(rec[o], K))
        BY <1>1, <1>3, ErasedSound, Zenon
    <2>. QED  BY <1>1, <1>3, <2>1 DEF TInv, RecordsTyped
<1>4. ASSUME \/ queue # <<>> /\ (ResetProcessInner(Head(queue)) \/ ResetAppInner(Head(queue)))
             \/ \E o \in Owners, K \in SUBSET Kinds : DumpResetResource(o, K)
      PROVE  \A q \in Owners : Sound(rec'[q]) /\ Sound(disk'[q])
    BY <1>3, <1>4, ResetSteps, Zenon DEF Resets
<1>5. ASSUME queue # <<>>, ApplyEfficiencyResourcesInner(Head(queue))
      PROVE  \A q \in Owners : Sound(rec'[q]) /\ Sound(disk'[q])
    <2> DEFINE t == Head(queue)
    <2>1. t \in GoodTask
        BY <1>5, HeadIsGood, Zenon DEF TInv
    <2>2. /\ t.owner \in Owners /\ t.bits \in SUBSET Kinds /\ t.persist \in BOOLEAN
          /\ t.level \in Levels /\ t.timeout \in Nat /\ t.bits # {}
        BY <2>1, <1>5, Zenon DEF ApplyEfficiencyResourcesInner, GoodTask, Task
    <2>3. clock + t.timeout \in Nat
        BY <2>2 DEF TInv, RestTyped
    <2>4. Sound(Applied(rec[t.owner], t.bits, t.persist, clock + t.timeout, t.level))
        BY <1>1, <2>2, <2>3, AppliedSound, Zenon
    <2>5. /\ rec' = [rec EXCEPT ![t.owner] =
                         Applied(@, t.bits, t.persist, clock + t.timeout, t.level)]
          /\ disk' = disk
        BY <1>5, Zenon DEF ApplyEfficiencyResourcesInner
    <2>. QED  BY <1>1, <2>4, <2>5 DEF TInv, RecordsTyped
<1>6. ASSUME NEW t \in timers, ResetTimeOutResource(t[1], t[2])
      PROVE  \A q \in Owners : Sound(rec'[q]) /\ Sound(disk'[q])
    <2>1. t[1] \in Owners
        BY Zenon DEF TInv, RestTyped
    <2>2. TimedOut(rec[t[1]], clock) \in SUBSET rec[t[1]].bits
        BY <1>1, <2>1, TimedOutWithin, Zenon
    <2>3. rec[t[1]].bits \subseteq Kinds
        BY <1>1, <2>1, Zenon DEF Record
    <2>. QED  BY <1>3, <1>6, <2>1, <2>2, <2>3, Zenon DEF ResetTimeOutResource
<1>7. ASSUME RefreshResourceRecord
      PROVE  \A q \in Owners : Sound(rec'[q]) /\ Sound(disk'[q])
    BY <1>1, <1>7, Zenon DEF RefreshResourceRecord
<1>8. ASSUME InitNecessaryState
      PROVE  \A q \in Owners : Sound(rec'[q]) /\ Sound(disk'[q])
    BY <1>1, <1>8, RecoveredSound, Zenon DEF InitNecessaryState
<1>9. ASSUME DumpResetAllResource \/ ServiceEnds
      PROVE  \A q \in Owners : Sound(rec'[q]) /\ Sound(disk'[q])
    <2>1. \A q \in Owners : Sound(NoRecords[q])
        BY NoRecordFacts, Zenon DEF NoRecords
    <2>. QED  BY <1>1, <1>9, <2>1 DEF DumpResetAllResource, ServiceEnds
<1>10. CASE Next
    <2>1. CASE Runner
        BY <2>1, <1>4, <1>5, <1>6, <1>7, <1>8, Zenon DEF Runner, RunTask
    <2>2. CASE Service
        BY <2>2, <1>2, <1>9, QuietSteps, Zenon DEF Service, ServiceCrash, Reboot, Quiet
    <2>3. CASE Subscribe \/ Tick
        BY <2>3, <1>2, Zenon DEF Subscribe, Tick
    <2>. QED  BY <1>10, <2>1, <2>2, <2>3, <1>2, <1>4, <1>9, QuietSteps, SMTT(30) DEF Next, Quiet
<1>11. CASE UNCHANGED vars
    BY <1>2, <1>11, Zenon DEF vars
<1>. QED  BY <1>10, <1>11

\* When the device has been up for more than systemUpMaxDurationMs at every start
\* of the service, the bits of a record are always those of its units, in memory
\* and in the file (ResetTimeOutResource flips bits for units).
THEOREM BitsAlwaysMatchUnits ==
    ASSUME EarlyBoot = 0
    PROVE  Spec => []BitsMatchUnits
<1>1. Init => BitsMatchUnits
    <2>1. Init => \A o \in Owners : Sound(rec[o]) /\ Sound(disk[o])
        BY NoRecordFacts DEF Init, NoRecords
    <2>. QED  BY <2>1 DEF BitsMatchUnits, Sound
<1>2. TInv /\ BitsMatchUnits /\ [Next]_vars => TInv' /\ BitsMatchUnits'
    BY TypeStep, BitsStep, Zenon
<1>. QED  BY <1>1, <1>2, TypeInit, PTL DEF Spec

-----------------------------------------------------------------------------
(* TimedWillBeReset.                                                       *)

\* No unit ends 2^31 or more from now.
EndsNear ==
    \A o \in Owners : /\ EndsBefore(rec[o], clock + Int32Half)
                      /\ EndsBefore(disk[o], clock + Int32Half)

\* A unit of o has a reset posted in T that is not due before its end.
Covered(r, o, T) ==
    \A k \in Kinds : Timed(r, k) => \E t \in T : t[1] = o /\ t[2] >= r.units[k].end

\* Timeouts of less than 2^31 and a clock that does not start again.
NearEnds == (\A n \in Timeouts : n < Int32Half) /\ "reboot" \notin Faults

\* The records that are restored are covered by the resets that are posted
\* (RecoverDelayedTask).
LEMMA RecoveredCovered ==
    ASSUME TInv, EndsNear, NEW o \in Owners
    PROVE  /\ EndsBefore(RecoveredRecords[o], clock + Int32Half)
           /\ Covered(RecoveredRecords[o], o, RecoverDelayedTask(RecoveredRecords))
<1> DEFINE R == RecoveredRecords
           b == clock + Int32Half
<1>0. clock \in Nat /\ b \in Nat \ {0}
    BY RecordsAssumption DEF TInv, RestTyped
<1>1. EndsBefore(RestoreResourceRecord[o], b)
    BY Zenon DEF RestoreResourceRecord, EndsNear
<1>2. EndsBefore(CheckPersistenceData(RestoreResourceRecord)[o], b)
    BY <1>0, <1>1, NoRecordFacts, Zenon DEF CheckPersistenceData, RunningApp, RunningProcess
<1>3. CheckPersistenceData(RestoreResourceRecord)[o] \in Record
    <2>1. RestoreResourceRecord[o] \in Record
        BY Zenon DEF RestoreResourceRecord, TInv, RecordsTyped
    <2>. QED  BY <2>1, RecoveredType DEF CheckPersistenceData
<1>4. EndsBefore(R[o], b)
    BY <1>2, <1>3, Zenon DEF RecoveredRecords, RecoverResourceNumber, EndsBefore, Record
<1>5. R[o] \in Record
    BY RecoveredTyped, Zenon
<1>6. ASSUME NEW k \in Kinds, Timed(R[o], k)
      PROVE  \E t \in RecoverDelayedTask(R) : t[1] = o /\ t[2] >= R[o].units[k].end
    <2>1. R[o].units[k] \in Unit /\ R[o].units[k].end < clock + Int32Half
        BY <1>4, <1>5, Zenon DEF EndsBefore, Record
    <2>2. PICK due : due \in RecoveredDue(R[o].units[k], clock)
        BY Zenon DEF RecoveredDue
    <2>3. due >= R[o].units[k].end
        BY <1>0, <2>1, <2>2, RecoveredNotEarly, Zenon
    <2>4. <<o, due>> \in RecoverDelayedTask(R)
        BY <1>6, <2>2 DEF RecoverDelayedTask
    <2>. QED  BY <2>3, <2>4
<1>. QED  BY <1>4, <1>6 DEF Covered

\* A unit extended without becoming permanent ends at the later of the two ends.
LEMMA ExtendedUnit ==
    ASSUME NEW u \in Unit, NEW persist \in BOOLEAN, NEW e \in Nat, NEW v,
           v = ExtendUnit(u, persist, e), v.on, ~v.persist
    PROVE  /\ ~persist /\ ~(u.on /\ u.persist)
           /\ v.end = IF u.on /\ e < u.end THEN u.end ELSE e
<1>1. CASE persist \/ (u.on /\ u.persist)
    BY <1>1, Zenon DEF ExtendUnit
<1>2. CASE ~(persist \/ (u.on /\ u.persist))
    <2>1. v.end = IF u.on THEN Later(u.end, e) ELSE e
        BY <1>2, Zenon DEF ExtendUnit
    <2>2. u.end \in Nat
        BY Zenon DEF Unit
    <2>. QED  BY <1>2, <2>1, <2>2 DEF Later
<1>. QED  BY <1>1, <1>2

\* A step keeps every timed unit covered.
LEMMA ResetsStep ==
    ASSUME NearEnds, TInv, EndsNear, TimedWillBeReset, [Next]_vars
    PROVE  EndsNear' /\ TimedWillBeReset'
<1> DEFINE b == clock + Int32Half
           Good == \A o \in Owners : /\ EndsBefore(rec'[o], clock' + Int32Half)
                                     /\ EndsBefore(disk'[o], clock' + Int32Half)
                                     /\ Covered(rec'[o], o, timers')
<1>0. SUFFICES Good
    BY Zenon DEF EndsNear, TimedWillBeReset, Covered, Timed, EndsBefore
<1>1. \A o \in Owners : /\ EndsBefore(rec[o], b) /\ EndsBefore(disk[o], b)
                        /\ Covered(rec[o], o, timers)
                        /\ rec[o] \in Record /\ disk[o] \in Record
    BY Zenon DEF EndsNear, TimedWillBeReset, Covered, TInv, RecordsTyped
<1>2. clock \in Nat /\ b \in Nat \ {0}
    BY RecordsAssumption DEF TInv, RestTyped
<1>3. ASSUME UNCHANGED <<rec, disk, timers, clock>>
      PROVE  Good
    BY <1>1, <1>3, Zenon
<1>4. ASSUME NEW o \in Owners, NEW K \in SUBSET Kinds,
             rec' = [rec EXCEPT ![o] = Erased(@, K)], UNCHANGED <<disk, clock>>,
             \A k \in Kinds \ K : Timed(rec[o], k) =>
                 \E t \in timers' : t[1] = o /\ t[2] >= rec[o].units[k].end,
             \A q \in Owners \ {o} : Covered(rec[q], q, timers')
      PROVE  Good
    <2>1. EndsBefore(Erased(rec[o], K), b)
        BY <1>1, <1>2, ErasedEnds, Zenon
    <2>2. Covered(Erased(rec[o], K), o, timers')
        BY <1>1, <1>4, ErasedUnits, SMTT(30) DEF Covered
    <2>3. \A q \in Owners : rec'[q] = IF q = o THEN Erased(rec[o], K) ELSE rec[q]
        BY <1>4, Zenon DEF TInv, RecordsTyped
    <2>. QED  BY <1>1, <1>4, <2>1, <2>2, <2>3, SMTT(30)
<1>5. ASSUME \/ queue # <<>> /\ (ResetProcessInner(Head(queue)) \/ ResetAppInner(Head(queue)))
             \/ \E o \in Owners, K \in SUBSET Kinds : DumpResetResource(o, K)
      PROVE  Good
    <2>1. PICK o \in Owners, K \in SUBSET Kinds : Resets(o, K) /\ timers' = timers
        BY <1>5, ResetSteps, Zenon
    <2>2. \A q \in Owners : Covered(rec[q], q, timers')
        BY <1>1, <2>1, Zenon
    <2>3. rec' = [rec EXCEPT ![o] = Erased(@, K)] /\ UNCHANGED <<disk, clock>>
        BY <2>1, Zenon DEF Resets
    <2>4. \A k \in Kinds \ K : Timed(rec[o], k) =>
              \E t \in timers' : t[1] = o /\ t[2] >= rec[o].units[k].end
        BY <2>2, Zenon DEF Covered
    <2>. QED  BY <1>4, <2>2, <2>3, <2>4, ZenonT(30)
<1>6. ASSUME queue # <<>>, ApplyEfficiencyResourcesInner(Head(queue))
      PROVE  Good
    <2> DEFINE t == Head(queue)
               e == clock + t.timeout
               a == Applied(rec[t.owner], t.bits, t.persist, e, t.level)
    <2>1. t \in GoodTask
        BY <1>6, HeadIsGood, Zenon DEF TInv
    <2>2. /\ t.owner \in Owners /\ t.bits \in SUBSET Kinds /\ t.persist \in BOOLEAN
          /\ t.level \in Levels /\ t.timeout \in Nat /\ t.timeout < Int32Half
        <3>1. t.apply
            BY <1>6, Zenon DEF ApplyEfficiencyResourcesInner
        <3> HIDE DEF t
        <3>2. t \in Task /\ t.owner \in Owners /\ t.timeout \in Timely
            BY <2>1, <3>1, Zenon DEF GoodTask
        <3>3. t.timeout < Int32Half
            BY <3>2, RecordsAssumption DEF Timely, NearEnds
        <3>. QED  BY <3>2, <3>3, SMTT(30) DEF Task
    <2>3. e \in Nat /\ e < b
        BY <1>2, <2>2, RecordsAssumption, SMTT(30)
    <2>4. EndsBefore(a, b)
        BY <1>1, <1>2, <2>2, <2>3, AppliedEnds, ZenonT(30)
    <2>5. /\ rec' = [rec EXCEPT ![t.owner] = a]
          /\ timers' = IF t.persist THEN timers ELSE timers \cup {<<t.owner, e>>}
          /\ disk' = disk /\ clock' = clock
        BY <1>6, Zenon DEF ApplyEfficiencyResourcesInner, outside
    <2>6. \A k \in Kinds : a.units[k] = IF k \in t.bits
                                        THEN ExtendUnit(rec[t.owner].units[k], t.persist, e)
                                        ELSE rec[t.owner].units[k]
        BY ZenonT(30) DEF Applied, UpdateResourcesEndtime
    <2>7. ASSUME NEW k \in Kinds, Timed(a, k)
          PROVE  \E w \in timers' : w[1] = t.owner /\ w[2] >= a.units[k].end
        <3> DEFINE u == rec[t.owner].units[k]
        <3>0. u \in Unit
            BY <1>1, <2>2, Zenon DEF Record
        <3>1. CASE k \notin t.bits
            BY <1>1, <2>2, <2>5, <2>6, <2>7, <3>1, Zenon DEF Covered, Timed
        <3>2. CASE k \in t.bits
            <4>1. a.units[k] = ExtendUnit(u, t.persist, e)
                BY <2>6, <3>2, Zenon
            <4>0. /\ a.units[k].on /\ ~a.units[k].persist
                  /\ t.persist \in BOOLEAN /\ e \in Nat
                BY <2>2, <2>3, <2>7, Zenon DEF Timed
            <4> HIDE DEF a, e, t, u
            <4>2. ~t.persist /\ ~(u.on /\ u.persist)
                BY <3>0, <4>0, <4>1, ExtendedUnit, SMTT(30)
            <4>3. a.units[k].end = IF u.on /\ e < u.end THEN u.end ELSE e
                BY <3>0, <4>0, <4>1, ExtendedUnit, SMTT(30)
            <4> USE DEF u, t
            <4>4. <<t.owner, e>> \in timers'
                BY <2>5, <4>2, Zenon
            <4>5. CASE u.on /\ e < u.end
                <5>1. Timed(rec[t.owner], k)
                    BY <4>2, <4>5, Zenon DEF Timed
                <5>2. PICK w \in timers : w[1] = t.owner /\ w[2] >= u.end
                    BY <1>1, <2>2, <5>1, Zenon DEF Covered
                <5>3. a.units[k].end = u.end
                    BY <4>3, <4>5, Zenon
                <5>4. w \in timers'
                    BY <2>5, <5>2, Zenon
                <5>. QED  BY <5>2, <5>3, <5>4, SMTT(30)
            <4>6. CASE ~(u.on /\ e < u.end)
                <5>1. a.units[k].end = e
                    BY <4>3, <4>6, Zenon
                <5>2. e >= e
                    BY <4>0
                <5>. QED  BY <4>4, <5>1, <5>2, SMTT(30)
            <4>. QED  BY <4>5, <4>6, SMTT(30)
        <3>. QED  BY <3>1, <3>2, Zenon
    <2>8. Covered(a, t.owner, timers')
        BY <2>7, Zenon DEF Covered
    <2>9. \A q \in Owners : Covered(rec[q], q, timers')
        BY <1>1, <2>5, Zenon DEF Covered
    <2>10. \A q \in Owners : rec'[q] = IF q = t.owner THEN a ELSE rec[q]
        BY <2>2, <2>5, Zenon DEF TInv, RecordsTyped
    <2>. QED  BY <1>1, <2>4, <2>5, <2>8, <2>9, <2>10, Zenon
<1>7. ASSUME NEW t \in timers, ResetTimeOutResource(t[1], t[2])
      PROVE  Good
    <2> DEFINE K == TimedOut(rec[t[1]], clock)
    <2>1. t \in Owners \X Nat /\ timers \subseteq Owners \X Nat
        BY Zenon DEF TInv, RestTyped
    <2>2. /\ rec' = [rec EXCEPT ![t[1]] = Erased(@, K)] /\ timers' = timers \ {t}
          /\ t[2] <= clock /\ UNCHANGED <<disk, clock>>
        <3>1. t = <<t[1], t[2]>>
            BY <2>1
        <3>2. /\ rec' = [rec EXCEPT ![t[1]] = Erased(@, K)] /\ timers' = timers \ {<<t[1], t[2]>>}
              /\ t[2] <= clock
            BY <1>7, Zenon DEF ResetTimeOutResource
        <3>3. UNCHANGED <<disk, clock>>
            BY <1>7, Zenon DEF ResetTimeOutResource, outside
        <3>. QED  BY <3>1, <3>2, <3>3, Zenon
    <2>3. t[1] \in Owners /\ K \in SUBSET Kinds
        BY <2>1, Zenon DEF TimedOut
    <2>4. ASSUME NEW k \in Kinds \ K, Timed(rec[t[1]], k)
          PROVE  \E w \in timers' : w[1] = t[1] /\ w[2] >= rec[t[1]].units[k].end
        <3>1. rec[t[1]].units[k].end \in Nat /\ ~(clock >= rec[t[1]].units[k].end)
            BY <1>1, <2>3, <2>4, Zenon DEF TimedOut, Record, Unit
        <3>2. PICK w \in timers : w[1] = t[1] /\ w[2] >= rec[t[1]].units[k].end
            BY <1>1, <2>3, <2>4, Zenon DEF Covered
        <3>3. w # t
            BY <1>2, <2>1, <2>2, <3>1, <3>2, SMTT(30)
        <3>. QED  BY <2>2, <3>2, <3>3
    <2>5. \A q \in Owners \ {t[1]} : Covered(rec[q], q, timers')
        BY <1>1, <2>2, Zenon DEF Covered
    <2>. QED  BY <1>4, <2>2, <2>3, <2>4, <2>5, Zenon
<1>8. ASSUME RefreshResourceRecord
      PROVE  Good
    BY <1>1, <1>8, Zenon DEF RefreshResourceRecord, outside
<1>9. ASSUME InitNecessaryState
      PROVE  Good
    <2>1. disk' = disk /\ clock' = clock
        BY <1>9, Zenon DEF InitNecessaryState, outside
    <2>2. CASE UNCHANGED <<rec, timers>>
        BY <1>3, <2>1, <2>2, Zenon
    <2>3. CASE /\ rec' = RecoveredRecords
               /\ timers' = timers \cup RecoverDelayedTask(RecoveredRecords)
        BY <1>1, <2>1, <2>3, RecoveredCovered, Zenon DEF Covered
    <2>. QED  BY <1>9, <2>2, <2>3, Zenon DEF InitNecessaryState
<1>10. \A q \in Owners : \A T : EndsBefore(NoRecords[q], b) /\ Covered(NoRecords[q], q, T)
    BY <1>2, NoRecordFacts, Zenon DEF NoRecords, Covered
<1>11. ASSUME DumpResetAllResource \/ ServiceCrash
      PROVE  Good
    <2>1. rec' = NoRecords /\ disk' \in {disk, NoRecords} /\ clock' = clock
        BY <1>11, Zenon DEF DumpResetAllResource, ServiceCrash, ServiceEnds, outside
    <2>. QED  BY <1>1, <1>10, <2>1, SMTT(30)
<1>12. ASSUME Tick
      PROVE  Good
    <2>1. clock' = clock + 1 /\ UNCHANGED <<rec, disk, timers>>
        BY <1>12, Zenon DEF Tick
    <2>2. \A r \in Record : EndsBefore(r, b) => EndsBefore(r, clock' + Int32Half)
        BY <1>2, <2>1, RecordsAssumption DEF EndsBefore, Record, Unit
    <2>. QED  BY <1>1, <2>1, <2>2
<1>13. CASE Next
    <2>1. CASE Runner
        BY <2>1, <1>5, <1>6, <1>7, <1>8, <1>9, Zenon DEF Runner, RunTask
    <2>2. CASE Service
        BY <2>2, <1>3, <1>11, QuietSteps, Zenon DEF Service, Reboot, Quiet, NearEnds
    <2>3. CASE Subscribe
        BY <2>3, <1>3, ZenonT(30) DEF Subscribe, outside
    <2>. QED  BY <1>13, <2>1, <2>2, <2>3, <1>3, <1>5, <1>11, <1>12, QuietSteps, Zenon DEF Next, Quiet
<1>14. CASE UNCHANGED vars
    BY <1>3, <1>14, Zenon DEF vars
<1>. QED  BY <1>13, <1>14, SMTT(30)

\* With timeouts of less than 2^31 ms and no restart of the device, a unit that
\* ends at a time always has a delayed reset posted that will find it over
\* (UpdateResourcesEndtime, ResetTimeOutResource, RecoverDelayedTask).
THEOREM TimedAlwaysWillBeReset ==
    ASSUME NearEnds
    PROVE  Spec => []TimedWillBeReset
<1>1. Init => EndsNear /\ TimedWillBeReset
    <2>1. Init => \A o \in Owners : rec[o] = NoRecord /\ disk[o] = NoRecord
        BY Zenon DEF Init, NoRecords
    <2>2. Init => clock + Int32Half \in Nat \ {0}
        BY RecordsAssumption DEF Init
    <2>. QED  BY <2>1, <2>2, NoRecordFacts DEF EndsNear, TimedWillBeReset
<1>2. TInv /\ EndsNear /\ TimedWillBeReset /\ [Next]_vars
          => TInv' /\ EndsNear' /\ TimedWillBeReset'
    BY TypeStep, ResetsStep, Zenon
<1>. QED  BY <1>1, <1>2, TypeInit, PTL DEF Spec

-----------------------------------------------------------------------------
(* SubscriberSeesAll.                                                      *)

\* InitNecessaryState is posted, and posted once.
Has(q) == \E i \in 1 .. Len(q) : q[i] = InitTask

Once(q) == \A i, j \in 1 .. Len(q) : q[i] = InitTask /\ q[j] = InitTask => i = j

\* The service starts once for each time its process runs, and before anyone can
\* subscribe.
StartsOnce ==
    /\ Once(queue)
    /\ Has(queue) => depends /\ ~restored
    /\ restored => depends
    /\ watching => restored

\* q2 is what a step other than OnAddSystemAbility may make of the queue q1.
PlainTasks == {t \in GoodTask : t # InitTask}

QueueMoves(q1, q2) ==
    \/ q2 = q1
    \/ \E t \in PlainTasks : q2 = Append(q1, t)
    \/ q1 # <<>> /\ \E f \in Seq(PlainTasks) : q2 = Tail(q1) \o f

\* Such a step posts no second start.
LEMMA QueueMovesOnce ==
    ASSUME NEW q1 \in Seq(GoodTask), NEW q2, QueueMoves(q1, q2), Once(q1)
    PROVE  Once(q2) /\ (Has(q2) => Has(q1))
<1>1. CASE q2 = q1
    BY <1>1, Zenon
<1>2. ASSUME NEW t \in PlainTasks, q2 = Append(q1, t)
      PROVE  Once(q2) /\ (Has(q2) => Has(q1))
    <2>1. /\ Len(q2) = Len(q1) + 1 /\ Len(q1) \in Nat
          /\ \A i \in 1 .. Len(q2) : q2[i] = IF i <= Len(q1) THEN q1[i] ELSE t
        BY <1>2 DEF PlainTasks
    <2>2. \A i \in 1 .. Len(q2) : q2[i] = InitTask => i \in 1 .. Len(q1) /\ q1[i] = InitTask
        BY <2>1, SMTT(30) DEF PlainTasks
    <2>. QED  BY <2>1, <2>2 DEF Once, Has
<1>3. ASSUME NEW f \in Seq(PlainTasks), q1 # <<>>, q2 = Tail(q1) \o f
      PROVE  Once(q2) /\ (Has(q2) => Has(q1))
    <2>1. /\ Tail(q1) \in Seq(GoodTask) /\ Len(Tail(q1)) = Len(q1) - 1
          /\ Len(q1) \in Nat \ {0}
          /\ \A i \in 1 .. Len(Tail(q1)) : Tail(q1)[i] = q1[i + 1]
        BY <1>3
    <2>2. f \in Seq(GoodTask) /\ Len(f) \in Nat /\ \A i \in 1 .. Len(f) : f[i] \in PlainTasks
        <3>1. f \in [1 .. Len(f) -> PlainTasks] /\ Len(f) \in Nat
            OBVIOUS
        <3>2. f \in [1 .. Len(f) -> GoodTask]
            BY <3>1, Zenon DEF PlainTasks
        <3>. QED  BY <3>1, <3>2
    <2>3. /\ Len(q2) = Len(q1) - 1 + Len(f)
          /\ \A i \in 1 .. Len(q2) : q2[i] = IF i <= Len(q1) - 1 THEN q1[i + 1]
                                             ELSE f[i - (Len(q1) - 1)]
        BY <1>3, <2>1, <2>2
    <2>4. \A i \in 1 .. Len(q2) : q2[i] = InitTask =>
              i + 1 \in 1 .. Len(q1) /\ q1[i + 1] = InitTask
        <3>1. ASSUME NEW i \in 1 .. Len(q2), q2[i] = InitTask, ~(i <= Len(q1) - 1)
              PROVE  FALSE
            <4>1. i - (Len(q1) - 1) \in 1 .. Len(f)
                BY <2>1, <2>2, <2>3, <3>1
            <4>. QED  BY <2>2, <2>3, <3>1, <4>1 DEF PlainTasks
        <3>. QED  BY <2>1, <2>3, <3>1
    <2>. QED  BY <2>1, <2>3, <2>4 DEF Once, Has
<1>. QED  BY <1>1, <1>2, <1>3, Zenon DEF QueueMoves

\* When the start is taken off the queue, no other one is left.
LEMMA StartIsTaken ==
    ASSUME NEW q \in Seq(GoodTask), q # <<>>, Head(q) = InitTask, Once(q)
    PROVE  Once(Tail(q)) /\ ~Has(Tail(q))
<1>1. /\ Len(q) \in Nat \ {0} /\ Len(Tail(q)) = Len(q) - 1 /\ q[1] = InitTask
      /\ \A i \in 1 .. Len(Tail(q)) : Tail(q)[i] = q[i + 1]
    OBVIOUS
<1>2. \A i \in 1 .. Len(Tail(q)) : Tail(q)[i] # InitTask
    BY <1>1, SMTT(30) DEF Once
<1>. QED  BY <1>2 DEF Once, Has

\* Tasks with an owner are plain.
LEMMA OwnedIsPlain ==
    ASSUME NEW t \in GoodTask, t.owner \in Owners
    PROVE  t \in PlainTasks
BY ResourcesAssumption DEF PlainTasks, InitTask, ResetTask, Owners

\* A task with an owner that is posted is plain.
LEMMA PostedIsPlain ==
    ASSUME queue \in Seq(GoodTask), queue' \in Seq(GoodTask), NEW t,
           queue' = Append(queue, t), t.owner \in Owners
    PROVE  QueueMoves(queue, queue')
<1>1. Len(queue') \in Nat \ {0} /\ queue'[Len(queue')] = t
    OBVIOUS
<1>2. t \in GoodTask
    BY <1>1
<1>. QED  BY <1>2, OwnedIsPlain DEF QueueMoves

\* What is not the start of the service moves the queue in one of these ways.
LEMMA QueueSteps ==
    ASSUME TInv, TInv',
           \/ \E p \in Pids : Calls(p) \/ Posts(p)
           \/ Processes \/ Tick \/ Subscribe \/ RefreshResourceRecord
           \/ \E u \in Uids : PackageRemoved(u)
           \/ RunTask \/ \E t \in timers : ResetTimeOutResource(t[1], t[2])
           \/ DumpResetAllResource
           \/ \E o \in Owners, K \in SUBSET Kinds : DumpResetResource(o, K)
    PROVE  QueueMoves(queue, queue') /\ UNCHANGED <<depends, restored>>
<1> USE DEF serviceVars
<1>0. queue \in Seq(GoodTask) /\ queue' \in Seq(GoodTask)
    BY Zenon DEF TInv
<1>1. ASSUME UNCHANGED queue PROVE QueueMoves(queue, queue')
    BY <1>1, Zenon DEF QueueMoves
<1>2. ASSUME NEW p \in Pids, Calls(p)
      PROVE  UNCHANGED <<queue, depends, restored>>
    <2>1. ASSUME NEW asked, NEW q, ApplyEfficiencyResources(p, asked, q)
          PROVE  UNCHANGED <<queue, depends, restored>>
        BY <2>1, Zenon DEF ApplyEfficiencyResources
    <2>2. ASSUME ResetAllEfficiencyResources(p)
          PROVE  UNCHANGED <<queue, depends, restored>>
        BY <2>2, Zenon DEF ResetAllEfficiencyResources
    <2>. QED  BY <1>2, <2>1, <2>2, Zenon DEF Calls
<1>3. ASSUME NEW p \in Pids, Posts(p)
      PROVE  QueueMoves(queue, queue') /\ UNCHANGED <<depends, restored>>
    <2>1. p \in Owners /\ UidOf[p] \in Owners
        BY ResourcesAssumption, Zenon DEF Owners
    <2>2. \A o, q, l : ApplyTask(o, q, l).owner = o
        BY Zenon DEF ApplyTask
    <2>3. CASE SendProcessPart(p)
        <3>1. UNCHANGED <<depends, restored>>
            BY <2>3, Zenon DEF SendProcessPart
        <3>2. queue' = queue \/ \E q, l : queue' = Append(queue, ApplyTask(p, q, l))
            BY <2>3, ZenonT(30) DEF SendProcessPart
        <3>. QED  BY <1>0, <1>1, <2>1, <2>2, <3>1, <3>2, PostedIsPlain, SMTT(30)
    <2>4. CASE SendAppPart(p)
        <3>1. UNCHANGED <<depends, restored>>
            BY <2>4, Zenon DEF SendAppPart
        <3>2. \E q, l : queue' = Append(queue, ApplyTask(UidOf[p], q, l))
            BY <2>4, Zenon DEF SendAppPart
        <3>. QED  BY <1>0, <2>1, <2>2, <3>1, <3>2, PostedIsPlain, SMTT(30)
    <2>. QED  BY <1>3, <2>3, <2>4 DEF Posts
<1>4. ASSUME NEW o \in Owners, NEW K, RemoveRecord(o, K)
      PROVE  QueueMoves(queue, queue')
    BY <1>0, <1>1, <1>4, PostedIsPlain, Zenon DEF RemoveRecord, ResetTask
<1>5. CASE Processes
    BY <1>1, <1>4, <1>5, Zenon DEF Processes, StartProcess, ProcessDies, RemoveDeadRecord
<1>6. ASSUME NEW u \in Uids, PackageRemoved(u)
      PROVE  QueueMoves(queue, queue') /\ UNCHANGED <<depends, restored>>
    BY <1>4, <1>6, Zenon DEF PackageRemoved, Owners
<1>7. CASE RunTask
    <2>1. queue # <<>> /\ Head(queue) \in Task
        BY <1>0, <1>7, HeadIsGood, Zenon DEF RunTask
    <2>2. ASSUME queue' = Tail(queue)
          PROVE  QueueMoves(queue, queue')
        <3>1. <<>> \in Seq(PlainTasks) /\ Tail(queue) \o <<>> = Tail(queue)
            BY <1>0, <2>1
        <3>. QED  BY <2>1, <2>2, <3>1, Zenon DEF QueueMoves
    <2>3. CASE ApplyEfficiencyResourcesInner(Head(queue)) \/ ResetProcessInner(Head(queue))
        BY <2>2, <2>3, Zenon DEF ApplyEfficiencyResourcesInner, ResetProcessInner
    <2>4. CASE ResetAppInner(Head(queue))
        <3>1. Head(queue).owner \in Uids /\ Head(queue).bits \in SUBSET Kinds
            BY <2>1, <2>4, ZenonT(30) DEF ResetAppInner, Task
        <3>2. PICK f \in RelativeTasks(Head(queue).owner, Head(queue).bits) :
                  queue' = Tail(queue) \o f
            BY <2>4, Zenon DEF ResetAppInner
        <3>3. f \in Seq(GoodTask) /\ \A i \in 1 .. Len(f) : f[i].owner \in Owners
            BY <3>1, <3>2, RelativeTasksGood, Zenon DEF TInv
        <3>4. f \in [1 .. Len(f) -> PlainTasks] /\ Len(f) \in Nat
            BY <3>3, OwnedIsPlain
        <3>5. f \in Seq(PlainTasks)
            BY <3>4
        <3>. QED  BY <2>1, <2>4, <3>2, <3>5, Zenon DEF QueueMoves, ResetAppInner
    <2>. QED  BY <1>7, <2>3, <2>4 DEF RunTask
<1>8. ASSUME \/ Tick \/ Subscribe \/ RefreshResourceRecord \/ DumpResetAllResource
             \/ \E t \in timers : ResetTimeOutResource(t[1], t[2])
             \/ \E o \in Owners, K \in SUBSET Kinds : DumpResetResource(o, K)
      PROVE  UNCHANGED <<queue, depends, restored>>
    BY <1>8, Zenon DEF Tick, Subscribe, RefreshResourceRecord, DumpResetAllResource,
                ResetTimeOutResource, DumpResetResource
<1>. QED  BY <1>1, <1>2, <1>3, <1>5, <1>6, <1>7, <1>8

\* The service starts once as long as no system ability goes away.
LEMMA StartsOnceStep ==
    ASSUME "ability" \notin Faults, TInv, TInv', StartsOnce, [Next]_vars
    PROVE  StartsOnce'
<1>0. queue \in Seq(GoodTask)
    BY Zenon DEF TInv
<1>1. ASSUME QueueMoves(queue, queue'), UNCHANGED <<depends, restored>>,
             watching' => restored
      PROVE  StartsOnce'
    <2>1. Once(queue') /\ (Has(queue') => Has(queue))
        BY <1>0, <1>1, QueueMovesOnce, Zenon DEF StartsOnce
    <2>. QED  BY <1>1, <2>1 DEF StartsOnce, Once, Has
<1>2. CASE OnAddSystemAbility
    <2>1. ~depends /\ depends' /\ UNCHANGED <<restored, watching>> /\ ~restored /\ ~Has(queue)
        BY <1>2, Zenon DEF OnAddSystemAbility, histories, StartsOnce
    <2>2. /\ queue' = Append(queue, InitTask) /\ Len(queue) \in Nat
          /\ Len(queue') = Len(queue) + 1
          /\ \A i \in 1 .. Len(queue) : queue'[i] = queue[i]
        <3>1. queue' = Append(queue, InitTask)
            BY <1>2, Zenon DEF OnAddSystemAbility
        <3>2. queue \in Seq(GoodTask)
            BY Zenon DEF TInv
        <3>. QED  BY <3>1, <3>2
    <2>3. \A i \in 1 .. Len(queue') : queue'[i] = InitTask => i = Len(queue')
        BY <2>1, <2>2 DEF Has
    <2>4. Once(queue')
        BY <2>3, Zenon DEF Once
    <2>. QED  BY <2>1, <2>4 DEF StartsOnce, Once, Has
<1>3. CASE InitNecessaryState
    <2>1. Has(queue)
        <3>1. queue # <<>> /\ Head(queue) = InitTask
            BY <1>3, Zenon DEF InitNecessaryState
        <3>2. 1 \in 1 .. Len(queue) /\ queue[1] = InitTask
            BY <1>0, <3>1, SMTT(30)
        <3>. QED  BY <3>2, SMTT(30) DEF Has
    <2>2. Once(queue') /\ ~Has(queue') /\ depends' = depends /\ restored'
        BY <1>0, <1>3, StartIsTaken, Zenon DEF InitNecessaryState, StartsOnce
    <2>. QED  BY <2>1, <2>2, Zenon DEF StartsOnce, Once, Has
<1>4. CASE ServiceEnds
    <2>1. queue' = <<>> /\ ~restored' /\ ~watching'
        BY <1>4, Zenon DEF ServiceEnds
    <2>. QED  BY <2>1 DEF StartsOnce, Once, Has
<1>5. CASE UNCHANGED vars
    BY <1>5, Zenon DEF vars, serviceVars, histories, StartsOnce, Once, Has
<1>6. ASSUME \/ \E p \in Pids : Calls(p) \/ Posts(p)
             \/ Processes \/ \E u \in Uids : PackageRemoved(u)
      PROVE  StartsOnce'
    BY <1>1, <1>6, QueueSteps, QuietSteps, Zenon DEF Quiet, StartsOnce
<1>7. ASSUME \/ RunTask \/ \E t \in timers : ResetTimeOutResource(t[1], t[2])
             \/ Tick \/ Subscribe \/ RefreshResourceRecord \/ DumpResetAllResource
             \/ \E o \in Owners, K \in SUBSET Kinds : DumpResetResource(o, K)
      PROVE  StartsOnce'
    <2>1. QueueMoves(queue, queue') /\ UNCHANGED <<depends, restored>>
        BY <1>7, QueueSteps, Zenon
    <2>2. watching' => restored
        BY <1>7, Zenon DEF StartsOnce, RunTask, ApplyEfficiencyResourcesInner, ResetProcessInner,
                    ResetAppInner, ResetTimeOutResource, Tick, Subscribe, histories,
                    RefreshResourceRecord, DumpResetAllResource, DumpResetResource
    <2>. QED  BY <1>1, <2>1, <2>2
<1>. QED  BY <1>2, <1>3, <1>4, <1>5, <1>6, <1>7
       DEF Next, Runner, Service, ServiceCrash, Reboot, OnRemoveSystemAbility

\* A step tells the subscriber what it changes.
LEMMA SeesStep ==
    ASSUME TInv, BitsMatchUnits, StartsOnce, "ability" \notin Faults,
           SubscriberSeesAll, [Next]_vars
    PROVE  SubscriberSeesAll'
<1>1. \A o \in Owners : Sound(rec[o]) /\ rec[o] \in Record
    BY Zenon DEF BitsMatchUnits, Sound, TInv, RecordsTyped
<1>2. ASSUME UNCHANGED <<rec, view, watching>> PROVE SubscriberSeesAll'
    BY <1>2, Zenon DEF SubscriberSeesAll
<1>3. ASSUME NEW o \in Owners, NEW K \in SUBSET Kinds, K \subseteq rec[o].bits, Resets(o, K)
      PROVE  SubscriberSeesAll'
    <2>1. Erased(rec[o], K).bits = rec[o].bits \ K
        BY ZenonT(30), <1>1, <1>3, ErasedSound
    <2>. QED  BY <1>3, <2>1, Zenon DEF Resets, SubscriberSeesAll, TInv, RecordsTyped, RestTyped
<1>4. ASSUME \/ queue # <<>> /\ (ResetProcessInner(Head(queue)) \/ ResetAppInner(Head(queue)))
             \/ \E o \in Owners, K \in SUBSET Kinds : DumpResetResource(o, K)
      PROVE  SubscriberSeesAll'
    BY <1>3, <1>4, ResetSteps, Zenon
<1>5. ASSUME queue # <<>>, ApplyEfficiencyResourcesInner(Head(queue))
      PROVE  SubscriberSeesAll'
    <2> DEFINE t == Head(queue)
               a == Applied(rec[t.owner], t.bits, t.persist, clock + t.timeout, t.level)
    <2>1. t \in GoodTask
        BY <1>5, HeadIsGood, Zenon DEF TInv
    <2>2. t.owner \in Owners
        BY <2>1, <1>5, Zenon DEF ApplyEfficiencyResourcesInner, GoodTask, Task
    <2>3. a.bits = rec[t.owner].bits \cup NewKinds(rec[t.owner], t.bits)
        BY Zenon DEF Applied, NewKinds
    <2>4. /\ rec' = [rec EXCEPT ![t.owner] = a] /\ watching' = watching
          /\ view' = IF watching
                     THEN [view EXCEPT ![t.owner] = @ \cup NewKinds(rec[t.owner], t.bits)]
                     ELSE view
        BY <1>5, ZenonT(30) DEF ApplyEfficiencyResourcesInner, NotifyApply
    <2> HIDE DEF a
    <2>. QED  BY <2>2, <2>3, <2>4, Zenon DEF SubscriberSeesAll, TInv, RecordsTyped, RestTyped
<1>6. ASSUME NEW t \in timers, ResetTimeOutResource(t[1], t[2])
      PROVE  SubscriberSeesAll'
    <2>1. t[1] \in Owners
        BY Zenon DEF TInv, RestTyped
    <2>2. TimedOut(rec[t[1]], clock) \in SUBSET rec[t[1]].bits
        BY <1>1, <2>1, TimedOutWithin, Zenon
    <2>3. rec[t[1]].bits \subseteq Kinds
        BY <1>1, <2>1, Zenon DEF Record
    <2>4. Resets(t[1], TimedOut(rec[t[1]], clock))
        BY <1>6, Zenon DEF ResetTimeOutResource, NotifyReset, Resets, outside, serviceVars
    <2>. QED  BY <1>3, <2>1, <2>2, <2>3, <2>4, Zenon
<1>7. ASSUME InitNecessaryState \/ ServiceEnds
      PROVE  SubscriberSeesAll'
    <2>1. CASE InitNecessaryState
        <3>1. queue # <<>> /\ Head(queue) = InitTask /\ watching' = watching
            BY <2>1, Zenon DEF InitNecessaryState
        <3>2. 1 \in 1 .. Len(queue) /\ queue[1] = InitTask
            BY <3>1 DEF TInv
        <3>3. ~watching
            BY <3>2, Zenon DEF StartsOnce, Has
        <3>. QED  BY <3>1, <3>3 DEF SubscriberSeesAll
    <2>2. CASE ServiceEnds
        BY <2>2, Zenon DEF ServiceEnds, SubscriberSeesAll
    <2>. QED  BY <1>7, <2>1, <2>2
<1>8. ASSUME DumpResetAllResource PROVE SubscriberSeesAll'
    <2>1. /\ rec' = NoRecords /\ watching' = watching
          /\ watching => view' = [o \in Owners |-> view[o] \ rec[o].bits]
        BY <1>8, Zenon DEF DumpResetAllResource
    <2>2. \A o \in Owners : NoRecords[o].bits = {}
        BY Zenon DEF NoRecords, NoRecord
    <2>. QED  BY <2>1, <2>2, Zenon DEF SubscriberSeesAll
<1>9. ASSUME Subscribe PROVE SubscriberSeesAll'
    BY <1>9, Zenon DEF Subscribe, SubscriberSeesAll
<1>10. ASSUME RefreshResourceRecord \/ Tick PROVE SubscriberSeesAll'
    BY <1>2, <1>10, Zenon DEF RefreshResourceRecord, Tick, histories
<1>11. CASE Next
    <2>1. CASE Runner
        BY <2>1, <1>4, <1>5, <1>6, <1>7, <1>10, Zenon DEF Runner, RunTask
    <2>2. CASE Service
        BY <2>2, <1>2, <1>7, QuietSteps, Zenon DEF Service, ServiceCrash, Reboot, Quiet
    <2>. QED  BY <1>11, <2>1, <2>2, <1>2, <1>4, <1>8, <1>9, <1>10, QuietSteps DEF Next, Quiet
<1>12. CASE UNCHANGED vars
    BY <1>2, <1>12, Zenon DEF vars, histories
<1>. QED  BY <1>11, <1>12

\* As long as the system abilities stay and the service does not start in the
\* first minutes of the device, a subscriber that has asked for the records always
\* knows what is in force (OnResourceChanged at every change of the records).
THEOREM SubscriberAlwaysSeesAll ==
    ASSUME EarlyBoot = 0, "ability" \notin Faults
    PROVE  Spec => []SubscriberSeesAll
<1>1. Init => BitsMatchUnits /\ StartsOnce /\ SubscriberSeesAll
    <2>1. Init => \A o \in Owners : Sound(rec[o]) /\ Sound(disk[o])
        BY NoRecordFacts DEF Init, NoRecords
    <2>2. Init => StartsOnce /\ SubscriberSeesAll
        BY DEF Init, StartsOnce, SubscriberSeesAll, Once, Has
    <2>. QED  BY <2>1, <2>2 DEF BitsMatchUnits, Sound
<1>2. TInv /\ BitsMatchUnits /\ StartsOnce /\ SubscriberSeesAll /\ [Next]_vars
          => TInv' /\ BitsMatchUnits' /\ StartsOnce' /\ SubscriberSeesAll'
    BY TypeStep, BitsStep, StartsOnceStep, SeesStep, Zenon
<1>. QED  BY <1>1, <1>2, TypeInit, PTL DEF Spec

-----------------------------------------------------------------------------
(* StartRestoresKept.                                                      *)

\* Until InitNecessaryState has restored the records, there are none, and
\* nothing is posted that would change them.
Asleep ==
    /\ rec = NoRecords /\ timers = {} /\ saving = "no" /\ ~ready
    /\ \A p \in Pids : call[p].bits = {}
    /\ \A i \in 1 .. Len(queue) : queue[i] = InitTask

SleepsFirst == ~restored => Asleep

\* A start of the service is no task of the runner's (RunTask).
LEMMA StartIsNoTask ==
    ASSUME RunTask
    PROVE  Head(queue) # InitTask
<1>1. "init" \notin Pids /\ "init" \notin Uids
    BY ResourcesAssumption, Zenon
<1>2. InitTask.owner = "init" /\ ~InitTask.apply
    BY Zenon DEF InitTask, ResetTask
<1>3. Head(queue).apply \/ Head(queue).owner \in Pids \/ Head(queue).owner \in Uids
    BY Zenon DEF RunTask, ApplyEfficiencyResourcesInner, ResetProcessInner, ResetAppInner
<1>. QED  BY <1>1, <1>2, <1>3, Zenon

\* A step keeps the service asleep, or restores the records.
LEMMA SleepsStep ==
    ASSUME TInv, SleepsFirst, [Next]_vars
    PROVE  SleepsFirst'
<1> SUFFICES ASSUME ~restored' PROVE Asleep'
    BY Zenon DEF SleepsFirst
<1> USE DEF Asleep
<1>0. queue \in Seq(GoodTask)
    BY Zenon DEF TInv
<1>1. CASE ServiceEnds
    <2>1. /\ rec' = NoRecords /\ timers' = {} /\ saving' = "no" /\ ~ready'
          /\ call' = [p \in Pids |-> NoCall] /\ queue' = <<>>
        BY <1>1, Zenon DEF ServiceEnds
    <2>2. \A p \in Pids : call'[p].bits = {}
        BY <2>1, Zenon DEF NoCall
    <2>. QED  BY <2>1, <2>2
<1>2. ASSUME UNCHANGED <<rec, timers, saving, ready, call, queue, restored>>
      PROVE  Asleep'
    BY <1>2, Zenon DEF SleepsFirst
<1>3. ASSUME NEW p \in Pids, Calls(p)
      PROVE  Asleep'
    <2>1. ASSUME NEW asked, NEW q, ApplyEfficiencyResources(p, asked, q)
          PROVE  ready /\ restored' = restored
        BY <2>1, Zenon DEF ApplyEfficiencyResources, serviceVars
    <2>2. ASSUME ResetAllEfficiencyResources(p)
          PROVE  ready /\ restored' = restored
        BY <2>2, Zenon DEF ResetAllEfficiencyResources, serviceVars
    <2>3. ready /\ restored' = restored
        BY <1>3, <2>1, <2>2, Zenon DEF Calls
    <2>. QED  BY <2>3, SMTT(30) DEF SleepsFirst
<1>4. ASSUME NEW p \in Pids, Posts(p)
      PROVE  Asleep'
    BY <1>4, Zenon DEF Posts, SendProcessPart, SendAppPart, serviceVars, SleepsFirst
<1>5. CASE Processes
    <2>1. CASE \E p \in Pids : StartProcess(p) \/ ProcessDies(p)
        BY <1>2, <2>1, Zenon DEF StartProcess, ProcessDies, serviceVars
    <2>2. ASSUME NEW o \in Owners, RemoveDeadRecord(o) PROVE Asleep'
        <3>1. /\ rec' = rec /\ timers' = timers /\ saving' = saving /\ ready' = ready
              /\ call' = call /\ restored' = restored
              /\ ready \/ queue' = queue
            BY <2>2, Zenon DEF RemoveDeadRecord, RemoveRecord, serviceVars
        <3>2. ~ready
            BY <3>1, ZenonT(30) DEF SleepsFirst
        <3>. QED  BY <1>2, <3>1, <3>2, Zenon
    <2>. QED  BY <1>5, <2>1, <2>2, ZenonT(30) DEF Processes
<1>6. ASSUME NEW u \in Uids, PackageRemoved(u)
      PROVE  Asleep'
    BY <1>2, <1>6, ZenonT(30) DEF PackageRemoved, RemoveRecord, serviceVars, SleepsFirst
<1>7. CASE RunTask
    <2>1. restored' = restored
        BY <1>7, Zenon DEF RunTask, ApplyEfficiencyResourcesInner, ResetProcessInner, ResetAppInner,
                    serviceVars
    <2>2. queue # <<>> /\ Head(queue) # InitTask
        BY <1>7, StartIsNoTask, Zenon DEF RunTask
    <2>3. 1 \in 1 .. Len(queue) /\ Head(queue) = queue[1]
        BY <1>0, <2>2, SMTT(30)
    <2>. QED  BY <2>1, <2>2, <2>3, Zenon DEF SleepsFirst
<1>8. CASE OnAddSystemAbility
    <2>1. /\ UNCHANGED <<rec, timers, saving, ready, call, restored>>
          /\ queue' = Append(queue, InitTask)
        BY <1>8, Zenon DEF OnAddSystemAbility
    <2>2. /\ Len(queue') = Len(queue) + 1 /\ Len(queue) \in Nat
          /\ \A i \in 1 .. Len(queue') : queue'[i] = IF i <= Len(queue) THEN queue[i]
                                                    ELSE InitTask
        BY <1>0, <2>1
    <2>3. \A i \in 1 .. Len(queue') : queue'[i] = InitTask
        BY <2>1, <2>2, SMTT(30) DEF SleepsFirst
    <2>. QED  BY <2>1, <2>3 DEF SleepsFirst
<1>9. CASE OnRemoveSystemAbility
    BY <1>9, Zenon DEF OnRemoveSystemAbility, SleepsFirst
<1>10. ASSUME NEW t \in timers, ResetTimeOutResource(t[1], t[2])
       PROVE  Asleep'
    BY <1>10, Zenon DEF ResetTimeOutResource, serviceVars, SleepsFirst
<1>11. CASE InitNecessaryState
    BY <1>11, Zenon DEF InitNecessaryState
<1>12. CASE \/ RefreshResourceRecord \/ Tick \/ Subscribe \/ DumpResetAllResource
            \/ \E o \in Owners, K \in SUBSET Kinds : DumpResetResource(o, K)
    BY <1>2, <1>12, Zenon DEF RefreshResourceRecord, Tick, Subscribe, DumpResetAllResource,
                       DumpResetResource, serviceVars, SleepsFirst
<1>13. CASE UNCHANGED vars
    BY <1>2, <1>13, Zenon DEF vars
<1>. QED  BY Zenon, <1>1, <1>3, <1>4, <1>5, <1>6, <1>7, <1>8, <1>9, <1>10, <1>11, <1>12, <1>13
       DEF Next, Runner, Service, ServiceCrash, Reboot

\* The service is asleep at first.
LEMMA SleepsInit == Init => SleepsFirst
<1> SUFFICES ASSUME Init PROVE Asleep
    BY Zenon DEF SleepsFirst
<1>1. rec = NoRecords /\ timers = {} /\ saving = "no" /\ ~ready /\ queue = <<>>
    BY Zenon DEF Init
<1>2. call = [p \in Pids |-> NoCall]
    BY Zenon DEF Init
<1>3. \A p \in Pids : call[p].bits = {}
    BY <1>2, Zenon DEF NoCall
<1>. QED  BY <1>1, <1>3 DEF Asleep

\* Only InitNecessaryState restores the records.
LEMMA OnlyStartRestores ==
    ASSUME TInv, TInv', [Next]_vars, ~restored, restored'
    PROVE  InitNecessaryState
<1>1. ASSUME ServiceEnds PROVE FALSE
    BY <1>1, Zenon DEF ServiceEnds
<1>2. ASSUME \/ \E p \in Pids : Calls(p) \/ Posts(p)
             \/ Processes \/ OnAddSystemAbility \/ OnRemoveSystemAbility
             \/ \E u \in Uids : PackageRemoved(u)
      PROVE  FALSE
    BY <1>2, QuietSteps, Zenon DEF Quiet
<1>3. ASSUME \/ RunTask \/ \E t \in timers : ResetTimeOutResource(t[1], t[2])
             \/ Tick \/ Subscribe \/ RefreshResourceRecord \/ DumpResetAllResource
             \/ \E o \in Owners, K \in SUBSET Kinds : DumpResetResource(o, K)
      PROVE  FALSE
    BY <1>3, QueueSteps, Zenon
<1>4. ASSUME UNCHANGED vars PROVE FALSE
    BY <1>4, Zenon DEF vars
<1>. QED  BY <1>1, <1>2, <1>3, <1>4 DEF Next, Runner, Service, ServiceCrash, Reboot

\* What a start restores of the kinds that outlive their application.
LEMMA RestoresKept ==
    ASSUME TInv, SleepsFirst, "connect" \notin Faults, InitNecessaryState, ~restored,
           NEW u \in Uids
    PROVE  disk[u].bits \cap Kept \subseteq rec'[u].bits
<1>1. rec' = RecoveredRecords /\ u \in Owners /\ rec[u] = NoRecord
    BY Zenon DEF InitNecessaryState, SleepsFirst, Asleep, NoRecords, Owners
<1>2. RestoreResourceRecord[u] = disk[u]
    BY <1>1 DEF RestoreResourceRecord, NoRecord
<1>3. CheckPersistenceData(RestoreResourceRecord)[u] = RunningApp(disk[u], Running(u))
    BY <1>1, <1>2, Zenon DEF CheckPersistenceData
<1>4. RunningApp(disk[u], Running(u)) = disk[u] \/ disk[u].bits \cap Kept = {}
    BY Zenon DEF RunningApp
<1>5. disk[u] \in Record
    BY <1>1, Zenon DEF TInv, RecordsTyped
<1>6. RecoveredRecords[u] \in {RunningApp(disk[u], Running(u)),
                               RecoverResourceNumber(RunningApp(disk[u], Running(u)))}
    BY <1>1, <1>3, ZenonT(30) DEF RecoveredRecords
<1>7. CASE RunningApp(disk[u], Running(u)) = disk[u]
    <2>1. disk[u].bits \cap Kept \subseteq RecoverResourceNumber(disk[u]).bits
        BY <1>5, Zenon DEF RecoverResourceNumber, Record
    <2>. QED  BY <1>1, <1>6, <1>7, <2>1
<1>. QED  BY <1>4, <1>7

\* As long as connecting to the application manager succeeds, the first start
\* after the end of the service brings back what was saved of the kinds that
\* outlive their application, however early after the start of the device
\* (HandlePersistenceData, CheckPersistenceData, RecoverResourceNumber).
THEOREM StartAlwaysRestoresKept ==
    ASSUME "connect" \notin Faults
    PROVE  Spec => StartRestoresKept
<1>1. TInv /\ SleepsFirst /\ [Next]_vars => TInv' /\ SleepsFirst'
    BY TypeStep, SleepsStep, Zenon
<1>2. TInv /\ TInv' /\ SleepsFirst /\ [Next]_vars =>
          [~restored /\ restored' =>
              \A u \in Uids : disk[u].bits \cap Kept \subseteq rec'[u].bits]_vars
    BY OnlyStartRestores, RestoresKept, Zenon
<1>. QED  BY <1>1, <1>2, TypeInit, SleepsInit, PTL DEF Spec, StartRestoresKept

-----------------------------------------------------------------------------
(* KeepsPromises.                                                          *)

\* Until when one record holds each kind: Until(R)[o] is UntilOf(R[o]).
UntilOf(r) == [k \in Kinds |-> IF k \notin r.bits THEN 0
                               ELSE IF r.units[k].persist THEN Forever ELSE r.units[k].end]

\* The time that stands for ever is later than those that are asked for.
InTime == clock < Forever /\ \A n \in Timeouts : clock + n < Forever

\* So is every end in a record.
EndsInTime == \A o \in Owners : EndsBefore(rec[o], Forever) /\ EndsBefore(disk[o], Forever)

\* The mapping, owner by owner.
LEMMA UntilPointwise ==
    ASSUME NEW R
    PROVE  Until(R) = [o \in Owners |-> UntilOf(R[o])]
BY Zenon DEF Until, UntilOf

\* A record that is not there holds nothing.
LEMMA NoRecordUntil == UntilOf(NoRecord) = [k \in Kinds |-> 0]
BY Zenon DEF UntilOf, NoRecord

\* Until when a unit that is on holds, and any unit.
OnUntil(v) == IF v.persist THEN Forever ELSE v.end

UnitUntil(u) == IF ~u.on THEN 0 ELSE OnUntil(u)

\* A unit that is extended (UpdateResourcesEndtime) ends at the later of the two
\* times, and never once it is permanent.
LEMMA ExtendedUntil ==
    ASSUME NEW u \in Unit, NEW persist \in BOOLEAN, NEW end \in Nat, Forever \in Nat,
           u.end < Forever, end < Forever, NEW v, v = ExtendUnit(u, persist, end),
           NEW e, e = IF persist THEN Forever ELSE end
    PROVE  OnUntil(v) = Grants!Max2(UnitUntil(u), e)
<1> USE DEF OnUntil, UnitUntil
<1>1. u.end \in Nat /\ u.on \in BOOLEAN /\ u.persist \in BOOLEAN
    BY Zenon DEF Unit
<1>2. CASE persist \/ (u.on /\ u.persist)
    <2>1. v = [on |-> TRUE, persist |-> TRUE, end |-> 0]
        BY <1>2, Zenon DEF ExtendUnit
    <2>2. v.persist
        BY <2>1
    <2>. QED  BY <1>1, <1>2, <2>2 DEF Grants!Max2
<1>3. CASE ~(persist \/ (u.on /\ u.persist))
    <2>1. v = [on |-> TRUE, persist |-> FALSE, end |-> IF u.on THEN Later(u.end, end) ELSE end]
        BY <1>3, Zenon DEF ExtendUnit
    <2>2. ~v.persist /\ v.end = IF u.on THEN Later(u.end, end) ELSE end
        BY <2>1
    <2>. QED  BY <1>1, <1>3, <2>2 DEF Grants!Max2, Later
<1>. QED  BY <1>2, <1>3

\* Applying extends what the record holds of the kinds asked for, and nothing else
\* (ApplyEfficiencyResourcesInner).
LEMMA AppliedUntil ==
    ASSUME NEW r \in Record, NEW K \in SUBSET Kinds, NEW persist, persist \in BOOLEAN,
           NEW end \in Nat, NEW level \in Levels, Forever \in Nat, Sound(r),
           EndsBefore(r, Forever), end < Forever
    PROVE  UntilOf(Applied(r, K, persist, end, level)) =
               [k \in Kinds |-> IF k \in K
                                THEN Grants!Max2(UntilOf(r)[k], IF persist THEN Forever ELSE end)
                                ELSE UntilOf(r)[k]]
<1> DEFINE a == Applied(r, K, persist, end, level)
           e == IF persist THEN Forever ELSE end
<1>1. a.bits = r.bits \cup K /\ a.units = UpdateResourcesEndtime(r.units, K, persist, end)
    BY Zenon DEF Applied
<1>2. \A k \in Kinds : UntilOf(a)[k] = IF k \in K THEN Grants!Max2(UntilOf(r)[k], e)
                                       ELSE UntilOf(r)[k]
    <2> TAKE k \in Kinds
    <2>1. /\ r.units[k] \in Unit /\ r.units[k].end < Forever
          /\ r.units[k].on <=> k \in r.bits
        BY Zenon DEF Record, EndsBefore, Sound, Listed
    <2>2. UntilOf(r)[k] = IF ~r.units[k].on THEN 0
                          ELSE IF r.units[k].persist THEN Forever ELSE r.units[k].end
        BY <2>1, Zenon DEF UntilOf
    <2>3. CASE k \in K
        <3>1. a.units[k] = ExtendUnit(r.units[k], persist, end) /\ k \in a.bits
            BY <1>1, <2>3, Zenon DEF UpdateResourcesEndtime
        <3>2. UntilOf(a)[k] = IF a.units[k].persist THEN Forever ELSE a.units[k].end
            BY <3>1, Zenon DEF UntilOf
        <3> HIDE DEF a
        <3> DEFINE u == r.units[k]
                   v == a.units[k]
        <3>3. u \in Unit /\ u.end < Forever /\ v = ExtendUnit(u, persist, end)
            BY <2>1, <3>1, Zenon
        <3>4. UntilOf(r)[k] = UnitUntil(u)
            BY <2>2, Zenon DEF UnitUntil, OnUntil
        <3>5. UntilOf(a)[k] = OnUntil(v)
            BY <3>2, Zenon DEF OnUntil
        <3> HIDE DEF u, v
        <3>6. OnUntil(v) = Grants!Max2(UnitUntil(u), e)
            BY <3>3, ExtendedUntil, ZenonT(30)
        <3>. QED  BY <2>3, <3>4, <3>5, <3>6, Zenon
    <2>4. CASE k \notin K
        BY <1>1, <2>4, Zenon DEF UntilOf, UpdateResourcesEndtime
    <2>. QED  BY <2>3, <2>4
<1> HIDE DEF a, e
<1>3. UntilOf(a) = [k \in Kinds |-> UntilOf(a)[k]]
    BY Zenon DEF UntilOf
<1>. QED  BY <1>2, <1>3 DEF a, e

\* A reset of bits that are set ends what they hold, and nothing else
\* (RemoveTargetResourceRecord, ResetTimeOutResource).
LEMMA ErasedUntil ==
    ASSUME NEW r \in Record, NEW K \in SUBSET r.bits, Sound(r)
    PROVE  UntilOf(Erased(r, K)) =
               [k \in Kinds |-> IF k \in K THEN 0 ELSE UntilOf(r)[k]]
<1> DEFINE e == Erased(r, K)
<1>1. e.bits = r.bits \ K
    BY ErasedSound, Zenon
<1>2. \A k \in e.bits : e.units[k] = r.units[k] /\ k \notin K
    <2>1. CASE K = {} \/ Xor(r.bits, K) = {}
        BY <1>1, <2>1, Zenon DEF Erased, Xor
    <2>2. CASE K # {} /\ Xor(r.bits, K) # {}
        <3>1. e.units = RemoveListRecord(r.units, K)
            BY <2>2, Zenon DEF Erased, Record
        <3>. QED  BY <1>1, <3>1 DEF RemoveListRecord, Record
    <2>. QED  BY <2>1, <2>2
<1> HIDE DEF e
<1>3. \A k \in Kinds : UntilOf(e)[k] = IF k \in K THEN 0 ELSE UntilOf(r)[k]
    BY <1>1, <1>2, Zenon DEF UntilOf
<1>4. UntilOf(e) = [k \in Kinds |-> UntilOf(e)[k]]
    BY Zenon DEF UntilOf
<1>. QED  BY <1>3, <1>4 DEF e

\* What has run out of time by now is what is held until now at most.
LEMMA TimedOutUntil ==
    ASSUME NEW r \in Record, Sound(r), NEW now \in Nat, now < Forever, Forever \in Nat,
           NEW k \in r.bits
    PROVE  k \in TimedOut(r, now) <=> UntilOf(r)[k] <= now
<1>1. k \in Kinds /\ r.units[k] \in Unit /\ r.units[k].on
    BY Zenon DEF Record, Sound, Listed
<1>. QED  BY <1>1 DEF UntilOf, TimedOut, Timed, Unit

\* What is in force.
InForce == IF restored THEN rec ELSE disk

PromiseInv == TInv /\ BitsMatchUnits /\ StartsOnce /\ SleepsFirst /\ EndsInTime

\* R holds nothing of the kinds in S, and the others as long as Q.
Leaves(S, R, Q) ==
    \A o \in Owners, k \in Kinds :
        /\ <<o, k>> \in S => UntilOf(R[o])[k] = 0
        /\ <<o, k>> \notin S => UntilOf(R[o])[k] = UntilOf(Q[o])[k]

\* What is left in force when the kinds in S are withdrawn.
LEMMA WithoutFact ==
    ASSUME NEW S, NEW R, NEW Q, Q = InForce, Leaves(S, R, Q)
    PROVE  Until(R) = Grants!Without(S)
<1> USE DEF Leaves
<1>1. Until(R) = [o \in Owners |-> [k \in Kinds |-> UntilOf(R[o])[k]]]
    BY UntilPointwise, Zenon DEF UntilOf
<1>2. \A o \in Owners, k \in Kinds : Until(Q)[o][k] = UntilOf(Q[o])[k]
    BY UntilPointwise, Zenon
<1>3. Grants!Without(S) = [o \in Owners |-> [k \in Kinds |->
                              IF <<o, k>> \in S THEN 0 ELSE Until(Q)[o][k]]]
    BY Zenon DEF Grants!Without, InForce
<1>. QED  BY <1>1, <1>2, <1>3, SMTT(30)

\* A step that leaves the records alone is no step of ResourceGrants.
LEMMA QuietPromise ==
    ASSUME UNCHANGED <<rec, disk, clock, restored, last>>
    PROVE  UNCHANGED Grants!gvars
BY Zenon DEF Grants!gvars

\* An application is a promise.
LEMMA ApplyPromises ==
    ASSUME PromiseInv, InTime, queue # <<>>, ApplyEfficiencyResourcesInner(Head(queue)), restored
    PROVE  Grants!Promise
<1> DEFINE t == Head(queue)
           e == IF t.persist THEN Forever ELSE clock + t.timeout
           a == Applied(rec[t.owner], t.bits, t.persist, clock + t.timeout, t.level)
<1>1. t \in GoodTask
    BY HeadIsGood, Zenon DEF PromiseInv, TInv
<1>2. /\ t.owner \in Owners /\ t.bits \in SUBSET Kinds /\ t.persist \in BOOLEAN
      /\ t.level \in Levels /\ t.timeout \in Timeouts \cup {0} /\ t.timeout \in Nat
      /\ t.persist \/ t.timeout # 0
    BY <1>1, ZenonT(30) DEF ApplyEfficiencyResourcesInner, GoodTask, Task, Timely
<1>3. clock \in Nat \ {0} /\ Forever \in Nat /\ clock < Forever /\ clock + t.timeout < Forever
    BY <1>2, ResourcesAssumption, SMTT(30) DEF PromiseInv, TInv, RestTyped, InTime
<1>4. e \in 1 .. Forever /\ e > clock
    BY <1>2, <1>3
<1>5. /\ rec' = [rec EXCEPT ![t.owner] = a]
      /\ disk' = disk /\ clock' = clock /\ last' = "apply" /\ restored' = restored
    BY Zenon DEF ApplyEfficiencyResourcesInner, serviceVars, outside
<1>6. /\ rec \in [Owners -> Record] /\ Sound(rec[t.owner])
      /\ EndsBefore(rec[t.owner], Forever)
    BY <1>2, Zenon DEF PromiseInv, TInv, RecordsTyped, BitsMatchUnits, Sound, EndsInTime
<1> HIDE DEF t
<1>7. UntilOf(a) = [k \in Kinds |-> IF k \in t.bits THEN Grants!Max2(UntilOf(rec[t.owner])[k], e)
                                    ELSE UntilOf(rec[t.owner])[k]]
    <2>1. clock + t.timeout \in Nat /\ rec[t.owner] \in Record
        <3>1. clock \in Nat /\ t.timeout \in Nat
            BY <1>2, <1>3, Zenon
        <3>2. clock + t.timeout \in Nat
            BY <3>1, SumIsNat, Zenon
        <3>3. rec[t.owner] \in Record
            BY <1>2, <1>6, Zenon
        <3>. QED  BY <3>2, <3>3, Zenon
    <2> DEFINE r == rec[t.owner]
               K == t.bits
               persist == t.persist
               end == clock + t.timeout
               level == t.level
    <2>2. /\ r \in Record /\ K \in SUBSET Kinds /\ persist \in BOOLEAN /\ end \in Nat
          /\ level \in Levels /\ Forever \in Nat /\ Sound(r) /\ EndsBefore(r, Forever)
          /\ end < Forever
        BY Zenon, <1>2, <1>3, <1>6, <2>1
    <2> HIDE DEF r, K, persist, end, level
    <2>3. UntilOf(Applied(r, K, persist, end, level)) =
               [k \in Kinds |-> IF k \in K
                                THEN Grants!Max2(UntilOf(r)[k], IF persist THEN Forever ELSE end)
                                ELSE UntilOf(r)[k]]
        BY <2>2, AppliedUntil
    <2>. QED  BY <2>3, Zenon DEF r, K, persist, end, level
<1> HIDE DEF a, e
<1> DEFINE B == IF restored THEN rec ELSE disk
           C == IF restored' THEN rec' ELSE disk'
<1>8. B = rec /\ C = rec'
    BY <1>5, Zenon
<1> HIDE DEF B, C
<1>9. Until(C) = [Until(B) EXCEPT ![t.owner] =
                     [k \in Kinds |-> IF k \in t.bits THEN Grants!Max2(Until(B)[t.owner][k], e)
                                      ELSE Until(B)[t.owner][k]]]
    <2>1. Until(B) = [o \in Owners |-> UntilOf(B[o])] /\ Until(C) = [o \in Owners |-> UntilOf(C[o])]
        BY UntilPointwise, Zenon
    <2>2. C[t.owner] = a /\ \A o \in Owners : o # t.owner => C[o] = B[o]
        BY Zenon, <1>2, <1>5, <1>6, <1>8
    <2>3. UntilOf(a) = [k \in Kinds |-> IF k \in t.bits THEN Grants!Max2(UntilOf(B[t.owner])[k], e)
                                        ELSE UntilOf(B[t.owner])[k]]
        BY <1>7, <1>8, Zenon
    <2> DEFINE F == [k \in Kinds |-> IF k \in t.bits THEN Grants!Max2(Until(B)[t.owner][k], e)
                                      ELSE Until(B)[t.owner][k]]
    <2>4. UntilOf(a) = F
        BY <1>2, <2>1, <2>3, Zenon
    <2> HIDE DEF F
    <2>5. \A o \in Owners : Until(C)[o] = UntilOf(C[o]) /\ Until(B)[o] = UntilOf(B[o])
        BY <2>1, Zenon
    <2>6. Until(C)[t.owner] = F
        BY <1>2, <2>2, <2>4, <2>5, Zenon
    <2>7. \A o \in Owners : o # t.owner => Until(C)[o] = Until(B)[o]
        BY <2>2, <2>5, Zenon
    <2>8. Until(B) = [o \in Owners |-> Until(B)[o]] /\ Until(C) = [o \in Owners |-> Until(C)[o]]
        BY <2>1, Zenon
    <2>9. Until(C) = [Until(B) EXCEPT ![t.owner] = F]
        BY <2>6, <2>7, <2>8, ExceptPointwise, Zenon
    <2>. QED  BY <2>9, Zenon DEF F
<1>10. \E o \in Owners, K \in SUBSET Kinds, d \in 1 .. Forever :
          /\ d > clock
          /\ Until(C) = [Until(B) EXCEPT ![o] =
                            [k \in Kinds |-> IF k \in K THEN Grants!Max2(Until(B)[o][k], d)
                                             ELSE Until(B)[o][k]]]
    BY <1>2, <1>4, <1>9, ZenonT(30)
<1>11. UNCHANGED <<Until(disk), clock>> /\ last' = "apply"
    BY <1>5, Zenon
<1>. QED  BY <1>10, <1>11, Zenon DEF Grants!Promise, B, C

\* A reset of bits that are set withdraws them.
LEMMA ResetWithdraws ==
    ASSUME PromiseInv, restored, NEW o \in Owners, NEW K \in SUBSET Kinds,
           K \subseteq rec[o].bits, Resets(o, K), last' = "reset"
    PROVE  Grants!Withdraw
<1>1. rec \in [Owners -> Record] /\ \A p \in Owners : Sound(rec[p])
    BY Zenon DEF PromiseInv, TInv, RecordsTyped, BitsMatchUnits, Sound
<1>2. /\ rec' = [rec EXCEPT ![o] = Erased(rec[o], K)]
      /\ disk' = disk /\ clock' = clock /\ restored'
    BY Zenon DEF Resets
<1>3. \A k \in Kinds : UntilOf(Erased(rec[o], K))[k] = IF k \in K THEN 0 ELSE UntilOf(rec[o])[k]
    <2>1. rec[o] \in Record /\ Sound(rec[o]) /\ K \in SUBSET rec[o].bits
        BY <1>1, Zenon
    <2>2. UntilOf(Erased(rec[o], K)) =
              [k \in Kinds |-> IF k \in K THEN 0 ELSE UntilOf(rec[o])[k]]
        BY <2>1, ErasedUntil, Zenon
    <2>. QED  BY <2>2, Zenon
<1> DEFINE S == {o} \X K
<1>4. \A p \in Owners, k \in Kinds :
          /\ <<p, k>> \in S => UntilOf(rec'[p])[k] = 0
          /\ <<p, k>> \notin S => UntilOf(rec'[p])[k] = UntilOf(rec[p])[k]
    BY <1>1, <1>2, <1>3, Zenon
<1>5. S \in SUBSET (Owners \X Kinds)
    BY Zenon
<1> HIDE DEF S
<1>6. Until(rec') = Grants!Without(S)
    <2>1. rec = InForce
        BY Zenon DEF InForce
    <2>2. Leaves(S, rec', rec)
        BY <1>4, Zenon DEF Leaves
    <2>. QED  BY <2>1, <2>2, WithoutFact, Zenon
<1>7. (IF restored' THEN rec' ELSE disk') = rec'
    BY <1>2, Zenon
<1>. QED  BY <1>2, <1>5, <1>6, <1>7, Zenon DEF Grants!Withdraw

\* So does a dump that resets everything.
LEMMA DumpWithdraws ==
    ASSUME PromiseInv, restored, DumpResetAllResource
    PROVE  Grants!Withdraw
<1>1. rec' = NoRecords /\ disk' = disk /\ clock' = clock /\ restored' /\ last' = "reset"
    BY Zenon DEF DumpResetAllResource, serviceVars, outside
<1>2. \A p \in Owners, k \in Kinds : UntilOf(NoRecords[p])[k] = 0
    BY NoRecordUntil, Zenon DEF NoRecords
<1> DEFINE S == Owners \X Kinds
<1>3. \A p \in Owners, k \in Kinds :
          /\ <<p, k>> \in S => UntilOf(rec'[p])[k] = 0
          /\ <<p, k>> \notin S => UntilOf(rec'[p])[k] = UntilOf(rec[p])[k]
    BY <1>1, <1>2, Zenon
<1>4. S \in SUBSET (Owners \X Kinds)
    BY Zenon
<1> HIDE DEF S
<1>5. Until(rec') = Grants!Without(S)
    <2>1. rec = InForce
        BY Zenon DEF InForce
    <2>2. Leaves(S, rec', rec)
        BY <1>3, Zenon DEF Leaves
    <2>. QED  BY <2>1, <2>2, WithoutFact, Zenon
<1>6. (IF restored' THEN rec' ELSE disk') = rec'
    BY <1>1, Zenon
<1>. QED  BY <1>1, <1>4, <1>5, <1>6, SMTT(30) DEF Grants!Withdraw

\* A delayed reset lets lapse what has run out of time.
LEMMA TimeoutLapses ==
    ASSUME PromiseInv, InTime, restored, NEW o \in Owners, NEW due, ResetTimeOutResource(o, due)
    PROVE  Grants!Lapse
<1>1. /\ rec \in [Owners -> Record] /\ Sound(rec[o])
      /\ clock \in Nat \ {0} /\ Forever \in Nat /\ clock < Forever
    BY Zenon, ResourcesAssumption
       DEF PromiseInv, TInv, RecordsTyped, RestTyped, BitsMatchUnits, Sound, InTime
<1> DEFINE K == TimedOut(rec[o], clock)
           S == {o} \X {k \in Kinds : UntilOf(rec[o])[k] <= clock}
<1>2. /\ rec' = [rec EXCEPT ![o] = Erased(rec[o], K)]
      /\ disk' = disk /\ clock' = clock /\ restored' /\ last' = "timeout"
    BY Zenon DEF ResetTimeOutResource, serviceVars, outside
<1>3. K \in SUBSET rec[o].bits /\ rec[o] \in Record
    BY <1>1, TimedOutWithin, Zenon
<1>4. \A k \in Kinds : k \in K => UntilOf(rec[o])[k] <= clock
    BY <1>1, <1>3, TimedOutUntil, Zenon
<1>5. \A k \in Kinds : k \notin K /\ UntilOf(rec[o])[k] <= clock => UntilOf(rec[o])[k] = 0
    <2> TAKE k \in Kinds
    <2>1. CASE k \in rec[o].bits
        BY ZenonT(30), <1>1, <1>3, <2>1, TimedOutUntil
    <2>2. CASE k \notin rec[o].bits
        BY <2>2, Zenon DEF UntilOf
    <2>. QED  BY <2>1, <2>2, Zenon
<1>6. \A k \in Kinds : UntilOf(Erased(rec[o], K))[k] = IF k \in K THEN 0 ELSE UntilOf(rec[o])[k]
    <2>1. UntilOf(Erased(rec[o], K)) =
              [k \in Kinds |-> IF k \in K THEN 0 ELSE UntilOf(rec[o])[k]]
        BY <1>1, <1>3, ErasedUntil, ZenonT(30)
    <2>. QED  BY <2>1, Zenon
<1> HIDE DEF K
<1>7. \A p \in Owners, k \in Kinds :
          /\ <<p, k>> \in S => UntilOf(rec'[p])[k] = 0
          /\ <<p, k>> \notin S => UntilOf(rec'[p])[k] = UntilOf(rec[p])[k]
    BY <1>1, <1>2, <1>4, <1>5, <1>6, Zenon
<1>8. S = {o} \X {k \in Kinds : Until(rec)[o][k] <= clock}
    BY UntilPointwise, Zenon
<1> HIDE DEF S
<1>9. Until(rec') = Grants!Without(S)
    <2>1. rec = InForce
        BY Zenon DEF InForce
    <2>2. Leaves(S, rec', rec)
        BY <1>7, Zenon DEF Leaves
    <2>. QED  BY <2>1, <2>2, WithoutFact, Zenon
<1>10. (IF restored' THEN rec' ELSE disk') = rec' /\ (IF restored THEN rec ELSE disk) = rec
    BY <1>2, Zenon
<1>. QED  BY <1>2, <1>8, <1>9, <1>10, Zenon DEF Grants!Lapse

\* The end of a task saves what is in force (RefreshResourceRecord).
LEMMA RefreshSaves ==
    ASSUME PromiseInv, RefreshResourceRecord
    PROVE  Grants!Save
<1>1. restored /\ restored' /\ rec' = rec /\ disk' = rec /\ clock' = clock /\ last' = last
    BY Zenon DEF PromiseInv, TInv, RestTyped, SleepsFirst, Asleep, RefreshResourceRecord, outside,
           histories
<1> DEFINE B == IF restored THEN rec ELSE disk
           C == IF restored' THEN rec' ELSE disk'
<1>2. B = rec /\ C = rec
    BY <1>1, Zenon
<1> HIDE DEF B, C
<1>3. Until(disk)' = Until(B) /\ Until(C) = Until(B)
    BY <1>1, <1>2, Zenon
<1>. QED  BY <1>1, <1>3 DEF Grants!Save, B, C

\* A start of the service brings back the records of the file, except for owners
\* that have gone (CheckPersistenceData), or none of them.
LEMMA StartForgets ==
    ASSUME PromiseInv, EarlyBoot = 0, InitNecessaryState
    PROVE  Grants!Forget
<1>1. ~restored
    <2>1. queue \in Seq(GoodTask) /\ queue # <<>> /\ Head(queue) = InitTask
        BY Zenon DEF PromiseInv, TInv, InitNecessaryState
    <2>2. 1 \in 1 .. Len(queue) /\ queue[1] = InitTask
        BY <2>1, SMTT(30)
    <2>. QED  BY <2>2, SMTT(30) DEF PromiseInv, StartsOnce, Has
<1>2. rec = NoRecords /\ restored' /\ disk' = disk /\ clock' = clock /\ last' = "start"
    BY <1>1, Zenon DEF PromiseInv, SleepsFirst, Asleep, InitNecessaryState, outside
<1>3. \A o \in Owners : rec'[o] \in {disk[o], NoRecord}
    <2>1. CASE rec' = RecoveredRecords
        <3> TAKE o \in Owners
        <3>1. rec[o] = NoRecord
            BY <1>2, Zenon DEF NoRecords
        <3>2. RestoreResourceRecord[o] = disk[o]
            BY <3>1 DEF RestoreResourceRecord, NoRecord
        <3>3. CheckPersistenceData(RestoreResourceRecord)[o] \in {disk[o], NoRecord}
            BY <3>2, Zenon DEF CheckPersistenceData, RunningApp, RunningProcess
        <3>4. ~(clock <= EarlyBoot)
            BY DEF PromiseInv, TInv, RestTyped
        <3>5. RecoveredRecords[o] = CheckPersistenceData(RestoreResourceRecord)[o]
            BY <3>4, Zenon DEF RecoveredRecords
        <3>. QED  BY Zenon, <2>1, <3>3, <3>5
    <2>2. CASE rec' = rec
        BY <1>2, <2>2, Zenon DEF NoRecords
    <2>. QED  BY <2>1, <2>2, Zenon DEF InitNecessaryState
<1> DEFINE G == {o \in Owners : rec'[o] = NoRecord}
           S == G \X Kinds
           Q == InForce
<1>4. Q = disk
    BY <1>1, Zenon DEF InForce
<1> HIDE DEF Q
<1>5. \A o \in Owners, k \in Kinds :
          /\ <<o, k>> \in S => UntilOf(rec'[o])[k] = 0
          /\ <<o, k>> \notin S => UntilOf(rec'[o])[k] = UntilOf(Q[o])[k]
    <2> TAKE o \in Owners, k \in Kinds
    <2>1. CASE o \in G
        BY <2>1, NoRecordUntil, Zenon
    <2>2. CASE o \notin G
        BY <1>3, <1>4, <2>2, Zenon
    <2>. QED  BY <2>1, <2>2, SMTT(30)
<1>6. G \in SUBSET Owners
    BY Zenon
<1> HIDE DEF G
<1>7. Until(rec') = Grants!Without(G \X Kinds)
    <2>1. Q = InForce
        BY Zenon DEF Q
    <2>2. Leaves(G \X Kinds, rec', Q)
        BY <1>5, Zenon DEF Leaves
    <2>. QED  BY <2>1, <2>2, WithoutFact, Zenon
<1>8. (IF restored' THEN rec' ELSE disk') = rec'
    BY <1>2, Zenon
<1>. QED  BY <1>2, <1>6, <1>7, <1>8, Zenon DEF Grants!Forget

\* The end of the service goes back to the file, which may be torn.
LEMMA ServiceEndsPromise ==
    ASSUME PromiseInv, ServiceEnds, clock' \in {clock, 1}
    PROVE  Grants!End
<1>1. disk' \in {disk, NoRecords} /\ ~restored' /\ last' = "start"
    BY Zenon DEF ServiceEnds
<1>2. Until(NoRecords) = Grants!Nothing
    BY UntilPointwise, NoRecordUntil, Zenon DEF NoRecords, Grants!Nothing
<1> DEFINE C == IF restored' THEN rec' ELSE disk'
<1>3. C = disk'
    BY <1>1, Zenon
<1> HIDE DEF C
<1>4. Until(C) = Until(disk') /\ Until(disk') \in {Until(disk), Grants!Nothing}
    BY <1>1, <1>2, <1>3, Zenon
<1>. QED  BY <1>1, <1>4 DEF Grants!End, C

\* A step keeps every end before the time that stands for ever.
LEMMA EndsStep ==
    ASSUME TInv, BitsMatchUnits, EndsInTime, InTime, [Next]_vars
    PROVE  EndsInTime'
<1> DEFINE Good == \A o \in Owners : EndsBefore(rec'[o], Forever) /\ EndsBefore(disk'[o], Forever)
<1>0. SUFFICES Good
    BY Zenon DEF EndsInTime, EndsBefore
<1>1. /\ \A o \in Owners : /\ EndsBefore(rec[o], Forever) /\ EndsBefore(disk[o], Forever)
                           /\ rec[o] \in Record
      /\ Forever \in Nat \ {0} /\ clock \in Nat \ {0} /\ clock < Forever
      /\ rec \in [Owners -> Record]
    BY ResourcesAssumption DEF EndsInTime, TInv, RecordsTyped, RestTyped, InTime
<1>2. ASSUME UNCHANGED <<rec, disk>> PROVE Good
    BY <1>1, <1>2, Zenon
<1>3. ASSUME NEW o \in Owners, NEW K \in SUBSET Kinds,
             rec' = [rec EXCEPT ![o] = Erased(@, K)], disk' = disk
      PROVE  Good
    <2>1. EndsBefore(Erased(rec[o], K), Forever)
        BY <1>1, ErasedEnds, Zenon
    <2>. QED  BY <1>1, <1>3, <2>1
<1>4. ASSUME \/ queue # <<>> /\ (ResetProcessInner(Head(queue)) \/ ResetAppInner(Head(queue)))
             \/ \E o \in Owners, K \in SUBSET Kinds : DumpResetResource(o, K)
      PROVE  Good
    BY <1>3, <1>4, ResetSteps, Zenon DEF Resets
<1>5. ASSUME queue # <<>>, ApplyEfficiencyResourcesInner(Head(queue))
      PROVE  Good
    <2> DEFINE t == Head(queue)
    <2>1. t \in GoodTask
        BY <1>5, HeadIsGood, Zenon DEF TInv
    <2>2. /\ t.owner \in Owners /\ t.bits \in SUBSET Kinds /\ t.persist \in BOOLEAN
          /\ t.timeout \in Timeouts \cup {0} /\ t.timeout \in Nat
        BY <2>1, <1>5, Zenon DEF ApplyEfficiencyResourcesInner, GoodTask, Task, Timely
    <2>3. clock + t.timeout \in Nat /\ clock + t.timeout < Forever
        BY <1>1, <2>2 DEF InTime
    <2>4. EndsBefore(Applied(rec[t.owner], t.bits, t.persist, clock + t.timeout, t.level), Forever)
        BY Zenon, <1>1, <2>2, <2>3, AppliedEnds
    <2>5. /\ rec' = [rec EXCEPT ![t.owner] =
                         Applied(@, t.bits, t.persist, clock + t.timeout, t.level)]
          /\ disk' = disk
        BY <1>5, Zenon DEF ApplyEfficiencyResourcesInner
    <2>. QED  BY <1>1, <2>2, <2>4, <2>5, Zenon
<1>6. ASSUME NEW t \in timers, ResetTimeOutResource(t[1], t[2])
      PROVE  Good
    <2>1. t[1] \in Owners
        BY Zenon DEF TInv, RestTyped
    <2>2. TimedOut(rec[t[1]], clock) \in SUBSET Kinds
        BY Zenon DEF TimedOut
    <2>. QED  BY <1>3, <1>6, <2>1, <2>2, Zenon DEF ResetTimeOutResource
<1>7. ASSUME RefreshResourceRecord PROVE Good
    BY <1>1, <1>7, Zenon DEF RefreshResourceRecord
<1>8. ASSUME InitNecessaryState PROVE Good
    <2>1. \A o \in Owners : EndsBefore(RestoreResourceRecord[o], Forever)
                            /\ RestoreResourceRecord[o] \in Record
        BY <1>1, Zenon DEF RestoreResourceRecord, TInv, RecordsTyped
    <2>2. \A o \in Owners : EndsBefore(CheckPersistenceData(RestoreResourceRecord)[o], Forever)
                            /\ CheckPersistenceData(RestoreResourceRecord)[o] \in Record
        BY Zenon, <1>1, <2>1, NoRecordFacts, RecoveredType
           DEF CheckPersistenceData, RunningApp, RunningProcess
    <2>3. \A o \in Owners : EndsBefore(RecoveredRecords[o], Forever)
        BY <2>2, Zenon DEF RecoveredRecords, RecoverResourceNumber, EndsBefore, Record
    <2>. QED  BY <1>1, <1>8, <2>3, Zenon DEF InitNecessaryState
<1>9. ASSUME DumpResetAllResource \/ ServiceEnds PROVE Good
    <2>1. \A o \in Owners : EndsBefore(NoRecords[o], Forever)
        BY <1>1, NoRecordFacts, Zenon DEF NoRecords
    <2>. QED  BY <1>1, <1>9, <2>1, Zenon DEF DumpResetAllResource, ServiceEnds
<1>10. CASE Next
    <2>1. CASE Runner
        BY <2>1, <1>4, <1>5, <1>6, <1>7, <1>8, Zenon DEF Runner, RunTask
    <2>2. CASE Service
        BY <2>2, <1>2, <1>9, QuietSteps, Zenon DEF Service, ServiceCrash, Reboot, Quiet
    <2>3. CASE Subscribe \/ Tick
        BY <2>3, <1>2, Zenon DEF Subscribe, Tick
    <2>. QED  BY <1>10, <2>1, <2>2, <2>3, <1>2, <1>4, <1>9, QuietSteps, Zenon DEF Next, Quiet
<1>11. CASE UNCHANGED vars
    BY <1>2, <1>11, Zenon DEF vars
<1>. QED  BY <1>10, <1>11, SMTT(30)

\* Every step is a step of ResourceGrants, or none.
LEMMA PromiseStep ==
    ASSUME PromiseInv, InTime, EarlyBoot = 0, TInv', [Next]_vars
    PROVE  [Grants!Next]_(Grants!gvars)
<1> DEFINE Good == Grants!Next \/ UNCHANGED Grants!gvars
<1>0. SUFFICES Good
    BY Zenon
<1>a. TInv
    BY Zenon DEF PromiseInv
<1>b. ready => restored
    BY Zenon DEF PromiseInv, SleepsFirst, Asleep
<1>c. timers # {} => restored
    BY Zenon DEF PromiseInv, SleepsFirst, Asleep
<1>d. RunTask => restored
    <2> SUFFICES ASSUME RunTask, ~restored PROVE FALSE
        BY Zenon
    <2>1. queue \in Seq(GoodTask) /\ queue # <<>> /\ Head(queue) # InitTask
        BY <1>a, StartIsNoTask, Zenon DEF TInv, RunTask
    <2>2. 1 \in 1 .. Len(queue) /\ Head(queue) = queue[1]
        BY <2>1
    <2>. QED  BY <2>1, <2>2 DEF PromiseInv, SleepsFirst, Asleep
<1>1. ASSUME \/ \E p \in Pids : Calls(p) \/ Posts(p)
             \/ Processes \/ OnAddSystemAbility \/ OnRemoveSystemAbility
             \/ \E u \in Uids : PackageRemoved(u)
      PROVE  Good
    BY <1>1, QuietSteps, QuietPromise, Zenon DEF Quiet
<1>2. CASE Subscribe
    BY <1>2, QuietPromise, Zenon DEF Subscribe, serviceVars, outside
<1>3. ASSUME queue # <<>>, ApplyEfficiencyResourcesInner(Head(queue)) PROVE Good
    BY <1>3, <1>d, ApplyPromises, Zenon DEF RunTask, Grants!Next
<1>4. ASSUME queue # <<>>, ResetProcessInner(Head(queue)) \/ ResetAppInner(Head(queue))
      PROVE  Good
    <2>1. last' = "reset" /\ restored
        BY <1>4, <1>d, Zenon
           DEF RunTask, ResetProcessInner, ResetAppInner, RemoveTargetResourceRecord
    <2>2. PICK o \in Owners, K \in SUBSET Kinds :
              K \subseteq rec[o].bits /\ Resets(o, K) /\ timers' = timers
        BY <1>4, <1>a, ResetSteps, Zenon
    <2>3. Grants!Withdraw
        BY <2>1, <2>2, ResetWithdraws, Zenon
    <2>. QED  BY <2>3, Zenon DEF Grants!Next
<1>5. CASE \E o \in Owners, K \in SUBSET Kinds : DumpResetResource(o, K)
    <2>1. last' = "reset" /\ restored
        BY <1>5, <1>b, Zenon DEF DumpResetResource, RemoveTargetResourceRecord
    <2>. QED  BY <1>5, <1>a, <2>1, ResetSteps, ResetWithdraws, ZenonT(30) DEF Grants!Next
<1>6. CASE DumpResetAllResource
    BY <1>6, <1>b, DumpWithdraws, Zenon DEF DumpResetAllResource, Grants!Next
<1>7. ASSUME NEW t \in timers, ResetTimeOutResource(t[1], t[2]) PROVE Good
    <2>1. t[1] \in Owners
        BY <1>a, Zenon DEF TInv, RestTyped
    <2>. QED  BY <1>7, <1>c, <2>1, TimeoutLapses, SMTT(30) DEF Grants!Next
<1>8. CASE RefreshResourceRecord
    BY <1>8, RefreshSaves, Zenon DEF Grants!Next
<1>9. CASE InitNecessaryState
    BY <1>9, StartForgets, Zenon DEF Grants!Next
<1>10. CASE ServiceCrash \/ Reboot
    BY <1>10, ServiceEndsPromise, Zenon DEF ServiceCrash, Reboot, Grants!Next
<1>11. CASE Tick
    <2>1. clock' = clock + 1 /\ UNCHANGED <<rec, disk, restored, last>>
        BY <1>11, Zenon DEF Tick, serviceVars, histories
    <2>. QED  BY <2>1 DEF Grants!Pass, Grants!Next
<1>12. CASE UNCHANGED vars
    BY <1>12, QuietPromise, Zenon DEF vars
<1>. QED  BY <1>1, <1>2, <1>3, <1>4, <1>5, <1>6, <1>7, <1>8, <1>9, <1>10, <1>11, <1>12
       DEF Next, Runner, RunTask, Service

\* The manager starts with what ResourceGrants starts with.
LEMMA PromiseInit ==
    ASSUME Init
    PROVE  Grants!Init
<1>1. rec = NoRecords /\ disk = NoRecords /\ clock = 1 /\ last = "start" /\ ~restored
    BY Zenon DEF Init
<1>2. Until(NoRecords) = Grants!Nothing
    BY UntilPointwise, NoRecordUntil, Zenon DEF NoRecords, Grants!Nothing
<1> DEFINE B == IF restored THEN rec ELSE disk
<1>3. B = NoRecords
    BY <1>1, Zenon
<1> HIDE DEF B
<1>4. Until(B) = Grants!Nothing /\ Until(disk) = Grants!Nothing
    BY <1>1, <1>2, <1>3, Zenon
<1>. QED  BY <1>1, <1>4 DEF Grants!Init, B

\* As long as the system abilities stay and the service does not start in the
\* first minutes of the device, the manager implements ResourceGrants through
\* crashes, torn files and reboots: a kind stays in force until the latest time
\* asked for, or for ever, unless a reset withdraws it, and the delayed resets
\* (ResetTimeOutResource) end nothing else.  Forever stands for a time that no
\* request reaches (InTime).
THEOREM PromisesAreAlwaysKept ==
    ASSUME EarlyBoot = 0, "ability" \notin Faults
    PROVE  Spec /\ []InTime => KeepsPromises
<1>1. Init /\ InTime => PromiseInv
    <2> SUFFICES ASSUME Init, InTime PROVE PromiseInv
        BY Zenon
    <2>0. Forever \in Nat \ {0}
        BY ResourcesAssumption DEF Init, InTime
    <2>1. \A o \in Owners : /\ Sound(rec[o]) /\ Sound(disk[o])
                            /\ EndsBefore(rec[o], Forever) /\ EndsBefore(disk[o], Forever)
        BY <2>0, NoRecordFacts, Zenon DEF Init, NoRecords
    <2>2. StartsOnce
        BY SMTT(30) DEF Init, StartsOnce, Once, Has
    <2>3. BitsMatchUnits /\ EndsInTime
        BY <2>1, Zenon DEF BitsMatchUnits, Sound, EndsInTime
    <2>. QED  BY <2>2, <2>3, TypeInit, SleepsInit DEF PromiseInv
<1>2. PromiseInv /\ InTime /\ [Next]_vars => PromiseInv'
    BY TypeStep, BitsStep, StartsOnceStep, SleepsStep, EndsStep, Zenon DEF PromiseInv
<1>3. PromiseInv /\ PromiseInv' /\ InTime /\ [Next]_vars => [Grants!Next]_(Grants!gvars)
    BY PromiseStep, Zenon DEF PromiseInv
<1>. QED  BY <1>1, <1>2, <1>3, PromiseInit, PTL DEF Spec, KeepsPromises, Grants!Spec

-----------------------------------------------------------------------------
(* AppResetReaches.                                                        *)

\* A reset of the kind b of the process p is in the queue q.
PendingReset(q, p, b) ==
    \E i \in 1 .. Len(q) : q[i].owner = p /\ ~q[i].apply /\ b \in q[i].bits

\* As long as the service does not end, there is no file before the first start.
FreshFile == ~restored => disk = NoRecords

\* AppResetReaches, kind by kind.
Reached ==
    \A p \in Pids : \A b \in rec[p].bits : b \in since[p] \/ PendingReset(queue, p, b)

\* The two say the same.
LEMMA ReachedMeans ==
    ASSUME queue \in Seq(GoodTask)
    PROVE  AppResetReaches <=> Reached
<1> DEFINE Escorted(p) == UNION {queue[i].bits : i \in {j \in DOMAIN queue :
                                    queue[j].owner = p /\ ~queue[j].apply}}
<1>1. DOMAIN queue = 1 .. Len(queue)
    BY SeqDomain, Zenon
<1>2. ASSUME NEW p \in Pids, NEW b
      PROVE  b \in Escorted(p) <=> PendingReset(queue, p, b)
    BY <1>1, Zenon DEF PendingReset
<1>3. AppResetReaches <=> \A p \in Pids : rec[p].bits \subseteq since[p] \cup Escorted(p)
    BY Zenon DEF AppResetReaches
<1> HIDE DEF Escorted
<1>. QED  BY <1>2, <1>3, Zenon DEF Reached

\* A task that is posted takes no reset away.
LEMMA PendingGrows ==
    ASSUME NEW q \in Seq(GoodTask), NEW t, NEW r, r = Append(q, t), NEW p, NEW b,
           PendingReset(q, p, b)
    PROVE  PendingReset(r, p, b)
<1>1. PICK i \in 1 .. Len(q) : q[i].owner = p /\ ~q[i].apply /\ b \in q[i].bits
    BY Zenon DEF PendingReset
<1>2. i \in 1 .. Len(r) /\ r[i] = q[i]
    BY AppendKeeps, Zenon
<1>. QED  BY <1>1, <1>2, Zenon DEF PendingReset

\* The runner takes one task off the queue, and posts others behind the rest.
LEMMA PendingMoves ==
    ASSUME NEW q \in Seq(GoodTask), q # <<>>, NEW f \in Seq(GoodTask),
           NEW r, r = Tail(q) \o f, NEW p, NEW b,
           PendingReset(q, p, b), Head(q).owner = p /\ ~Head(q).apply => b \notin Head(q).bits
    PROVE  PendingReset(r, p, b)
<1>1. /\ Len(q) \in Nat \ {0} /\ Len(f) \in Nat /\ Len(r) = Len(q) - 1 + Len(f)
      /\ Head(q) = q[1] /\ \A i \in 1 .. Len(q) - 1 : r[i] = q[i + 1]
    <2>1. Tail(q) \in Seq(GoodTask) /\ Len(Tail(q)) = Len(q) - 1 /\ Len(q) \in Nat \ {0}
          /\ \A i \in 1 .. Len(q) - 1 : Tail(q)[i] = q[i + 1]
        BY SMTT(30)
    <2>. QED  BY <2>1
<1>2. PICK i \in 1 .. Len(q) : q[i].owner = p /\ ~q[i].apply /\ b \in q[i].bits
    BY Zenon DEF PendingReset
<1>3. i # 1
    BY <1>1, <1>2, Zenon
<1>4. i - 1 \in 1 .. Len(r) /\ i - 1 \in 1 .. Len(q) - 1 /\ r[i - 1] = q[i]
    BY <1>1, <1>3
<1>. QED  BY <1>2, <1>4, Zenon DEF PendingReset

\* What it posts behind the rest is in the queue.
LEMMA PendingPosted ==
    ASSUME NEW q \in Seq(GoodTask), q # <<>>, NEW f \in Seq(GoodTask),
           NEW r, r = Tail(q) \o f, NEW p, NEW b, PendingReset(f, p, b)
    PROVE  PendingReset(r, p, b)
<1>1. Tail(q) \in Seq(GoodTask) /\ Len(Tail(q)) \in Nat
    BY SMTT(30)
<1>2. PICK i \in 1 .. Len(f) : f[i].owner = p /\ ~f[i].apply /\ b \in f[i].bits
    BY Zenon DEF PendingReset
<1>3. Len(Tail(q)) + i \in 1 .. Len(r) /\ r[Len(Tail(q)) + i] = f[i]
    BY <1>1, SMTT(30)
<1>. QED  BY <1>2, <1>3, Zenon DEF PendingReset

\* RemoveRelativeProcessRecord posts a reset for every process that holds one of
\* the kinds.
LEMMA RelativeReached ==
    ASSUME NEW u \in Uids, NEW K \in SUBSET Kinds, RecordsTyped,
           NEW follow \in RelativeTasks(u, K), NEW p \in ProcessesOf(u),
           NEW b \in rec[p].bits \cap K
    PROVE  PendingReset(follow, p, b)
<1> DEFINE S == RelativeProcesses(u, K)
<1>1. S \subseteq Pids /\ p \in S
    BY Zenon DEF RelativeProcesses, ProcessesOf
<1>2. Cardinality(S) \in Nat
    <2>1. \A T \in SUBSET Pids : Cardinality(T) \in Nat
        BY ResourcesAssumption, Zenon
    <2>. QED  BY <1>1, <2>1, Zenon
<1>3. PICK f \in Bijection(1 .. Cardinality(S), S) :
          follow = [i \in 1 .. Cardinality(S) |-> ResetTask(f[i], K \cap rec[f[i]].bits)]
    BY Zenon DEF RelativeTasks
<1>4. PICK i \in 1 .. Cardinality(S) : f[i] = p
    BY <1>1, <1>3, Zenon DEF Bijection, Surjection
<1>5. i \in 1 .. Len(follow)
    <2>1. follow \in Seq(GoodTask)
        BY RelativeTasksGood, Zenon
    <2>2. DOMAIN follow = 1 .. Len(follow)
        BY <2>1, SeqDomain, Zenon
    <2>3. DOMAIN follow = 1 .. Cardinality(S)
        BY Zenon, <1>3
    <2>. QED  BY <2>2, <2>3, ZenonT(30)
<1>6. follow[i] = ResetTask(p, K \cap rec[p].bits)
    BY <1>3, <1>4, Zenon
<1>7. /\ ResetTask(p, K \cap rec[p].bits).owner = p /\ ~ResetTask(p, K \cap rec[p].bits).apply
      /\ b \in ResetTask(p, K \cap rec[p].bits).bits
    BY Zenon DEF ResetTask
<1>. QED  BY <1>5, <1>6, <1>7, Zenon DEF PendingReset

\* Calls, posts, deaths and system abilities only post tasks.
LEMMA QueueGrows ==
    ASSUME \/ \E p \in Pids : Calls(p) \/ Posts(p)
           \/ Processes \/ OnAddSystemAbility \/ OnRemoveSystemAbility
           \/ \E u \in Uids : PackageRemoved(u)
    PROVE  queue' = queue \/ \E t : queue' = Append(queue, t)
<1>1. ASSUME NEW p \in Pids, Calls(p) PROVE queue' = queue
    <2>1. ASSUME NEW asked, NEW q, ApplyEfficiencyResources(p, asked, q) PROVE queue' = queue
        BY <2>1, Zenon DEF ApplyEfficiencyResources
    <2>2. ASSUME ResetAllEfficiencyResources(p) PROVE queue' = queue
        BY <2>2, Zenon DEF ResetAllEfficiencyResources
    <2>. QED  BY <1>1, <2>1, <2>2, Zenon DEF Calls
<1>2. ASSUME NEW p \in Pids, Posts(p)
      PROVE  queue' = queue \/ \E t : queue' = Append(queue, t)
    BY <1>2, Zenon DEF Posts, SendProcessPart, SendAppPart
<1>3. CASE Processes \/ \E u \in Uids : PackageRemoved(u)
    BY <1>3, ZenonT(30) DEF Processes, StartProcess, ProcessDies, RemoveDeadRecord, PackageRemoved,
                RemoveRecord
<1>4. CASE OnAddSystemAbility \/ OnRemoveSystemAbility
    BY <1>4, Zenon DEF OnAddSystemAbility, OnRemoveSystemAbility
<1>. QED  BY <1>1, <1>2, <1>3, <1>4

\* A step lets no kind of a process escape the reset of its application.
LEMMA ReachedStep ==
    ASSUME TInv, TInv', BitsMatchUnits, StartsOnce, SleepsFirst, FreshFile, Reached,
           "crash" \notin Faults, "reboot" \notin Faults, [Next]_vars
    PROVE  Reached'
<1>1. /\ queue \in Seq(GoodTask) /\ RecordsTyped /\ rec \in [Owners -> Record]
      /\ since \in [Owners -> SUBSET Kinds] /\ \A p \in Pids : p \in Owners
      /\ \A o \in Owners : Sound(rec[o])
      /\ \A p \in Pids : p \notin Uids
    BY ResourcesAssumption, ZenonT(30)
       DEF TInv, RecordsTyped, RestTyped, Owners, BitsMatchUnits, Sound
<1>2. ASSUME UNCHANGED <<rec, since>>, queue' = queue \/ \E t : queue' = Append(queue, t)
      PROVE  Reached'
    <2>1. \A p, b : PendingReset(queue, p, b) => PendingReset(queue', p, b)
        BY <1>1, <1>2, PendingGrows, Zenon
    <2>2. ASSUME NEW p \in Pids, NEW b \in rec'[p].bits
          PROVE  b \in since'[p] \/ PendingReset(queue', p, b)
        BY <1>2, <2>1, <2>2, ZenonT(30) DEF Reached
    <2>. QED  BY <2>2 DEF Reached, PendingReset
<1>3. ASSUME NEW o \in Owners, NEW K \in SUBSET Kinds, K \subseteq rec[o].bits,
             rec' = [rec EXCEPT ![o] = Erased(@, K)], UNCHANGED <<queue, since>>
      PROVE  Reached'
    <2>1. Erased(rec[o], K).bits = rec[o].bits \ K
        BY Zenon, <1>1, <1>3, ErasedSound
    <2>2. \A p \in Pids : rec'[p].bits \subseteq rec[p].bits
        BY Zenon, <1>1, <1>3, <2>1
    <2>. QED  BY <1>3, <2>2 DEF Reached, PendingReset
<1>4. ASSUME NEW o \in Owners, NEW K \in SUBSET Kinds, DumpResetResource(o, K)
      PROVE  Reached'
    <2>1. /\ rec' = [rec EXCEPT ![o] = Erased(@, rec[o].bits \cap K)]
          /\ UNCHANGED <<queue, since>>
        BY <1>4, Zenon DEF DumpResetResource, RemoveTargetResourceRecord
    <2>2. rec[o].bits \cap K \in SUBSET Kinds
        BY Zenon
    <2>. QED  BY <1>3, <2>1, <2>2, Zenon
<1>5. CASE DumpResetAllResource
    <2>1. rec' = NoRecords
        BY <1>5, Zenon DEF DumpResetAllResource
    <2>2. \A p \in Pids : rec'[p].bits = {}
        BY <1>1, <2>1, Zenon DEF NoRecords, NoRecord
    <2>. QED  BY <2>2, Zenon DEF Reached
<1>6. ASSUME NEW t \in timers, ResetTimeOutResource(t[1], t[2])
      PROVE  Reached'
    <2>1. t[1] \in Owners /\ TimedOut(rec[t[1]], clock) \in SUBSET Kinds
        BY Zenon DEF TInv, RestTyped, TimedOut
    <2>2. TimedOut(rec[t[1]], clock) \subseteq rec[t[1]].bits
        BY Zenon, <1>1, <2>1, TimedOutWithin
    <2>. QED  BY <1>3, <1>6, <2>1, <2>2, Zenon DEF ResetTimeOutResource
<1>7. ASSUME queue # <<>>, ApplyEfficiencyResourcesInner(Head(queue))
      PROVE  Reached'
    <2> DEFINE t == Head(queue)
    <2>1. t \in GoodTask
        BY <1>1, <1>7, HeadIsGood, Zenon
    <2>2. t.owner \in Owners /\ t.apply
        BY <1>7, <2>1, Zenon DEF ApplyEfficiencyResourcesInner, GoodTask
    <2>3. /\ rec' = [rec EXCEPT ![t.owner] =
                         Applied(rec[t.owner], t.bits, t.persist, clock + t.timeout, t.level)]
          /\ since' = [since EXCEPT ![t.owner] = since[t.owner] \cup t.bits]
          /\ queue' = Tail(queue)
        BY <1>7, Zenon DEF ApplyEfficiencyResourcesInner
    <2>4. Applied(rec[t.owner], t.bits, t.persist, clock + t.timeout, t.level).bits
              = rec[t.owner].bits \cup t.bits
        BY Zenon DEF Applied
    <2>5. \A p, b : PendingReset(queue, p, b) => PendingReset(queue', p, b)
        <3>1. <<>> \in Seq(GoodTask) /\ queue' = Tail(queue) \o <<>>
            BY <1>1, <1>7, <2>3, TailNil, Zenon
        <3>. QED  BY <1>1, <1>7, <2>2, <3>1, PendingMoves, Zenon
    <2> HIDE DEF t
    <2>6. ASSUME NEW p \in Pids, NEW b \in rec'[p].bits
          PROVE  b \in since'[p] \/ PendingReset(queue', p, b)
        <3>1. CASE p = t.owner
            BY <1>1, <2>2, <2>3, <2>4, <2>5, <2>6, <3>1, Zenon DEF Reached
        <3>2. CASE p # t.owner
            BY <1>1, <2>2, <2>3, <2>5, <2>6, <3>2, ZenonT(30) DEF Reached
        <3>. QED  BY Zenon, <3>1, <3>2
    <2>. QED  BY <2>6, Zenon DEF Reached, PendingReset
<1>8. ASSUME queue # <<>>, ResetProcessInner(Head(queue))
      PROVE  Reached'
    <2> DEFINE t == Head(queue)
    <2>1. t \in GoodTask
        BY <1>1, <1>8, HeadIsGood, Zenon
    <2>2. t.owner \in Pids /\ ~t.apply /\ t.bits \in SUBSET Kinds
        BY <1>8, <2>1, Zenon DEF ResetProcessInner, GoodTask, Task
    <2>3. /\ rec' = [rec EXCEPT ![t.owner] = Erased(rec[t.owner], rec[t.owner].bits \cap t.bits)]
          /\ since' = since /\ queue' = Tail(queue)
        BY <1>8, Zenon DEF ResetProcessInner, RemoveTargetResourceRecord
    <2>4. Erased(rec[t.owner], rec[t.owner].bits \cap t.bits).bits = rec[t.owner].bits \ t.bits
        <3>1. rec[t.owner].bits \cap t.bits \in SUBSET rec[t.owner].bits /\ rec[t.owner] \in Record
            BY <1>1, <2>2, Zenon
        <3>2. Erased(rec[t.owner], rec[t.owner].bits \cap t.bits).bits
                  = rec[t.owner].bits \ (rec[t.owner].bits \cap t.bits)
            BY Zenon, <1>1, <2>2, <3>1, ErasedSound
        <3>. QED  BY ZenonT(30), <3>2
    <2>5. \A p, b : PendingReset(queue, p, b) /\ (p = t.owner => b \notin t.bits)
                        => PendingReset(queue', p, b)
        <3>1. <<>> \in Seq(GoodTask) /\ queue' = Tail(queue) \o <<>>
            BY <1>1, <1>8, <2>3, TailNil, Zenon
        <3>. QED  BY <1>1, <1>8, <3>1, PendingMoves, Zenon
    <2> HIDE DEF t
    <2>6. ASSUME NEW p \in Pids, NEW b \in rec'[p].bits
          PROVE  b \in since'[p] \/ PendingReset(queue', p, b)
        <3>1. CASE p = t.owner
            BY <1>1, <2>2, <2>3, <2>4, <2>5, <2>6, <3>1, Zenon DEF Reached
        <3>2. CASE p # t.owner
            BY <1>1, <2>2, <2>3, <2>5, <2>6, <3>2, Zenon DEF Reached
        <3>. QED  BY Zenon, <3>1, <3>2
    <2>. QED  BY <2>6 DEF Reached, PendingReset
<1>9. ASSUME queue # <<>>, ResetAppInner(Head(queue))
      PROVE  Reached'
    <2> DEFINE t == Head(queue)
    <2>1. t \in GoodTask
        BY <1>1, <1>9, HeadIsGood, Zenon
    <2>2. t.owner \in Uids /\ ~t.apply /\ t.bits \in SUBSET Kinds
        BY <1>9, <2>1, ZenonT(30) DEF ResetAppInner, GoodTask, Task
    <2>3. PICK follow \in RelativeTasks(t.owner, t.bits) : queue' = Tail(queue) \o follow
        BY <1>9, Zenon DEF ResetAppInner
    <2>4. follow \in Seq(GoodTask)
        BY Zenon, <1>1, <2>2, <2>3, RelativeTasksGood
    <2>5. \A p \in Pids : rec'[p] = rec[p]
        BY <1>1, <1>9, <2>2, Zenon DEF ResetAppInner, RemoveTargetResourceRecord
    <2>6. \A p \in Pids : since'[p] = IF p \in ProcessesOf(t.owner) THEN since[p] \ t.bits
                                      ELSE since[p]
        BY <1>1, <1>9, Zenon DEF ResetAppInner
    <2>7. \A p \in Pids : \A b : PendingReset(queue, p, b) => PendingReset(queue', p, b)
        BY <1>1, <1>9, <2>2, <2>3, <2>4, PendingMoves, Zenon
    <2>8. \A p \in ProcessesOf(t.owner) : \A b \in rec[p].bits \cap t.bits :
              PendingReset(queue', p, b)
        <3>1. \A p \in ProcessesOf(t.owner) : \A b \in rec[p].bits \cap t.bits :
                  PendingReset(follow, p, b)
            BY Zenon, <1>1, <2>2, <2>3, RelativeReached
        <3>. QED  BY Zenon, <1>1, <1>9, <2>3, <2>4, <3>1, PendingPosted
    <2> HIDE DEF t
    <2>9. ASSUME NEW p \in Pids, NEW b \in rec'[p].bits
          PROVE  b \in since'[p] \/ PendingReset(queue', p, b)
        BY <2>5, <2>6, <2>7, <2>8, <2>9, ZenonT(30) DEF Reached
    <2>. QED  BY <2>9, Zenon DEF Reached, PendingReset
<1>10. CASE InitNecessaryState
    <2>1. ~restored
        <3>1. queue # <<>> /\ Head(queue) = InitTask
            BY <1>10, Zenon DEF InitNecessaryState
        <3>2. 1 \in 1 .. Len(queue) /\ queue[1] = InitTask
            BY <1>1, <3>1, SMTT(30)
        <3>. QED  BY <3>2, SMTT(30) DEF StartsOnce, Has
    <2>2. rec = NoRecords /\ disk = NoRecords
        BY <2>1, Zenon DEF SleepsFirst, Asleep, FreshFile
    <2>3. \A p \in Pids : rec[p] = NoRecord /\ disk[p] = NoRecord
        BY <1>1, <2>2, Zenon DEF NoRecords
    <2>4. \A p \in Pids : RecoveredRecords[p] = NoRecord
        BY <1>1, <2>3, Zenon DEF RecoveredRecords, CheckPersistenceData, RestoreResourceRecord,
                          RunningProcess
    <2>5. \A p \in Pids : rec'[p].bits = {}
        <3>1. rec' = RecoveredRecords \/ rec' = rec
            BY <1>10, Zenon DEF InitNecessaryState
        <3>2. NoRecord.bits = {}
            BY ZenonT(30) DEF NoRecord
        <3>. QED  BY <2>3, <2>4, <3>1, <3>2, Zenon
    <2>. QED  BY <2>5 DEF Reached
<1>11. CASE RefreshResourceRecord \/ Subscribe \/ Tick
    BY <1>2, <1>11, Zenon DEF RefreshResourceRecord, Subscribe, Tick, histories
<1>12. ASSUME \/ \E p \in Pids : Calls(p) \/ Posts(p)
              \/ Processes \/ OnAddSystemAbility \/ OnRemoveSystemAbility
              \/ \E u \in Uids : PackageRemoved(u)
       PROVE  Reached'
    BY <1>2, <1>12, QuietSteps, QueueGrows, Zenon DEF Quiet
<1>13. CASE UNCHANGED vars
    BY <1>2, <1>13, Zenon DEF vars
<1>. QED  BY SMTT(30), <1>4, <1>5, <1>6, <1>7, <1>8, <1>9, <1>10, <1>11, <1>12, <1>13
       DEF Next, Runner, RunTask, Service, ServiceCrash, Reboot

\* Before the first start the file stays empty.
LEMMA FreshStep ==
    ASSUME TInv, SleepsFirst, FreshFile, "crash" \notin Faults, "reboot" \notin Faults,
           [Next]_vars
    PROVE  FreshFile'
<1>1. ASSUME UNCHANGED <<disk, restored>> PROVE FreshFile'
    BY <1>1, Zenon DEF FreshFile
<1>2. CASE RefreshResourceRecord
    BY <1>2, ZenonT(30) DEF RefreshResourceRecord, SleepsFirst, Asleep, FreshFile
<1>3. CASE InitNecessaryState
    BY <1>3, Zenon DEF InitNecessaryState, FreshFile
<1>4. CASE \/ RunTask \/ Subscribe \/ Tick \/ DumpResetAllResource
           \/ \E t \in timers : ResetTimeOutResource(t[1], t[2])
           \/ \E o \in Owners, K \in SUBSET Kinds : DumpResetResource(o, K)
    BY <1>1, <1>4, Zenon
       DEF RunTask, ApplyEfficiencyResourcesInner, ResetProcessInner, ResetAppInner,
                      Subscribe, Tick, DumpResetAllResource, ResetTimeOutResource,
                      DumpResetResource, serviceVars
<1>5. ASSUME \/ \E p \in Pids : Calls(p) \/ Posts(p)
             \/ Processes \/ OnAddSystemAbility \/ OnRemoveSystemAbility
             \/ \E u \in Uids : PackageRemoved(u)
      PROVE  FreshFile'
    BY <1>1, <1>5, QuietSteps, Zenon DEF Quiet
<1>6. CASE UNCHANGED vars
    BY <1>1, <1>6, Zenon DEF vars
<1>. QED  BY <1>2, <1>3, <1>4, <1>5, <1>6 DEF Next, Runner, Service, ServiceCrash, Reboot

\* As long as the service runs on and the system abilities stay, a reset by an
\* application reaches its processes: what a process holds was applied for after
\* the last reset of the application, or is about to be reset
\* (RemoveRelativeProcessRecord).
THEOREM AppResetAlwaysReaches ==
    ASSUME EarlyBoot = 0, "ability" \notin Faults, "crash" \notin Faults,
           "reboot" \notin Faults
    PROVE  Spec => []AppResetReaches
<1> DEFINE I == /\ TInv /\ BitsMatchUnits /\ StartsOnce /\ SleepsFirst /\ FreshFile
                /\ Reached
<1>1. Init => I
    <2> SUFFICES ASSUME Init PROVE I
        BY Zenon
    <2>1. \A o \in Owners : Sound(rec[o]) /\ Sound(disk[o])
        BY NoRecordFacts, Zenon DEF Init, NoRecords
    <2>2. StartsOnce
        BY SMTT(30) DEF Init, StartsOnce, Once, Has
    <2>3. BitsMatchUnits
        BY <2>1, Zenon DEF BitsMatchUnits, Sound
    <2>4. FreshFile
        BY Zenon DEF Init, FreshFile
    <2>5. \A p \in Pids : rec[p].bits = {}
        BY Zenon DEF Init, NoRecords, NoRecord, Owners
    <2>. QED  BY <2>2, <2>3, <2>4, <2>5, TypeInit, SleepsInit DEF Reached
<1>2. I /\ [Next]_vars => I'
    BY TypeStep, BitsStep, StartsOnceStep, SleepsStep, FreshStep, ReachedStep, Zenon
<1>3. I => AppResetReaches
    BY ReachedMeans, Zenon DEF TInv
<1>. QED  BY <1>1, <1>2, <1>3, PTL DEF Spec
=============================================================================
