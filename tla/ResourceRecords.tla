--------------------------- MODULE ResourceRecords ---------------------------
(***************************************************************************)
(* What one record of efficiency resources (ResourceApplicationRecord)     *)
(* becomes when resources are applied, reset, run out of time or are       *)
(* restored after a restart.  A resource number is the set of the kinds    *)
(* whose bits are set; resourceUnitList_ is a function from kinds to       *)
(* units, in which a kind without a unit is not `on'.  The operators are   *)
(* pure; `now' is TimeProvider::GetCurrentTime().                          *)
(***************************************************************************)
EXTENDS Integers, FiniteSets

CONSTANTS
    Kinds,              \* the resource types
    CPU,                \* ResourceType::CPU
    TIMER,              \* ResourceType::TIMER
    WORK_SCHEDULER,     \* ResourceType::WORK_SCHEDULER
    Levels,             \* EfficiencyResourcesCpuLevel
    DEFAULT,            \* its default
    Int32Half           \* 2^31, scaled

ASSUME RecordsAssumption ==
    /\ CPU \in Kinds
    /\ CPU \notin {TIMER, WORK_SCHEDULER}
    /\ DEFAULT \in Levels
    /\ Int32Half \in Nat \ {0}

\* The kinds that outlive their application: WORK_SCHEDULER and TIMER.
Kept == Kinds \cap {WORK_SCHEDULER, TIMER}

\* static_cast<int32_t>
ToInt32(n) == ((n + Int32Half) % (2 * Int32Half)) - Int32Half

Later(a, b) == IF a < b THEN b ELSE a

Xor(A, B) == (A \ B) \cup (B \ A)

-----------------------------------------------------------------------------
(* PersistTime and ResourceApplicationRecord.                              *)

Unit == [on : BOOLEAN, persist : BOOLEAN, end : Nat]

NoUnit == [on |-> FALSE, persist |-> FALSE, end |-> 0]

\* present = FALSE: the map has no record for this key.
Record == [present : BOOLEAN, bits : SUBSET Kinds, units : [Kinds -> Unit], level : Levels]

NoRecord == [present |-> FALSE, bits |-> {}, units |-> [k \in Kinds |-> NoUnit],
             level   |-> DEFAULT]

Listed(r) == {k \in Kinds : r.units[k].on}

Timed(r, k) == r.units[k].on /\ ~r.units[k].persist

\* The unit takes the end of the latest request, even if it is an earlier one.
MutExtendUnitLast(u, persist, end) ==
    IF persist \/ (u.on /\ u.persist) THEN [on |-> TRUE, persist |-> TRUE, end |-> 0]
    ELSE [on |-> TRUE, persist |-> FALSE, end |-> end]

ExtendUnit(u, persist, end) ==
    IF persist \/ (u.on /\ u.persist) THEN [on |-> TRUE, persist |-> TRUE, end |-> 0]
    ELSE [on |-> TRUE, persist |-> FALSE, end |-> IF u.on THEN Later(u.end, end) ELSE end]

UpdateResourcesEndtime(units, K, persist, end) ==
    [k \in Kinds |-> IF k \in K THEN ExtendUnit(units[k], persist, end) ELSE units[k]]

RemoveListRecord(units, K) == [k \in Kinds |-> IF k \in K THEN NoUnit ELSE units[k]]

\* diffResourceNumber: the kinds the request K adds.
NewKinds(r, K) == K \ r.bits

\* ApplyEfficiencyResourcesInner on the record.  The level changes only with
\* the bits.
Applied(r, K, persist, end, level) ==
    [present |-> TRUE,
     bits    |-> r.bits \cup K,
     units   |-> UpdateResourcesEndtime(r.units, K, persist, end),
     level   |-> IF NewKinds(r, K) = {} THEN r.level ELSE level]

\* The units stay when the bits are reset.
MutErasedKeepsUnits(r, K) ==
    IF Xor(r.bits, K) = {} THEN NoRecord ELSE [r EXCEPT !.bits = Xor(@, K)]

\* The bits K are flipped, their units removed, and a record without bits goes.
Erased(r, K) ==
    IF K = {} THEN r
    ELSE IF Xor(r.bits, K) = {} THEN NoRecord
    ELSE [r EXCEPT !.bits = Xor(@, K), !.units = RemoveListRecord(@, K)]

\* ResetTimeOutResource: eraseBit.
TimedOut(r, now) == {k \in Kinds : Timed(r, k) /\ now >= r.units[k].end}

\* An application that does not run keeps nothing.
MutRunningAppOnly(r, running) == IF running THEN r ELSE NoRecord

\* CheckPersistenceData: what stays of a record if its application runs, or not.
RunningApp(r, running) == IF running \/ r.bits \cap Kept # {} THEN r ELSE NoRecord

RunningProcess(r, running) == IF running THEN r ELSE NoRecord

\* RecoverResourceNumber, in the first minutes after the start of the device.
RecoverResourceNumber(r) == [r EXCEPT !.bits = @ \cap Kept]

\* RecoverDelayedTask posts no reset when the time is already over.
MutRecoveredDueFuture(u, now) == IF u.end > now THEN {u.end} ELSE {}

\* RecoverDelayedTask: when the reset of a restored unit is due.
RecoveredDue(u, now) == {now + Later(0, ToInt32(u.end - now))}
=============================================================================
