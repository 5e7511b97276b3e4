----------------------------- MODULE MCResources -----------------------------
(***************************************************************************)
(* Instances of EfficiencyResources for TLC.  Each specification takes the *)
(* actions that race in one question.                                      *)
(***************************************************************************)
EXTENDS EfficiencyResources, TLC

CONSTANTS u1, p1, p2

OneApp == [p \in Pids |-> u1]

AllPermitted == [u \in Uids |-> Kinds]

CallNext == \E p \in Pids : Calls(p) \/ Posts(p)

\* Requests, restarts and deaths, and the passing of time.
FaultNext == Runner \/ CallNext \/ Processes \/ Service \/ Tick

FaultSpec == Init /\ [][FaultNext]_vars

\* The same with removed packages and dumps.
PromiseNext ==
    \/ FaultNext
    \/ \E u \in Uids : PackageRemoved(u)
    \/ DumpResetAllResource
    \/ \E o \in Owners, K \in SUBSET Kinds : DumpResetResource(o, K)

PromiseSpec == Init /\ [][PromiseNext]_vars

\* A service that has started, and processes that run.
WatchInit ==
    /\ rec = NoRecords /\ disk = NoRecords
    /\ queue = <<>> /\ timers = {} /\ saving = "no"
    /\ depends = TRUE /\ ready = TRUE /\ starting = FALSE /\ restored = TRUE
    /\ call = [p \in Pids |-> NoCall]
    /\ proc = [p \in Pids |-> "alive"] /\ notices = {}
    /\ clock = 1 /\ calls = 0
    /\ view = [o \in Owners |-> {}] /\ watching = FALSE
    /\ last = "start" /\ since = [o \in Owners |-> {}]
=============================================================================
