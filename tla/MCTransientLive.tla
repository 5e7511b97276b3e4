--------------------------- MODULE MCTransientLive ---------------------------
(* Liveness of TransientTask: requests and their ends when the runner is not *)
(* late.  A process changes state only finitely often in a finite time, so   *)
(* the number of changes is bounded.                                         *)
EXTENDS MCTransient

CONSTANT MaxChanges     \* bound on the process state changes

VARIABLE changes

LiveVars == <<vars, changes>>

LiveInit == Init /\ changes = 0

LiveNext ==
    \/ /\ AppNext \/ TimerNext \/ CacheNext \/ RunnerTick
          \/ BatteryEvent \/ UpdateForegroundUidPidMap \/ HandleStateChange
       /\ UNCHANGED changes
    \/ /\ changes < MaxChanges
       /\ changes' = changes + 1
       /\ \E p \in Pid, kind \in {"foreground", "background", "died"} :
            ProcessChanges(p, kind)

\* Time passes, and the runner, which has its own thread, takes due events and
\* returns from its handlers.
LiveSpec ==
    /\ LiveInit /\ [][LiveNext]_LiveVars
    /\ WF_LiveVars(RunnerTick /\ UNCHANGED changes)
    /\ WF_LiveVars((TimerNext \/ \E i \in Ids : CancelCached(i)) /\ UNCHANGED changes)
=============================================================================
