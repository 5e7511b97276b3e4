--------------------------- MODULE MCResourcesLive ---------------------------
(***************************************************************************)
(* Liveness of EfficiencyResources: the runner is a thread that takes what *)
(* is posted to it, an IPC thread finishes its call, and time passes.      *)
(***************************************************************************)
EXTENDS MCResources

LiveSpec ==
    /\ WatchInit /\ [][Runner \/ CallNext \/ Processes \/ Subscribe \/ Tick]_vars
    /\ WF_vars(RunTask)
    /\ WF_vars(\E t \in timers : ResetTimeOutResource(t[1], t[2]))
    /\ WF_vars(RefreshResourceRecord)
    /\ WF_vars(\E p \in Pids : Posts(p))
    /\ WF_vars(Tick)

\* What was applied for a time is reset in the end, or made persistent
\* (ResetTimeOutResource).
TimedIsReset ==
    \A o \in Owners, k \in Kinds : Timed(rec[o], k) ~> ~Timed(rec[o], k)
=============================================================================
