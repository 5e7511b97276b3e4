----------------------------- MODULE MCTransient -----------------------------
(* Instances of TransientTask for TLC. *)
EXTENDS TransientTask, TLC

CONSTANTS a1, a2, p1, p2, c1, c2

\* Every process belongs to a1.
OneApp == [p \in Pid |-> a1]

CallbackSymmetry == Permutations(Callback)

\* Requests, their ends and the events that race them; no screen, battery,
\* suspend manager or quota queries, and no process dies.
ExpiryNext ==
    \/ \E a \in App, cb \in Callback : RequestSuspendDelay(a, cb)
    \/ \E a \in App, id \in Ids : CancelSuspendDelay(a, id)
    \/ \E cb \in Callback : HandleExpiredCallbackDeath(cb)
    \/ TimerNext
    \/ CacheNext
    \/ \E p \in Pid, kind \in {"foreground", "background"} : ProcessChanges(p, kind)
    \/ UpdateForegroundUidPidMap
    \/ HandleStateChange
    \/ Tick

ExpirySpec == Init /\ [][ExpiryNext]_vars

\* Requests without the death of callbacks and without timers: what only
\* concerns when a request is counted.
RequestNext ==
    \/ \E a \in App, cb \in Callback : RequestSuspendDelay(a, cb)
    \/ \E a \in App, id \in Ids : CancelSuspendDelay(a, id)
    \/ \E a \in App : GetQuota(a)

\* Pause, start and the death of the suspend manager, screen events, dump
\* commands and foreground changes race requests, over more than one quota day.
AccountNext ==
    \/ \E a \in App, cb \in Callback : RequestSuspendDelay(a, cb)
    \/ \E a \in App, id \in Ids : CancelSuspendDelay(a, id)
    \/ ScreenNext
    \/ \E value \in BOOLEAN : SetDump(value)
    \/ InnerNext
    \/ \E p \in Pid, kind \in {"foreground", "background"} : ProcessChanges(p, kind)
    \/ UpdateForegroundUidPidMap
    \/ HandleStateChange
    \/ Tick

AccountSpec == Init /\ [][AccountNext]_vars

\* The clock waits for the runner: no event is handled late.
RunnerTick ==
    /\ Tick
    /\ runner = Idle
    /\ \A t \in DueTimes : t > clock

\* Nothing at all is late.
PromptTick == RunnerTick /\ inner = <<>> /\ plugin = <<>> /\ events = <<>>

PromptNext == RequestNext \/ TimerNext \/ InnerNext \/ ProcessNext \/ PromptTick

PromptSpec == Init /\ [][PromptNext]_vars
=============================================================================
