---------------------------- MODULE ResourceGrants ----------------------------
(***************************************************************************)
(* What the efficiency resource manager promises: a kind of resource is in *)
(* force for its owner until the latest time that was asked for, or for    *)
(* ever once that was asked for, unless a reset withdraws it.  The only    *)
(* other way to lose it is the end of the service, after which what was    *)
(* saved last is in force again, except for owners that have gone.         *)
(***************************************************************************)
EXTENDS Integers

CONSTANTS
    Owners, Kinds,
    Times       \* the times that can be asked for, one of which stands for ever

VARIABLES
    until,      \* until when each kind is in force for each owner; 0: it is not
    saved,      \* the same, as it was saved last
    now,        \* the time
    last        \* what happened last: "start", "apply", "reset" or "timeout"

gvars == <<until, saved, now, last>>

Nothing == [o \in Owners |-> [k \in Kinds |-> 0]]

Init == until = Nothing /\ saved = Nothing /\ now = 1 /\ last = "start"

Max2(a, b) == IF a < b THEN b ELSE a

Without(S) == [o \in Owners |-> [k \in Kinds |-> IF <<o, k>> \in S THEN 0 ELSE until[o][k]]]

\* Some owner asks for the kinds K until e.
Promise ==
    /\ last' = "apply"
    /\ \E o \in Owners, K \in SUBSET Kinds, e \in Times :
           /\ e > now
           /\ until' = [until EXCEPT ![o] =
                            [k \in Kinds |-> IF k \in K THEN Max2(@[k], e) ELSE @[k]]]
    /\ UNCHANGED <<saved, now>>

\* A reset withdraws what it names.
Withdraw ==
    /\ last' = "reset"
    /\ \E S \in SUBSET (Owners \X Kinds) : until' = Without(S)
    /\ UNCHANGED <<saved, now>>

\* What an owner holds lapses when its time is over, and not before.
Lapse ==
    /\ last' = "timeout"
    /\ \E o \in Owners : until' = Without({o} \X {k \in Kinds : until[o][k] <= now})
    /\ UNCHANGED <<saved, now>>

Save ==
    /\ saved' = until
    /\ UNCHANGED <<until, now, last>>

\* The service ends: back to what was saved, or to nothing if saving was cut
\* short.
End ==
    /\ last' = "start"
    /\ saved' \in {saved, Nothing}
    /\ until' = saved'
    /\ now' \in {now, 1}

\* The service starts, and some owners have gone.
Forget ==
    /\ last' = "start"
    /\ \E S \in SUBSET Owners : until' = Without(S \X Kinds)
    /\ UNCHANGED <<saved, now>>

Pass ==
    /\ now' = now + 1
    /\ UNCHANGED <<until, saved, last>>

Next == Promise \/ Withdraw \/ Lapse \/ Save \/ End \/ Forget \/ Pass

Spec == Init /\ [][Next]_gvars
=============================================================================
