--------------------------- MODULE TaskClientProofs ---------------------------
(***************************************************************************)
(* Invariants of TaskClient and TaskService for any number of native       *)
(* services, callback types, workers and calls.                            *)
(***************************************************************************)
EXTENDS TaskClient, TLAPS

-----------------------------------------------------------------------------
(* Operations on the tasks of others.                                      *)

\* What the service lets through is guarded, whoever the caller is.
LEMMA GuardedStep ==
  ASSUME NEW op, NEW c, NativeOperation(op, c)
  PROVE  OthersTasksGuarded'
<1>1. last' = [op |-> op, caller |-> c, ans |-> Gate(op, c), scope |-> ContinuousAppsScope(op, c)]
  BY Zenon DEF NativeOperation
<1>2. ContinuousAppsScope(op, c) = "all" => CheckCallingToken(c)
  BY Zenon DEF ContinuousAppsScope
<1>3. op \in SchedulerOps => Gate(op, c) = SchedulerGate(c)
  BY Zenon DEF Gate, SchedulerOps, ReportOps, ConfigOps, AuthOps, StateOps
<1>4. op \in ReportOps => Gate(op, c) = ReportGate(c)
  BY Zenon DEF Gate, SchedulerOps, ReportOps, ConfigOps, AuthOps, StateOps
<1>5. op \in ConfigOps => Gate(op, c) = ConfigGate(c)
  BY Zenon DEF Gate, SchedulerOps, ReportOps, ConfigOps, AuthOps, StateOps
<1>6. op \in StateOps => Gate(op, c) = TaskStateGate(c)
  BY Zenon DEF Gate, SchedulerOps, ReportOps, ConfigOps, AuthOps, StateOps
<1>7. op = "GetAllContinuousTasksBySystem" => Gate(op, c) = SystemListGate(c)
  BY Zenon DEF Gate, SchedulerOps, ReportOps, ConfigOps, AuthOps, StateOps
<1>8. SchedulerGate(c) = "none" => CheckCallingToken(c) /\ c.rss
  BY Zenon DEF SchedulerGate, CheckCallingProcess, Denied
<1>9. \A perm : StateGate(c, perm) = "none" => c.kind = "hap" /\ c.system
  BY Zenon DEF StateGate, Denied, NotSystem
<1>10. CheckCallingToken(c) => c.kind # "hap"
  BY Zenon DEF CheckCallingToken
<1> QED
  BY <1>1, <1>2, <1>3, <1>4, <1>5, <1>6, <1>7, <1>8, <1>9, <1>10, Zenon
  DEF OthersTasksGuarded, ReportGate, ConfigGate, TaskStateGate, SystemListGate

\* Operations on the tasks and the decisions of other applications are let through to
\* the scheduler's service or to a system application only, whatever services and
\* applications call (background_task_mgr_service.cpp).
THEOREM OthersTasksAlwaysGuarded == Spec => []OthersTasksGuarded
<1>1. Init => OthersTasksGuarded
  <2>1. Init => last.op = "none" /\ last.scope = "none"
    <3> SUFFICES ASSUME Init
                 PROVE  last.op = "none" /\ last.scope = "none"
      BY Zenon
    <3>1. PICK c : last = [op |-> "none", caller |-> c, ans |-> "none", scope |-> "none"]
      BY Zenon DEF Init, ServiceInit
    <3> QED
      BY <3>1, Zenon
  <2> QED
    BY <2>1, Zenon DEF OthersTasksGuarded, SchedulerOps, ReportOps, ConfigOps, StateOps
<1>2. OthersTasksGuarded /\ [Next]_vars => OthersTasksGuarded'
  <2> SUFFICES ASSUME OthersTasksGuarded, [Next]_vars
               PROVE  OthersTasksGuarded'
    BY Zenon
  <2>1. OperationNext => OthersTasksGuarded'
    BY GuardedStep, Zenon DEF OperationNext
  <2>2. LifeNext \/ NativeNext \/ ProxyNext \/ SubNext \/ CallNext \/ DelayNext \/ UNCHANGED vars
        => UNCHANGED last
    <3>1. LifeNext => UNCHANGED last
      BY Zenon DEF LifeNext, Starts, Readies, Dies, OnStart, SetReady, ServiceDies
    <3>2. NativeNext => UNCHANGED last
      BY Zenon DEF NativeNext, NativeCalls, AddSubscriber, RemoveSubscriber, TransientSubscribe,
        TransientUnsubscribe, EfficiencyAddSubscriber, EfficiencyRemoveSubscriber, NativeDies,
        OnRemoteSubscriberDied, HandleSubscriberDeath, EfficiencySubscriberDied
    <3>3. ProxyNext => UNCHANGED last
      BY Zenon
         DEF ProxyNext, ThreadNext, GetBackgroundTaskManagerProxy, AddDeathRecipient, Send, Reply,
        ResetBackgroundTaskManagerProxy, serviceVars
    <3>4. SubNext => UNCHANGED last
      BY Zenon DEF SubNext, SubscribeBackgroundTask, RemoveJsObserverObject, AddJsObserverObject,
        UnSubscribeBackgroundTask, OnRemoveSystemAbility, OnAddSystemAbility, RestoreDone,
        serviceVars
    <3>5. CallNext => UNCHANGED last
      BY Zenon DEF CallNext, IssueCall, Execute, Executed, CompletedCB, SyncReturns, serviceVars
    <3>6. DelayNext => UNCHANGED last
      BY Zenon
         DEF DelayNext, RequestSuspendDelay, RegisterCallback, CancelSuspendDelay, ForgetCallback,
        HandleRequestExpired, OnExpired, RunExpired, serviceVars
    <3>7. UNCHANGED vars => UNCHANGED last
      BY Zenon DEF vars, serviceVars
    <3> QED
      BY <3>1, <3>2, <3>3, <3>4, <3>5, <3>6, <3>7, Zenon
  <2>3. UNCHANGED last => OthersTasksGuarded'
    BY Zenon DEF OthersTasksGuarded
  <2> QED
    BY <2>1, <2>2, <2>3, Zenon DEF Next
<1> QED
  BY <1>1, <1>2, PTL DEF Spec

-----------------------------------------------------------------------------
(* The subscribing services.                                               *)

NativeTypes ==
  /\ cont \in [Subscribers -> SUBSET (Flags \cup {"SA", "HAP"})]
  /\ tran \in SUBSET Natives
  /\ eff \in SUBSET Natives
  /\ nat \in [Natives -> [alive : BOOLEAN, at : Registries \cup {"idle"},
                          op : {"none", "subscribe", "unsubscribe"}, ans : {"none", "ok", NotReady},
                          late : BOOLEAN]]

\* A live service is watched by exactly the managers that know it; its call has
\* reached those before the one it is at.
LiveAgrees(n) ==
  /\ \A m \in Registries : /\ <<m, n>> \notin dying
                           /\ Registered(m, n) <=> <<m, n>> \in watch
  /\ nat[n].at \in {"idle", "cont"} =>
       /\ Registered("cont", n) <=> Registered("tran", n)
       /\ Registered("tran", n) <=> Registered("eff", n)
  /\ nat[n].at = "tran" =>
       /\ Registered("cont", n) <=> nat[n].op = "subscribe"
       /\ Registered("tran", n) <=> Registered("eff", n)
  /\ nat[n].at = "eff" =>
       /\ Registered("cont", n) <=> nat[n].op = "subscribe"
       /\ Registered("tran", n) <=> nat[n].op = "subscribe"
  /\ nat[n].at # "idle" => nat[n].op # "none"

\* A service that died outside a call is known where its death has not arrived.
DeadAgrees(n) ==
  /\ \A m \in Registries : <<m, n>> \notin watch
  /\ ~nat[n].late => /\ nat[n].at = "idle"
                     /\ \A m \in Registries : Registered(m, n) => <<m, n>> \in dying

NativeInv ==
  /\ NativeTypes
  /\ \A n \in Natives : (nat[n].alive => LiveAgrees(n)) /\ (~nat[n].alive => DeadAgrees(n))

\* A service whose entries and call are left alone.
LEMMA NativeKept ==
  ASSUME NEW n \in Natives, NEW k \in Natives, n # k, nat'[n] = nat[n],
         \A m \in Registries :
           /\ Registered(m, n)' <=> Registered(m, n)
           /\ <<m, n>> \in watch' <=> <<m, n>> \in watch
           /\ <<m, n>> \in dying' <=> <<m, n>> \in dying,
         (nat[n].alive => LiveAgrees(n)) /\ (~nat[n].alive => DeadAgrees(n))
  PROVE  (nat'[n].alive => LiveAgrees(n)') /\ (~nat'[n].alive => DeadAgrees(n)')
  BY Zenon DEF LiveAgrees, DeadAgrees, Registries

NativeFine(n) == (nat[n].alive => LiveAgrees(n)) /\ (~nat[n].alive => DeadAgrees(n))

\* A step of the call of k, or the death of k arriving at a manager.
LEMMA NativeOf ==
  ASSUME NativeInv, NEW k \in Natives, NativeTypes',
         \A n \in Natives : n # k => nat'[n] = nat[n],
         \A n \in Natives, m \in Registries : n # k =>
           /\ Registered(m, n)' <=> Registered(m, n)
           /\ <<m, n>> \in watch' <=> <<m, n>> \in watch
           /\ <<m, n>> \in dying' <=> <<m, n>> \in dying,
         NativeFine(k)'
  PROVE  NativeInv'
<1>1. ASSUME NEW n \in Natives, n # k
      PROVE  NativeFine(n)'
  <2>1. nat'[n] = nat[n] /\ NativeFine(n)
    BY <1>1, Zenon DEF NativeInv, NativeFine
  <2> QED
    BY <1>1, <2>1, NativeKept, Zenon DEF NativeFine
<1> QED
  BY <1>1, Zenon DEF NativeInv, NativeFine

LEMMA NativeCallSteps ==
  ASSUME NativeInv, NEW k \in Natives, NEW op \in {"subscribe", "unsubscribe"},
         NativeCalls(k, op)
  PROVE  NativeInv'
<1>0. /\ NativeTypes /\ NativeFine(k) /\ nat[k].alive /\ nat[k].at = "idle"
      /\ nat' = [nat EXCEPT ![k] = [@ EXCEPT !.at = "cont", !.op = op, !.ans = "none"]]
      /\ UNCHANGED <<cont, tran, eff, watch, dying>>
  BY Zenon DEF NativeInv, NativeFine, NativeCalls
<1>1. NativeTypes'
  BY <1>0, ZenonT(30) DEF NativeTypes, Registries
<1>2. nat'[k].alive /\ nat'[k].at = "cont" /\ nat'[k].op = op
  BY <1>0, Zenon DEF NativeTypes
<1>3. NativeFine(k)'
  BY <1>0, <1>2, Zenon DEF NativeFine, LiveAgrees, Registered, Registries
<1> QED
  BY <1>0, <1>1, <1>3, NativeOf, Zenon DEF Registered, NativeTypes

\* Manager m enters or removes k and hands its call on.
LEMMA ManagerStep ==
  ASSUME NativeInv, NEW k \in Natives, NEW m \in Registries, NativeTypes',
         nat[k].at = m, nat[k].op \in {"subscribe", "unsubscribe"},
         nat'[k].at = IF m = "cont" THEN "tran" ELSE IF m = "tran" THEN "eff" ELSE "idle",
         (nat'[k].alive <=> nat[k].alive), nat'[k].op = nat[k].op, (nat'[k].late <=> nat[k].late),
         \A n \in Natives : n # k => nat'[n] = nat[n],
         Registered(m, k)' <=> nat[k].op = "subscribe",
         \A n \in Natives, j \in Registries : n # k \/ j # m =>
           (Registered(j, n)' <=> Registered(j, n)),
         \/ nat[k].op = "subscribe" /\ Registered(m, k) /\ watch' = watch
         \/ nat[k].op = "subscribe" /\ ~Registered(m, k) /\ watch' = Watched(m, k)
         \/ nat[k].op = "unsubscribe" /\ watch' = watch \ {<<m, k>>},
         dying' = dying
  PROVE  NativeInv'
<1>0. NativeTypes /\ NativeFine(k) /\ nat[k].alive \in BOOLEAN
  BY Zenon DEF NativeInv, NativeFine, NativeTypes
<1>1. \A n \in Natives, j \in Registries : n # k \/ j # m =>
        (<<j, n>> \in watch' <=> <<j, n>> \in watch)
  BY DEF Watched
<1>2. ~nat[k].alive => (<<m, k>> \in watch' => <<m, k>> \in watch)
  BY Zenon DEF Watched
<1>3. nat[k].alive => (<<m, k>> \in watch' <=> nat[k].op = "subscribe")
  <2> SUFFICES ASSUME nat[k].alive
               PROVE  <<m, k>> \in watch' <=> nat[k].op = "subscribe"
    BY Zenon
  <2>1. Registered(m, k) <=> <<m, k>> \in watch
    BY <1>0, Zenon DEF NativeFine, LiveAgrees
  <2>2. Watched(m, k) = watch \cup {<<m, k>>}
    BY Zenon DEF Watched
  <2> QED
    BY <2>1, <2>2, Zenon
<1>4. NativeFine(k)'
  <2>1. CASE nat[k].alive
    <3>1. LiveAgrees(k)
      BY <1>0, <2>1, Zenon DEF NativeFine
    <3>2. \A j \in Registries : /\ <<j, k>> \notin dying'
                                /\ Registered(j, k)' <=> <<j, k>> \in watch'
      BY <1>1, <1>3, <2>1, <3>1, Zenon DEF LiveAgrees
    <3>3. m = "cont" => LiveAgrees(k)'
      BY <2>1, <3>1, <3>2, Zenon DEF LiveAgrees, Registries
    <3>4. m = "tran" => LiveAgrees(k)'
      BY <2>1, <3>1, <3>2, Zenon DEF LiveAgrees, Registries
    <3>5. m = "eff" => LiveAgrees(k)'
      BY <2>1, <3>1, <3>2, Zenon DEF LiveAgrees, Registries
    <3> QED
      BY <2>1, <3>3, <3>4, <3>5, Zenon DEF NativeFine, Registries
  <2>2. CASE ~nat[k].alive
    <3>1. DeadAgrees(k)
      BY <1>0, <2>2, Zenon DEF NativeFine
    <3>2. DeadAgrees(k)'
      BY <1>1, <1>2, <2>2, <3>1, Zenon DEF DeadAgrees, Registries
    <3> QED
      BY <2>2, <3>2, Zenon DEF NativeFine
  <2> QED
    BY <1>0, <2>1, <2>2, Zenon
<1> QED
  BY <1>0, <1>1, <1>4, NativeOf, Zenon

LEMMA ManagerSteps ==
  ASSUME NativeInv, NEW k \in Natives,
         \/ AddSubscriber(k) \/ RemoveSubscriber(k)
         \/ TransientSubscribe(k) \/ TransientUnsubscribe(k)
         \/ EfficiencyAddSubscriber(k) \/ EfficiencyRemoveSubscriber(k)
  PROVE  NativeInv'
<1>0. NativeTypes /\ k \in Subscribers /\ Natives \subseteq Subscribers
  BY Zenon DEF NativeInv, Subscribers
<1>1. CASE AddSubscriber(k)
  <2>1. /\ nat[k].at = "cont" /\ nat[k].op = "subscribe" /\ nat' = [nat EXCEPT ![k].at = "tran"]
        /\ UNCHANGED <<tran, eff, dying>>
    BY <1>1, Zenon DEF AddSubscriber
  <2>2. \/ cont[k] = {} /\ cont' = [cont EXCEPT ![k] = {"SA"}] /\ watch' = Watched("cont", k)
        \/ cont[k] # {} /\ UNCHANGED <<cont, watch>>
    BY <1>1, Zenon DEF AddSubscriber
  <2>3. NativeTypes'
    <3>1. cont' \in [Subscribers -> SUBSET (Flags \cup {"SA", "HAP"})]
      BY <1>0, <2>2, Zenon DEF NativeTypes
    <3> QED
      BY <1>0, <2>1, <3>1 DEF NativeTypes, Registries
  <2>4. cont'[k] # {} /\ \A n \in Natives : n # k => cont'[n] = cont[n]
    BY <1>0, <2>2 DEF NativeTypes
  <2>5. /\ nat'[k].at = "tran" /\ nat'[k].op = nat[k].op
        /\ (nat'[k].alive <=> nat[k].alive) /\ (nat'[k].late <=> nat[k].late)
        /\ \A n \in Natives : n # k => nat'[n] = nat[n]
    BY <1>0, <2>1, Zenon DEF NativeTypes
  <2>6. /\ Registered("cont", k)'
        /\ \A n \in Natives, j \in Registries : n # k \/ j # "cont" =>
             (Registered(j, n)' <=> Registered(j, n))
        /\ Registered("cont", k) <=> cont[k] # {}
        /\ "cont" \in Registries
    BY <2>1, <2>4, Zenon DEF Registered, Registries
  <2> QED
    BY <2>1, <2>2, <2>3, <2>5, <2>6, ManagerStep
<1>2. CASE RemoveSubscriber(k)
  <2>1. /\ nat[k].at = "cont" /\ nat[k].op = "unsubscribe" /\ nat' = [nat EXCEPT ![k].at = "tran"]
        /\ UNCHANGED <<tran, eff, dying>>
        /\ cont' = [cont EXCEPT ![k] = {}] /\ watch' = watch \ {<<"cont", k>>}
    BY <1>2, Zenon DEF RemoveSubscriber
  <2>3. NativeTypes'
    BY <1>0, <2>1 DEF NativeTypes, Registries
  <2>4. cont'[k] = {} /\ \A n \in Natives : n # k => cont'[n] = cont[n]
    BY <1>0, <2>1, Zenon DEF NativeTypes
  <2>5. /\ nat'[k].at = "tran" /\ nat'[k].op = nat[k].op
        /\ (nat'[k].alive <=> nat[k].alive) /\ (nat'[k].late <=> nat[k].late)
        /\ \A n \in Natives : n # k => nat'[n] = nat[n]
    BY <1>0, <2>1, Zenon DEF NativeTypes
  <2>6. /\ ~Registered("cont", k)'
        /\ \A n \in Natives, j \in Registries : n # k \/ j # "cont" =>
             (Registered(j, n)' <=> Registered(j, n))
        /\ "cont" \in Registries
    BY <2>1, <2>4, Zenon DEF Registered, Registries
  <2> QED
    BY <2>1, <2>3, <2>5, <2>6, ManagerStep
<1>3. CASE TransientSubscribe(k) \/ TransientUnsubscribe(k)
  <2>1. /\ nat[k].at = "tran" /\ nat[k].op \in {"subscribe", "unsubscribe"}
        /\ nat' = [nat EXCEPT ![k].at = "eff"]
        /\ UNCHANGED <<cont, eff, dying>>
    BY <1>3, Zenon DEF TransientSubscribe, TransientUnsubscribe
  <2>2. \/ nat[k].op = "subscribe" /\ k \in tran /\ tran' = tran \cup {k} /\ watch' = watch
        \/ nat[k].op = "subscribe" /\ k \notin tran /\ tran' = tran \cup {k} /\ watch' = Watched("tran", k)
        \/ nat[k].op = "unsubscribe" /\ tran' = tran \ {k} /\ watch' = watch \ {<<"tran", k>>}
    BY <1>3, Zenon DEF TransientSubscribe, TransientUnsubscribe
  <2>3. NativeTypes'
    BY <1>0, <2>1, <2>2 DEF NativeTypes, Registries
  <2>5. /\ nat'[k].at = "eff" /\ nat'[k].op = nat[k].op
        /\ (nat'[k].alive <=> nat[k].alive) /\ (nat'[k].late <=> nat[k].late)
        /\ \A n \in Natives : n # k => nat'[n] = nat[n]
    BY <1>0, <2>1, Zenon DEF NativeTypes
  <2>6. /\ Registered("tran", k)' <=> nat[k].op = "subscribe"
        /\ \A n \in Natives, j \in Registries : n # k \/ j # "tran" =>
             (Registered(j, n)' <=> Registered(j, n))
        /\ Registered("tran", k) <=> k \in tran
        /\ "tran" \in Registries
    BY <2>1, <2>2, Zenon DEF Registered, Registries
  <2> QED
    BY <2>1, <2>2, <2>3, <2>5, <2>6, ManagerStep, Zenon
<1>4. CASE EfficiencyAddSubscriber(k) \/ EfficiencyRemoveSubscriber(k)
  <2>1. /\ nat[k].at = "eff" /\ nat[k].op \in {"subscribe", "unsubscribe"}
        /\ \E ans \in {"ok", NotReady} : nat' = [nat EXCEPT ![k] = [@ EXCEPT !.at = "idle", !.ans = ans]]
        /\ UNCHANGED <<cont, tran, dying>>
    BY <1>4, Zenon DEF EfficiencyAddSubscriber, EfficiencyRemoveSubscriber
  <2>2. \/ nat[k].op = "subscribe" /\ k \in eff /\ eff' = eff \cup {k} /\ watch' = watch
        \/ nat[k].op = "subscribe" /\ k \notin eff /\ eff' = eff \cup {k} /\ watch' = Watched("eff", k)
        \/ nat[k].op = "unsubscribe" /\ eff' = eff \ {k} /\ watch' = watch \ {<<"eff", k>>}
    BY <1>4, Zenon DEF EfficiencyAddSubscriber, EfficiencyRemoveSubscriber
  <2>3. NativeTypes'
    <3>1. eff' \in SUBSET Natives
      BY <1>0, <2>2, Zenon DEF NativeTypes
    <3>2. PICK ans \in {"ok", NotReady} : nat' = [nat EXCEPT ![k] = [@ EXCEPT !.at = "idle", !.ans = ans]]
      BY <2>1, Zenon
    <3> DEFINE N == [alive : BOOLEAN, at : Registries \cup {"idle"},
                     op : {"none", "subscribe", "unsubscribe"}, ans : {"none", "ok", NotReady},
                     late : BOOLEAN]
    <3>3. nat \in [Natives -> N]
      BY <1>0, Zenon DEF NativeTypes
    <3>4. [nat[k] EXCEPT !.at = "idle", !.ans = ans] \in N
      BY <3>2, <3>3, Zenon
    <3> HIDE DEF N
    <3>5. nat' \in [Natives -> N]
      BY <3>2, <3>3, <3>4, Zenon
    <3> QED
      BY <1>0, <2>1, <3>1, <3>5, Zenon DEF NativeTypes, N
  <2>5. /\ nat'[k].at = "idle" /\ nat'[k].op = nat[k].op
        /\ (nat'[k].alive <=> nat[k].alive) /\ (nat'[k].late <=> nat[k].late)
        /\ \A n \in Natives : n # k => nat'[n] = nat[n]
    <3>1. PICK ans \in {"ok", NotReady} : nat' = [nat EXCEPT ![k] = [@ EXCEPT !.at = "idle", !.ans = ans]]
      BY Zenon, <2>1
    <3> QED
      BY <1>0, <3>1 DEF NativeTypes
  <2>6. /\ Registered("eff", k)' <=> nat[k].op = "subscribe"
        /\ \A n \in Natives, j \in Registries : n # k \/ j # "eff" =>
             (Registered(j, n)' <=> Registered(j, n))
        /\ Registered("eff", k) <=> k \in eff
        /\ "eff" \in Registries
    BY <2>1, <2>2, Zenon DEF Registered, Registries
  <2> QED
    BY <2>1, <2>2, <2>3, <2>5, <2>6, ManagerStep, Zenon
<1> QED
  BY <1>1, <1>2, <1>3, <1>4, Zenon

\* k dies, and the managers that watch it are to be told.
LEMMA NativeDeath ==
  ASSUME NativeInv, NEW k \in Natives, NativeDies(k)
  PROVE  NativeInv'
<1>0. /\ NativeTypes /\ NativeFine(k) /\ nat[k].alive
      /\ nat' = [nat EXCEPT ![k] = [@ EXCEPT !.alive = FALSE, !.late = nat[k].at # "idle"]]
      /\ dying' = dying \cup {w \in watch : w[2] = k}
      /\ watch' = {w \in watch : w[2] # k}
      /\ UNCHANGED <<cont, tran, eff>>
  BY Zenon DEF NativeInv, NativeFine, NativeDies
<1>1. /\ ~nat'[k].alive /\ nat'[k].at = nat[k].at
      /\ ~nat'[k].late => nat[k].at = "idle"
      /\ \A n \in Natives : n # k => nat'[n] = nat[n]
  <2>1. \A n \in Natives : n # k => nat'[n] = nat[n]
    BY <1>0, Zenon DEF NativeTypes
  <2>2. nat'[k] = [nat[k] EXCEPT !.alive = FALSE, !.late = nat[k].at # "idle"]
    BY <1>0, Zenon DEF NativeTypes
  <2>3. nat'[k].at = nat[k].at
    BY <1>0, <2>2, Zenon DEF NativeTypes
  <2>4. ~nat'[k].alive
    BY <1>0, <2>2, Zenon DEF NativeTypes
  <2>5. nat'[k].late = (nat[k].at # "idle")
    BY <1>0, <2>2 DEF NativeTypes
  <2> QED
    BY Zenon, <2>1, <2>3, <2>4, <2>5
<1>2. NativeTypes'
  <2> DEFINE N == [alive : BOOLEAN, at : Registries \cup {"idle"},
                   op : {"none", "subscribe", "unsubscribe"}, ans : {"none", "ok", NotReady},
                   late : BOOLEAN]
  <2>1. nat \in [Natives -> N]
    BY <1>0, Zenon DEF NativeTypes
  <2>2. \A b \in BOOLEAN : [nat[k] EXCEPT !.alive = FALSE, !.late = b] \in N
    BY Zenon, <2>1
  <2>3. nat'[k] \in N
    <3>1. nat'[k] = [nat[k] EXCEPT !.alive = FALSE, !.late = nat[k].at # "idle"]
      BY <1>0, Zenon DEF NativeTypes
    <3>2. (nat[k].at # "idle") \in BOOLEAN
      BY Zenon
    <3> QED
      BY <2>2, <3>1, <3>2, Zenon
  <2> HIDE DEF N
  <2>4. nat' \in [Natives -> N]
    BY <1>0, <2>1, <2>3, Zenon
  <2> QED
    BY <1>0, <2>4, Zenon DEF NativeTypes, N
<1>3. \A n \in Natives, m \in Registries :
        /\ <<m, n>> \in watch' <=> n # k /\ <<m, n>> \in watch
        /\ <<m, n>> \in dying' <=> <<m, n>> \in dying \/ (n = k /\ <<m, n>> \in watch)
        /\ Registered(m, n)' <=> Registered(m, n)
  BY <1>0, Zenon DEF Registered
<1>4. LiveAgrees(k)
  BY <1>0, Zenon DEF NativeFine
<1>5. DeadAgrees(k)'
  BY <1>1, <1>3, <1>4, Zenon DEF LiveAgrees, DeadAgrees
<1> QED
  BY <1>1, <1>2, <1>3, <1>5, NativeOf, Zenon DEF NativeFine

LEMMA DeathArrives ==
  ASSUME NativeInv, NEW k \in Natives,
         OnRemoteSubscriberDied(k) \/ HandleSubscriberDeath(k) \/ EfficiencySubscriberDied(k)
  PROVE  NativeInv'
<1>0. NativeTypes /\ NativeFine(k) /\ Natives \subseteq Subscribers /\ nat' = nat /\ watch' = watch
  BY Zenon DEF NativeInv, NativeFine, Subscribers, OnRemoteSubscriberDied, HandleSubscriberDeath,
    EfficiencySubscriberDied
<1>1. PICK m \in Registries :
        /\ <<m, k>> \in dying /\ dying' = dying \ {<<m, k>>}
        /\ ~Registered(m, k)'
        /\ \A n \in Natives, j \in Registries : n # k \/ j # m =>
             (Registered(j, n)' <=> Registered(j, n))
        /\ NativeTypes'
  <2>1. CASE OnRemoteSubscriberDied(k)
    <3>1. cont'[k] = {} /\ \A n \in Natives : n # k => cont'[n] = cont[n]
      BY <1>0, <2>1, Zenon DEF NativeTypes, OnRemoteSubscriberDied
    <3>2. NativeTypes'
      BY <1>0, <2>1, Zenon DEF NativeTypes, OnRemoteSubscriberDied
    <3>3. "cont" \in Registries
      BY Zenon DEF Registries
    <3> QED
      BY <2>1, <3>1, <3>2, <3>3, Zenon DEF OnRemoteSubscriberDied, Registered
  <2>2. CASE HandleSubscriberDeath(k)
    <3>1. NativeTypes' /\ "tran" \in Registries
      BY <1>0, <2>2, Zenon DEF NativeTypes, HandleSubscriberDeath, Registries
    <3> QED
      BY <2>2, <3>1, Zenon DEF HandleSubscriberDeath, Registered
  <2>3. CASE EfficiencySubscriberDied(k)
    <3>1. NativeTypes' /\ "eff" \in Registries
      BY <1>0, <2>3, Zenon DEF NativeTypes, EfficiencySubscriberDied, Registries
    <3> QED
      BY <2>3, <3>1, Zenon DEF EfficiencySubscriberDied, Registered
  <2> QED
    BY Zenon, <2>1, <2>2, <2>3
<1>2. ~nat[k].alive
  BY <1>0, <1>1, Zenon DEF NativeFine, LiveAgrees, NativeTypes
<1>3. DeadAgrees(k)
  BY <1>0, <1>2, Zenon DEF NativeFine
<1>4. DeadAgrees(k)'
  BY <1>0, <1>1, <1>3, Zenon DEF DeadAgrees
<1>5. \A n \in Natives, j \in Registries : n # k => (<<j, n>> \in dying' <=> <<j, n>> \in dying)
  BY <1>1, Zenon
<1> QED
  BY <1>0, <1>1, <1>2, <1>4, <1>5, NativeOf, Zenon DEF NativeFine

\* Steps that leave the services alone.
LEMMA NativeFrame ==
  ASSUME NativeInv, NativeTypes', UNCHANGED <<tran, eff, watch, dying, nat>>,
         \A n \in Natives : cont'[n] = cont[n]
  PROVE  NativeInv'
<1>1. ASSUME NEW n \in Natives
      PROVE  NativeFine(n)'
  <2>1. NativeFine(n) /\ \A m : Registered(m, n)' <=> Registered(m, n)
    BY Zenon DEF NativeInv, NativeFine, Registered
  <2> QED
    BY <2>1, Zenon DEF NativeFine, LiveAgrees, DeadAgrees
<1> QED
  BY <1>1, Zenon DEF NativeInv, NativeFine

\* The service dies with its registries and the calls it was serving.
LEMMA NativeServiceDies ==
  ASSUME NativeInv, ServiceDies
  PROVE  NativeInv'
<1>0. /\ NativeTypes /\ Natives \subseteq Subscribers
      /\ cont' = [s \in Subscribers |-> {}] /\ tran' = {} /\ eff' = {}
      /\ watch' = {} /\ dying' = {}
      /\ nat' = [n \in Natives |-> [nat[n] EXCEPT !.at = "idle", !.op = "none", !.ans = "none",
                                                   !.late = FALSE]]
  BY Zenon DEF NativeInv, ServiceDies, Subscribers
<1>1. NativeTypes'
  <2> DEFINE N == [alive : BOOLEAN, at : Registries \cup {"idle"},
                   op : {"none", "subscribe", "unsubscribe"}, ans : {"none", "ok", NotReady},
                   late : BOOLEAN]
  <2>1. nat \in [Natives -> N]
    BY <1>0, Zenon DEF NativeTypes
  <2>2. \A n \in Natives : [nat[n] EXCEPT !.at = "idle", !.op = "none", !.ans = "none", !.late = FALSE] \in N
    BY <2>1, ZenonT(30)
  <2> HIDE DEF N
  <2>3. nat' \in [Natives -> N]
    BY <1>0, <2>2, Zenon
  <2> QED
    BY <1>0, <2>3, ZenonT(30) DEF NativeTypes, N
<1>2. ASSUME NEW n \in Natives
      PROVE  NativeFine(n)'
  <2>1. nat'[n].at = "idle" /\ \A m : ~Registered(m, n)'
    BY <1>0, Zenon DEF NativeTypes, Registered
  <2> QED
    BY <1>0, <2>1, Zenon DEF NativeFine, LiveAgrees, DeadAgrees
<1> QED
  BY <1>1, <1>2, Zenon DEF NativeInv, NativeFine

-----------------------------------------------------------------------------
(* What an entry point of the bindings does with a call.                   *)

\* What can be wrong with a call.
Wrongs == {"none", "number", "context", "info", "token", "mode", "range", "agentType", "agentNull",
           "suspended", "request", "modes", "taskId", "callback", "requestId", "illegalId", "object",
           "userId", "appIndex", "bundleName", "authResult", "progress"}
Blocks == {"none", "worker", "freed", "forgotten"}

Outcome == [queued : BOOLEAN, err : Wrongs, thrown : BOOLEAN, block : Blocks]

\* The call is queued, or refused with its block freed and thrown by the module of today.
Clean(o, throw) ==
  /\ o \in Outcome
  /\ ~o.queued => o.block = "freed" /\ (throw => o.thrown)

LEMMA FirstType ==
  ASSUME NEW bad, NEW order \in Seq(Wrongs), Len(order) <= 4
  PROVE  First(bad, order) \in Wrongs
<1> DEFINE hits == {i \in DOMAIN order : order[i] \in bad}
<1>0. "none" \in Wrongs
  BY Zenon DEF Wrongs
<1>1. CASE hits = {}
  BY <1>0, <1>1, Zenon DEF First
<1>2. CASE hits # {}
  <2>1. hits \subseteq 1 .. 4 /\ \A i \in hits : order[i] \in Wrongs
    OBVIOUS
  <2>2. First(bad, order) = order[Min(hits)]
    BY <1>2, Zenon DEF First
  <2> HIDE DEF hits
  <2>3. \E x \in hits : \A y \in hits : x <= y
    <3>1. \A i \in hits : i \in {1, 2, 3, 4}
      BY <2>1
    <3> QED
      BY <1>2, <3>1
  <2>4. Min(hits) \in hits
    BY <2>3, Zenon DEF Min
  <2> QED
    BY Zenon, <2>1, <2>2, <2>4
<1> QED
  BY <1>1, <1>2, Zenon

LEMMA WrongsFact ==
  /\ "none" \in Wrongs /\ "number" \in Wrongs /\ "context" \in Wrongs /\ "info" \in Wrongs
  /\ "token" \in Wrongs /\ "mode" \in Wrongs /\ "range" \in Wrongs /\ "agentType" \in Wrongs
  /\ "agentNull" \in Wrongs /\ "suspended" \in Wrongs /\ "request" \in Wrongs
  /\ "modes" \in Wrongs /\ "taskId" \in Wrongs /\ "callback" \in Wrongs
  /\ "requestId" \in Wrongs /\ "illegalId" \in Wrongs /\ "object" \in Wrongs
  /\ "userId" \in Wrongs /\ "appIndex" \in Wrongs /\ "bundleName" \in Wrongs
  /\ "authResult" \in Wrongs /\ "progress" \in Wrongs
  BY Zenon DEF Wrongs

LEMMA First1 ==
  ASSUME NEW bad, NEW a \in Wrongs
  PROVE  First(bad, <<a>>) \in Wrongs
<1>1. <<a>> \in Seq(Wrongs) /\ Len(<<a>>) <= 4
  OBVIOUS
<1> QED
  BY Zenon, <1>1, FirstType

LEMMA First2 ==
  ASSUME NEW bad, NEW a \in Wrongs, NEW b \in Wrongs
  PROVE  First(bad, <<a, b>>) \in Wrongs
<1>1. <<a, b>> \in Seq(Wrongs) /\ Len(<<a, b>>) <= 4
  OBVIOUS
<1> QED
  BY Zenon, <1>1, FirstType

LEMMA First3 ==
  ASSUME NEW bad, NEW a \in Wrongs, NEW b \in Wrongs, NEW c \in Wrongs
  PROVE  First(bad, <<a, b, c>>) \in Wrongs
<1>1. <<a, b, c>> \in Seq(Wrongs) /\ Len(<<a, b, c>>) <= 4
  OBVIOUS
<1> QED
  BY <1>1, FirstType, Zenon

LEMMA First4 ==
  ASSUME NEW bad, NEW a \in Wrongs, NEW b \in Wrongs, NEW c \in Wrongs, NEW d \in Wrongs
  PROVE  First(bad, <<a, b, c, d>>) \in Wrongs
<1>1. <<a, b, c, d>> \in Seq(Wrongs) /\ Len(<<a, b, c, d>>) <= 4
  OBVIOUS
<1> QED
  BY Zenon, <1>1, FirstType

LEMMA FirstJoined ==
  ASSUME NEW bad, NEW a \in Wrongs, NEW b \in Wrongs, NEW c \in Wrongs, NEW d \in Wrongs
  PROVE  First(bad, <<a, b, c>> \o <<d>>) \in Wrongs /\ First(bad, <<a, b, c>> \o << >>) \in Wrongs
<1> DEFINE three == <<a, b, c>>
           one == <<d>>
<1>1. three \in Seq(Wrongs) /\ one \in Seq(Wrongs)
  OBVIOUS
<1>2. Len(three) = 3 /\ Len(one) = 1
  BY Zenon
<1> HIDE DEF three, one
<1>3. First(bad, three \o one) \in Wrongs
  <2>1. three \o one \in Seq(Wrongs)
    BY <1>1
  <2>2. Len(three \o one) = Len(three) + Len(one)
    BY <1>1
  <2>3. Len(three \o one) <= 4
    BY <1>2, <2>2
  <2> QED
    BY <2>1, <2>3, FirstType, Zenon
<1>4. three \o << >> = three
  BY <1>1
<1>5. First(bad, three) \in Wrongs
  <2>1. Len(three) <= 4
    BY <1>2
  <2> QED
    BY <1>1, <2>1, FirstType, Zenon
<1> QED
  BY <1>3, <1>4, <1>5, Zenon DEF three, one

LEMMA QueueClean ==
  ASSUME NEW err \in Wrongs, NEW throw
  PROVE  Clean(Queue(err), throw)
  BY Zenon DEF Clean, Queue, Outcome, Blocks

LEMMA RefuseClean ==
  ASSUME NEW err \in Wrongs, NEW throw \in BOOLEAN, NEW thrown \in BOOLEAN, throw => thrown
  PROVE  Clean(Refuse(err, thrown, "freed"), throw)
  BY Zenon DEF Clean, Refuse, Outcome, Blocks

LEMMA ThrownType ==
  ASSUME NEW err, NEW throw \in BOOLEAN
  PROVE  Thrown(err, throw) \in BOOLEAN /\ (throw => Thrown(err, throw))
  BY Zenon DEF Thrown, HandleParamErr

LEMMA CheckTypes ==
  ASSUME NEW bad
  PROVE  /\ GetAbilityContext(bad) \in Wrongs
         /\ CheckBackgroundMode(bad) \in Wrongs
         /\ StartBackgroundRunningCheckParam(bad) \in Wrongs
         /\ GetAllContinuousTasksCheckParamBeforeSubmit(bad) \in Wrongs
         /\ StartBackgroundRunningCheckParamBeforeSubmit(bad) \in Wrongs
         /\ StartBackgroundRunningCheckRequest(bad) \in Wrongs
         /\ UpdateBackgroundRunningCheckParam(bad) \in Wrongs
         /\ StopBackgroundRunningCheckParam(bad) \in Wrongs
         /\ CheckSpecialModeSupported(bad) \in Wrongs
         /\ GetDataTransferProgress(bad) \in Wrongs
<1>1. \A b : First(b, <<"context", "info", "request", "modes">>) \in Wrongs
  BY First4, WrongsFact, Zenon
<1>2. StartBackgroundRunningCheckParamBeforeSubmit(bad) \in Wrongs
  BY First4, WrongsFact, Zenon DEF StartBackgroundRunningCheckParamBeforeSubmit
<1>3. GetAbilityContext(bad) \in Wrongs /\ CheckBackgroundMode(bad) \in Wrongs
      /\ CheckSpecialModeSupported(bad) \in Wrongs
  BY First1, WrongsFact, Zenon DEF GetAbilityContext, CheckBackgroundMode, CheckSpecialModeSupported
<1>4. StartBackgroundRunningCheckParam(bad) \in Wrongs
  BY First3, WrongsFact, Zenon DEF StartBackgroundRunningCheckParam
<1>5. GetAllContinuousTasksCheckParamBeforeSubmit(bad) \in Wrongs
  BY First3, WrongsFact, Zenon DEF GetAllContinuousTasksCheckParamBeforeSubmit
<1>6. UpdateBackgroundRunningCheckParam(bad) \in Wrongs /\ StopBackgroundRunningCheckParam(bad) \in Wrongs
  BY First2, WrongsFact, Zenon
     DEF UpdateBackgroundRunningCheckParam, StopBackgroundRunningCheckParam
<1>7. GetDataTransferProgress(bad) \in Wrongs
  BY First3, WrongsFact, Zenon DEF GetDataTransferProgress
<1>8. StartBackgroundRunningCheckRequest(bad) \in Wrongs
  BY <1>1, Zenon DEF StartBackgroundRunningCheckRequest
<1> QED
  BY <1>2, <1>3, <1>4, <1>5, <1>6, <1>7, <1>8, Zenon

\* The four ways an entry point refuses.
LEMMA RefusalsClean ==
  ASSUME NEW err \in Wrongs, NEW throw \in BOOLEAN
  PROVE  /\ Clean(Refuse(err, Thrown(err, throw), "freed"), throw)
         /\ Clean(Refuse(err, HandleParamErr(err, throw), "freed"), throw)
         /\ Clean(Refuse(err, HandleParamErr(err, TRUE), "freed"), throw)
         /\ Clean(Refuse(err, HandleErrCode(err), "freed"), throw)
         /\ Clean(Refuse(err, TRUE, "freed"), throw)
         /\ Clean(Queue(err), throw)
<1>1. Thrown(err, throw) \in BOOLEAN /\ (throw => Thrown(err, throw))
  BY ThrownType, Zenon
<1>2. HandleParamErr(err, throw) \in BOOLEAN /\ (throw => HandleParamErr(err, throw))
  BY Zenon DEF HandleParamErr
<1>3. HandleParamErr(err, TRUE) \in BOOLEAN /\ (throw => HandleParamErr(err, TRUE))
  BY Zenon DEF HandleParamErr
<1>4. HandleErrCode(err) \in BOOLEAN /\ (throw => HandleErrCode(err))
  BY Zenon DEF HandleErrCode
<1>5. Clean(Refuse(err, Thrown(err, throw), "freed"), throw)
  BY <1>1, RefuseClean, Zenon
<1>6. Clean(Refuse(err, HandleParamErr(err, throw), "freed"), throw)
  BY <1>2, RefuseClean, Zenon
<1>7. Clean(Refuse(err, HandleParamErr(err, TRUE), "freed"), throw)
  BY Zenon, <1>3, RefuseClean
<1>8. Clean(Refuse(err, HandleErrCode(err), "freed"), throw)
  BY <1>4, RefuseClean, Zenon
<1> QED
  BY Zenon, <1>5, <1>6, <1>7, <1>8, RefuseClean, QueueClean

LEMMA StartClean ==
  ASSUME NEW bad, NEW form, NEW throw \in BOOLEAN
  PROVE  \/ Clean(StartBackgroundRunning(form, bad, throw), throw)
         \/ form = "request"
            /\ StartBackgroundRunning(form, bad, throw) = StartBackgroundRunningSubmit(bad, throw)
<1> DEFINE err == StartBackgroundRunningCheckParam(bad)
           before == StartBackgroundRunningCheckParamBeforeSubmit(bad)
<1>0. err \in Wrongs /\ before \in Wrongs
  BY CheckTypes, Zenon
<1>1. Clean(StartBackgroundRunningAsync(bad, throw), throw)
  BY <1>0, WrongsFact, RefusalsClean, Zenon DEF StartBackgroundRunningAsync
<1>2. Clean(StartBackgroundRunningPromise(bad, throw), throw)
  BY <1>0, WrongsFact, RefusalsClean, Zenon DEF StartBackgroundRunningPromise
<1>3. Clean(Refuse("number", Thrown("number", throw), "freed"), throw)
      /\ Clean(Refuse(before, Thrown(before, throw), "freed"), throw)
  BY Zenon, <1>0, WrongsFact, RefusalsClean
<1> QED
  BY <1>1, <1>2, <1>3, Zenon DEF StartBackgroundRunning

\* A refused request object is thrown, though its block is forgotten.
LEMMA SubmitThrown ==
  ASSUME NEW bad, NEW throw \in BOOLEAN
  PROVE  /\ StartBackgroundRunningSubmit(bad, throw) \in Outcome
         /\ throw /\ ~StartBackgroundRunningSubmit(bad, throw).queued =>
              StartBackgroundRunningSubmit(bad, throw).thrown
<1> DEFINE err == StartBackgroundRunningCheckRequest(bad)
           t == Thrown(err, throw)
<1>1. err \in Wrongs /\ "none" \in Wrongs /\ t \in BOOLEAN /\ (throw => t)
  BY CheckTypes, WrongsFact, ThrownType, Zenon
<1>2. StartBackgroundRunningSubmit(bad, throw) = IF err # "none" THEN Refuse(err, t, "forgotten") ELSE Queue("none")
  BY Zenon DEF StartBackgroundRunningSubmit
<1> HIDE DEF err, t
<1>3. Refuse(err, t, "forgotten") \in Outcome /\ (throw => Refuse(err, t, "forgotten").thrown)
  BY <1>1, Zenon DEF Refuse, Outcome, Blocks
<1>4. Queue("none") \in Outcome /\ Queue("none").queued
  BY <1>1, Zenon DEF Queue, Outcome, Blocks
<1>5. StartBackgroundRunningSubmit(bad, throw) \in {Refuse(err, t, "forgotten"), Queue("none")}
  BY <1>2, Zenon
<1> HIDE DEF StartBackgroundRunningSubmit
<1> QED
  BY <1>3, <1>4, <1>5, Zenon

LEMMA UpdateClean ==
  ASSUME NEW bad, NEW form, NEW throw \in BOOLEAN
  PROVE  Clean(UpdateBackgroundRunning(form, bad, throw), throw)
<1> DEFINE req == StartBackgroundRunningCheckRequest(bad)
           par == UpdateBackgroundRunningCheckParam(bad)
           mode == CheckBackgroundMode(bad)
<1>0. req \in Wrongs /\ par \in Wrongs /\ mode \in Wrongs
  BY CheckTypes, Zenon
<1>1. Clean(UpdateBackgroundRunningPromise(bad, throw), throw)
  BY <1>0, WrongsFact, RefusalsClean, Zenon DEF UpdateBackgroundRunningPromise
<1>2. Clean(UpdateBackgroundRunningByRequestPromise(bad), throw)
  BY WrongsFact, RefusalsClean, Zenon DEF UpdateBackgroundRunningByRequestPromise
<1>3. Clean(Refuse("number", Thrown("number", throw), "freed"), throw)
      /\ Clean(Refuse(req, Thrown(req, throw), "freed"), throw)
      /\ Clean(Refuse(par, Thrown(par, throw), "freed"), throw)
  BY Zenon, <1>0, WrongsFact, RefusalsClean
<1>4. CASE form = "request"
  BY <1>1, <1>2, <1>3, <1>4, Zenon DEF UpdateBackgroundRunning
<1>5. CASE form # "request"
  BY <1>1, <1>2, <1>3, <1>5, Zenon DEF UpdateBackgroundRunning
<1> QED
  BY <1>4, <1>5, Zenon

LEMMA StopClean ==
  ASSUME NEW bad, NEW form, NEW throw \in BOOLEAN
  PROVE  Clean(StopBackgroundRunning(form, bad, throw), throw)
<1> DEFINE ctx == GetAbilityContext(bad)
           par == StopBackgroundRunningCheckParam(bad)
<1>0. ctx \in Wrongs /\ par \in Wrongs
  BY CheckTypes, Zenon
<1>1. Clean(StopBackgroundRunningAsync(bad, throw), throw)
  BY <1>0, WrongsFact, RefusalsClean, Zenon DEF StopBackgroundRunningAsync
<1>2. Clean(StopBackgroundRunningPromise(bad, throw), throw)
  BY <1>0, WrongsFact, RefusalsClean, Zenon DEF StopBackgroundRunningPromise
<1>3. Clean(StopBackgroundRunningByTaskIdPromise(bad, throw), throw)
  BY <1>0, WrongsFact, RefusalsClean, Zenon DEF StopBackgroundRunningByTaskIdPromise
<1>4. Clean(Refuse("number", Thrown("number", throw), "freed"), throw)
      /\ Clean(Refuse(ctx, Thrown(ctx, throw), "freed"), throw)
      /\ Clean(Refuse("taskId", HandleErrCode("taskId"), "freed"), throw)
  BY Zenon, <1>0, WrongsFact, RefusalsClean
<1>5. Clean(StopBackgroundRunningBySubmit(form, bad, throw), throw)
  BY <1>1, <1>3, <1>4, Zenon DEF StopBackgroundRunningBySubmit
<1> QED
  BY <1>2, <1>4, <1>5, Zenon DEF StopBackgroundRunning

LEMMA OtherClean ==
  ASSUME NEW bad, NEW throw \in BOOLEAN
  PROVE  /\ Clean(GetAllContinuousTasks(bad, throw), throw)
         /\ Clean(CheckSpecialScenarioUserAuth(bad), throw)
         /\ Clean(SetBackgroundTaskState(bad), throw)
         /\ Clean(GetBackgroundTaskState(bad), throw)
         /\ Clean(UpdateDataTransferProgress(bad), throw)
         /\ Clean(GetRemainingDelayTime(bad, throw), throw)
         /\ Clean(Queue("none"), throw)
<1> DEFINE auth == First(bad, <<"number", "context", "info">>)
           shape == First(bad, <<"number", "object">>)
           set == GetBackgroundTaskStateParam(bad, TRUE)
           get == GetBackgroundTaskStateParam(bad, FALSE)
           ctx == First(bad, <<"number", "context">>)
           data == GetDataTransferProgress(bad)
           rest == First(bad, <<"number", "requestId", "callback", "illegalId">>)
           all == GetAllContinuousTasksCheckParamBeforeSubmit(bad)
<1>1. auth \in Wrongs /\ shape \in Wrongs /\ ctx \in Wrongs /\ rest \in Wrongs
  BY First2, First3, First4, WrongsFact, Zenon
<1>2. set \in Wrongs
  BY FirstJoined, WrongsFact, Zenon DEF GetBackgroundTaskStateParam
<1>3. get \in Wrongs
  BY FirstJoined, WrongsFact, Zenon DEF GetBackgroundTaskStateParam
<1>4. data \in Wrongs /\ all \in Wrongs
  BY CheckTypes, Zenon
<1>5. Clean(Queue("none"), throw)
  BY Zenon, WrongsFact, RefusalsClean
<1>6. Clean(GetAllContinuousTasks(bad, throw), throw)
  BY <1>4, <1>5, RefusalsClean, Zenon DEF GetAllContinuousTasks
<1>7. Clean(CheckSpecialScenarioUserAuth(bad), throw)
  BY <1>1, <1>5, RefusalsClean, Zenon DEF CheckSpecialScenarioUserAuth
<1>8. Clean(GetRemainingDelayTime(bad, throw), throw)
  BY <1>1, <1>5, RefusalsClean, Zenon DEF GetRemainingDelayTime
<1>9. Clean(SetBackgroundTaskState(bad), throw)
  <2>1. Clean(Refuse(shape, HandleErrCode(shape), "freed"), throw)
        /\ Clean(Refuse(set, HandleErrCode(set), "freed"), throw)
    BY Zenon, <1>1, <1>2, RefusalsClean
  <2> HIDE DEF set
  <2> QED
    BY <1>5, <2>1, Zenon DEF SetBackgroundTaskState, set
<1>10. Clean(GetBackgroundTaskState(bad), throw)
  <2>1. Clean(Refuse(shape, HandleErrCode(shape), "freed"), throw)
        /\ Clean(Refuse(get, HandleErrCode(get), "freed"), throw)
    BY Zenon, <1>1, <1>3, RefusalsClean
  <2> QED
    BY <1>5, <2>1, Zenon DEF GetBackgroundTaskState
<1>11. Clean(UpdateDataTransferProgress(bad), throw)
  <2>1. Clean(Refuse(ctx, HandleParamErr(ctx, TRUE), "freed"), throw)
        /\ Clean(Refuse(data, HandleParamErr(data, TRUE), "freed"), throw)
    BY Zenon, <1>1, <1>4, RefusalsClean
  <2> QED
    BY <1>5, <2>1, Zenon DEF UpdateDataTransferProgress
<1> QED
  BY <1>5, <1>6, <1>7, <1>8, <1>9, <1>10, <1>11, Zenon

LEMMA ModeClean ==
  ASSUME NEW bad, NEW throw \in BOOLEAN
  PROVE  \/ Clean(IsModeSupported(bad), throw)
         \/ IsModeSupported(bad) = Refuse("object", FALSE, "freed")
<1> DEFINE err == CheckSpecialModeSupported(bad)
<1>1. Clean(Refuse(err, HandleErrCode(err), "freed"), throw) /\ Clean(Queue("none"), throw)
  BY Zenon, CheckTypes, WrongsFact, RefusalsClean
<1> QED
  BY <1>1, Zenon DEF IsModeSupported

\* What the entry point of a call leaves behind when it refuses it.
Refused(c, o) ==
  /\ o.block = "freed" \/ (c.api = "StartBackgroundRunning" /\ c.form = "request")
  /\ c.throw => o.thrown \/ (c.api = "IsModeSupported" /\ o.err = "object")

LEMMA IssueOutcome ==
  ASSUME NEW c \in Calls
  PROVE  Issue(c) \in Outcome /\ (~Issue(c).queued => Refused(c, Issue(c)))
<1> DEFINE o == Issue(c)
           Goal(x) == x \in Outcome /\ (~x.queued => Refused(c, x))
<1>0. c.throw \in BOOLEAN
  BY ClientAssumption, Zenon
<1>1. \A x : Clean(x, c.throw) => Goal(x)
  BY Zenon DEF Clean, Refused
<1>2. CASE c.api = "StartBackgroundRunning"
  <2>1. o = StartBackgroundRunning(c.form, c.bad, c.throw)
    BY <1>2, Zenon DEF Issue
  <2>2. CASE Clean(o, c.throw)
    BY <1>1, <2>2, Zenon
  <2>3. CASE c.form = "request" /\ o = StartBackgroundRunningSubmit(c.bad, c.throw)
    BY <1>0, <1>2, <2>3, SubmitThrown, Zenon DEF Refused
  <2> QED
    BY <1>0, <2>1, <2>2, <2>3, StartClean, Zenon
<1>3. CASE c.api = "IsModeSupported"
  <2>1. o = IsModeSupported(c.bad)
    BY <1>3, Zenon DEF Issue
  <2>2. CASE Clean(o, c.throw)
    BY <1>1, <2>2, Zenon
  <2>3. CASE o = Refuse("object", FALSE, "freed")
    <3>1. \A t \in BOOLEAN : /\ Refuse("object", t, "freed") \in Outcome
                              /\ Refuse("object", t, "freed").block = "freed"
                              /\ Refuse("object", t, "freed").err = "object"
      BY WrongsFact, Zenon DEF Refuse, Outcome, Blocks
    <3>2. o \in Outcome /\ o.block = "freed" /\ o.err = "object"
      BY <2>3, <3>1, Zenon
    <3> QED
      BY <1>3, <3>2, Zenon DEF Refused
  <2> QED
    BY Zenon, <1>0, <2>1, <2>2, <2>3, ModeClean
<1>4. CASE c.api # "StartBackgroundRunning" /\ c.api # "IsModeSupported"
  <2>1. o \in {UpdateBackgroundRunning(c.form, c.bad, c.throw), StopBackgroundRunning(c.form, c.bad, c.throw),
               GetAllContinuousTasks(c.bad, c.throw), CheckSpecialScenarioUserAuth(c.bad),
               SetBackgroundTaskState(c.bad), GetBackgroundTaskState(c.bad), UpdateDataTransferProgress(c.bad),
               GetRemainingDelayTime(c.bad, c.throw), Queue("none")}
    BY <1>4, Zenon
       DEF Issue, ObtainAllContinuousTasks, GetAllTransientTasks, GetAllEfficiencyResources
  <2>2. Clean(o, c.throw)
    BY <1>0, <2>1, UpdateClean, StopClean, OtherClean, Zenon
  <2> QED
    BY <1>1, <2>2, Zenon
<1> QED
  BY <1>2, <1>3, <1>4, Zenon

-----------------------------------------------------------------------------
(* The types of the client, and which thread carries which operation.      *)

Stages == {"idle", "enter", "watch", "send", "reply", "done"}
Answers == {"none", Denied, NotSystem, NotConnected, NotReady, "api_version", "dead"}
DelayCalls == {"RequestSuspendDelay", "CancelSuspendDelay"}

Ipc == [at : Stages, op : Forwarded \cup {"none"}, flags : SUBSET Types, obj : Nat \cup Workers,
        ans : Answers, gen : Nat, id : Nat]

CallStages == {"none", "refused", "queued", "executing", "executed", "sync", "settled"}
ApiOrNone == Apis \cup {"none"}
FormOrNone == Forms \cup {"none"}
Errors == Wrongs \cup Answers
Tolds == {"none", "thrown", "nothing", "resolved", "rejected"}

CallRecord ==
  [at : CallStages, api : ApiOrNone, form : FormOrNone, throw : BOOLEAN, err : Errors, told : Tolds,
   block : Blocks]

Handles == Objects \cup {0}
HandleCounts == 0 .. Cardinality(Objects)
Observers == [Types -> SUBSET Callbacks]
FlagSets == SUBSET Types
Notices == Seq({"add", "remove"})
TypeOrNone == Types \cup {"none"}
CallbackOrNone == Callbacks \cup {"none"}

SubRecord ==
  [obj : Handles, made : HandleCounts, obs : Observers, all : FlagSets, current : FlagSets,
   need : BOOLEAN, listening : BOOLEAN, notices : Notices, type : TypeOrNone, cb : CallbackOrNone,
   left : Nat]

SvcType == svc \in [gen : Nat, alive : BOOLEAN, ready : SUBSET Managers, published : BOOLEAN,
                    running : BOOLEAN]
ProxyType == proxy \in [app : Apps, gen : Nat, lock : Threads \cup {"none"}, watched : SUBSET Nat,
                        deaths : SUBSET Nat]
IpcType == ipc \in [Threads -> Ipc]
CallType == call \in [Workers -> CallRecord]
SubType == sub \in SubRecord
DelayType == delay \in [ids : Nat, asked : Nat, active : SUBSET (Nat \X Nat), expired : SUBSET Nat,
                        registered : SUBSET (Int \X Nat), jsq : SUBSET Nat, told : SUBSET Nat,
                        cancelled : SUBSET Nat]
GhostType == ghost \in [faults : SUBSET {"race", "failedOn", "diedDuringOn", "restoreFailed",
                                         "reused", "unsent"},
                        served : SUBSET Workers]

\* The function of an on() that waits for its answer is known.
OpsKnown ==
  /\ \A w \in Workers : ipc[w].op \in Apis \cup {"none"}
  /\ ipc["js"].op \in SyncOps \cup SubscriptionCalls \cup DelayCalls \cup {"none"}
  /\ ipc["js"].op \in SyncOps => ipc["js"].obj \in Workers
  /\ ipc["js"].op \in SubscriptionCalls => ipc["js"].obj \in Objects
  /\ ipc["js"].op \in DelayCalls => ipc["js"].obj \in Nat
  /\ ipc["js"].op = "subscribe" => sub.type \in Types /\ sub.cb \in Callbacks
  /\ ipc["sa"].op \in {"none", "subscribe"}
  /\ ipc["sa"].op = "subscribe" => ipc["sa"].obj \in Objects

TypeOK ==
  SvcType /\ ProxyType /\ IpcType /\ CallType /\ SubType /\ DelayType /\ GhostType /\ OpsKnown

LEMMA ThreadFacts ==
  /\ "js" \in Threads /\ "sa" \in Threads /\ Workers \subseteq Threads
  /\ "js" \notin Workers /\ "sa" \notin Workers /\ "none" \notin Threads
<1>1. "js" \notin Workers /\ "sa" \notin Workers /\ "none" \notin Workers
  BY ClientAssumption, Zenon
<1> QED
  BY <1>1, Zenon DEF Threads

LEMMA ObjectFacts ==
  /\ Objects \subseteq Nat /\ 0 \notin Objects /\ Cardinality(Objects) \in Nat
  /\ \A i \in Nat : i \in Objects <=> 1 <= i /\ i <= Cardinality(Objects)
<1>1. Cardinality(Objects) \in Nat
  BY SubscribersAssumption, Zenon
<1> DEFINE n == Cardinality(Objects)
<1>2. Objects = 1 .. n
  BY SubscribersAssumption, Zenon
<1> HIDE DEF n
<1>3. n \in Nat
  BY <1>1, Zenon DEF n
<1>4. Objects \subseteq Nat /\ 0 \notin Objects /\ \A i \in Nat : i \in Objects <=> 1 <= i /\ i <= n
  BY <1>2, <1>3
<1> QED
  BY <1>1, <1>4, Zenon DEF n

LEMMA OpFacts ==
  /\ Apis \subseteq Forwarded /\ SyncOps \subseteq Apis
  /\ SubscriptionCalls \subseteq Forwarded /\ DelayCalls \subseteq Forwarded
  /\ "none" \notin Forwarded
  /\ Apis \cap SubscriptionCalls = {} /\ Apis \cap DelayCalls = {} /\ SubscriptionCalls \cap DelayCalls = {}
<1>1. Apis \subseteq Forwarded /\ SyncOps \subseteq Apis
  BY Zenon DEF Apis, SyncOps, Forwarded, TransientCalls, RunningCalls, ListingCalls, ControlCalls,
     ConfigCalls, AuthCalls
<1>2. SubscriptionCalls \subseteq Forwarded /\ DelayCalls \subseteq Forwarded
  BY Zenon DEF SubscriptionCalls, DelayCalls, Forwarded, TransientCalls
<1>3. "none" \notin Forwarded
  BY Zenon
     DEF Forwarded, TransientCalls, RunningCalls, SubscriptionCalls, ListingCalls, ControlCalls,
     ConfigCalls, AuthCalls
<1>4. Apis \cap SubscriptionCalls = {} /\ Apis \cap DelayCalls = {} /\ SubscriptionCalls \cap DelayCalls = {}
  BY Zenon DEF Apis, SubscriptionCalls, DelayCalls
<1> QED
  BY <1>1, <1>2, <1>3, <1>4, Zenon

LEMMA IdleFacts ==
  /\ Idle \in Ipc /\ Idle.at = "idle" /\ Idle.op = "none" /\ Idle.ans = "none" /\ Idle.flags = {}
<1>1. Idle \in Ipc
  BY Zenon DEF Idle, Ipc, Stages, Answers
<1> QED
  BY <1>1, Zenon DEF Idle

LEMMA BeginStep ==
  ASSUME IpcType, NEW t \in Threads, NEW op \in Forwarded, NEW flags \in SUBSET Types,
         NEW obj \in Nat \cup Workers, Begin(t, op, flags, obj)
  PROVE  /\ IpcType' /\ \A u \in Threads \ {t} : ipc'[u] = ipc[u]
         /\ ipc'[t].at = "enter" /\ ipc'[t].op = op /\ ipc'[t].flags = flags /\ ipc'[t].obj = obj
         /\ ipc'[t].ans = "none"
<1> DEFINE r == [Idle EXCEPT !.at = "enter", !.op = op, !.flags = flags, !.obj = obj]
<1>1. r \in Ipc
  BY IdleFacts, Zenon DEF Ipc, Stages
<1>2. r.at = "enter" /\ r.op = op /\ r.flags = flags /\ r.obj = obj /\ r.ans = "none"
  BY IdleFacts, Zenon DEF Ipc
<1>3. ipc' = [ipc EXCEPT ![t] = r]
  BY Zenon DEF Begin
<1> HIDE DEF r
<1>4. IpcType' /\ ipc'[t] = r /\ \A u \in Threads \ {t} : ipc'[u] = ipc[u]
  BY <1>1, <1>3, Zenon DEF IpcType
<1> QED
  BY <1>2, <1>4, Zenon

LEMMA IdleStep ==
  ASSUME IpcType, NEW t \in Threads, ipc' = [ipc EXCEPT ![t] = Idle]
  PROVE  IpcType' /\ ipc'[t] = Idle /\ \A u \in Threads \ {t} : ipc'[u] = ipc[u]
  BY IdleFacts, Zenon DEF IpcType

LEMMA GateAnswers ==
  ASSUME NEW c, NEW op, NEW flags
  PROVE  Gate(op, c) \in Answers /\ SubscribeGate(c, flags) \in Answers /\ UnsubscribeGate(c, flags) \in Answers
<1>1. "none" \in Answers /\ Denied \in Answers /\ NotSystem \in Answers /\ "api_version" \in Answers
  BY Zenon DEF Answers
<1>2. SubscribeGate(c, flags) \in Answers
  BY <1>1, Zenon DEF SubscribeGate
<1>3. TransientGate(op, c) \in Answers /\ RunningGate(c, {"LOCATION", "VOIP"}) \in Answers /\ OwnGate(c) \in Answers
      /\ InnerQueryGate(c, FALSE) \in Answers /\ ProgressGate(c) \in Answers /\ TransientAppsGate(c) \in Answers
      /\ ResourceInfosGate(c) \in Answers /\ SchedulerGate(c) \in Answers /\ SessionGate(c) \in Answers
      /\ ModeGate(c) \in Answers /\ BgTaskConfigGate(c) \in Answers /\ RemoveAuthGate(c) \in Answers
  BY <1>1, Zenon
     DEF TransientGate, RunningGate, OwnGate, InnerQueryGate, ProgressGate, TransientAppsGate,
    ResourceInfosGate, SchedulerGate, SessionGate, ModeGate, BgTaskConfigGate, RemoveAuthGate
<1>4. AudioGate(c) \in Answers /\ ConfigGate(c) \in Answers /\ AuthCheckGate(c) \in Answers /\ ReportGate(c) \in Answers
  BY <1>3, Zenon DEF AudioGate, ConfigGate, AuthCheckGate, ReportGate
<1>5. AuthRequestGate(c, "dialog") \in Answers
  BY <1>1, Zenon DEF AuthRequestGate
<1>6. TaskStateGate(c) \in Answers /\ SystemListGate(c) \in Answers
  BY <1>1, Zenon DEF TaskStateGate, SystemListGate, StateGate
<1>7. Gate(op, c) \in Answers
  BY <1>1, <1>3, <1>4, <1>5, <1>6, Zenon
     DEF Gate, SchedulerOps, ReportOps, ConfigOps, AuthOps, StateOps
<1> QED
  BY <1>2, <1>7, Zenon DEF UnsubscribeGate

LEMMA ServedAnswer ==
  ASSUME NEW t
  PROVE  Served(t) \in Answers
  BY GateAnswers, Zenon DEF Served

\* A step of a thread's call: what it leaves alone, and the kinds it is of.
Advances(t) ==
  /\ \A u \in Threads \ {t} : ipc'[u] = ipc[u]
  /\ ipc'[t].op = ipc[t].op /\ ipc'[t].flags = ipc[t].flags /\ ipc'[t].obj = ipc[t].obj
  /\ UNCHANGED <<svc, tran, eff, watch, dying, nat, last, sub, call>>

Enters(t) ==
  /\ ipc[t].at = "enter" /\ proxy.lock = "none" /\ UNCHANGED <<cont, delay, ghost>>
  /\ \/ proxy.gen # 0 /\ ipc'[t].at = "send" /\ proxy' = [proxy EXCEPT !.lock = t]
     \/ proxy.gen = 0 /\ svc.published /\ ipc'[t].at = "watch" /\ proxy' = [proxy EXCEPT !.lock = t, !.gen = svc.gen]
     \/ proxy.gen = 0 /\ ~svc.published /\ ipc'[t].at = "done" /\ ipc'[t].ans = NotConnected /\ proxy' = proxy

Watches(t) ==
  /\ ipc[t].at = "watch" /\ ipc'[t].at = "send" /\ UNCHANGED <<cont, delay, ghost>>
  /\ proxy' = [proxy EXCEPT !.watched = IF Here(proxy.gen) THEN @ \cup {proxy.gen} ELSE @]

IsServed(t) ==
  /\ ipc[t].at = "send" /\ Here(proxy.gen) /\ proxy' = proxy
  /\ ipc'[t].at = "reply" /\ ipc'[t].ans = Served(t) /\ ipc'[t].gen = proxy.gen
  /\ ServeSubscription(t, Served(t) = "none") /\ ServeDelay(t, Served(t) = "none")
  /\ ghost' = [ghost EXCEPT !.served = IF Served(t) = "none" THEN @ \cup CallOf(t) ELSE @]

IsLost(t) ==
  /\ ipc[t].at = "send" /\ ~Here(proxy.gen) /\ proxy' = [proxy EXCEPT !.lock = "none"]
  /\ ipc'[t].at = "done" /\ ipc'[t].ans = "dead" /\ UNCHANGED <<cont, delay, ghost>>

IsAnswered(t) ==
  /\ ipc[t].at = "reply" /\ proxy' = [proxy EXCEPT !.lock = "none"] /\ ipc'[t].gen = ipc[t].gen
  /\ ipc'[t].at = "done" /\ UNCHANGED <<cont, delay, ghost>>
  /\ ipc'[t].ans = IF Here(ipc[t].gen) THEN ipc[t].ans ELSE "dead"

LEMMA ThreadSteps ==
  ASSUME TypeOK, NEW t \in Threads, ThreadNext(t)
  PROVE  /\ IpcType' /\ Advances(t)
         /\ Enters(t) \/ Watches(t) \/ IsServed(t) \/ IsLost(t) \/ IsAnswered(t)
<1>0. ipc[t] \in Ipc /\ proxy.gen \in Nat /\ delay.ids + 1 \in Nat
  <2>1. ipc[t] \in Ipc
    BY Zenon DEF TypeOK, IpcType
  <2>2. proxy.gen \in Nat
    BY Zenon DEF TypeOK, ProxyType
  <2>3. delay.ids \in Nat
    BY Zenon DEF TypeOK, DelayType
  <2> QED
    BY <2>1, <2>2, <2>3
<1>1. ASSUME NEW r \in Ipc, ipc' = [ipc EXCEPT ![t] = r]
      PROVE  IpcType' /\ ipc'[t] = r /\ \A u \in Threads \ {t} : ipc'[u] = ipc[u]
  BY <1>1, Zenon DEF TypeOK, IpcType
<1>2. CASE GetBackgroundTaskManagerProxy(t)
  <2> DEFINE a == [ipc[t] EXCEPT !.at = "send"]
             b == [ipc[t] EXCEPT !.at = "watch"]
             d == [ipc[t] EXCEPT !.at = "done", !.ans = NotConnected]
  <2>1. /\ a \in Ipc /\ a.at = "send" /\ a.op = ipc[t].op /\ a.flags = ipc[t].flags /\ a.obj = ipc[t].obj
        /\ b \in Ipc /\ b.at = "watch" /\ b.op = ipc[t].op /\ b.flags = ipc[t].flags /\ b.obj = ipc[t].obj
    BY <1>0, Zenon DEF Ipc, Stages
  <2>2. /\ d \in Ipc /\ d.at = "done" /\ d.op = ipc[t].op /\ d.flags = ipc[t].flags /\ d.obj = ipc[t].obj
        /\ d.ans = NotConnected
    BY <1>0, Zenon DEF Ipc, Stages, Answers
  <2>3. \/ proxy.gen # 0 /\ ipc' = [ipc EXCEPT ![t] = a] /\ proxy' = [proxy EXCEPT !.lock = t]
        \/ proxy.gen = 0 /\ svc.published /\ ipc' = [ipc EXCEPT ![t] = b]
           /\ proxy' = [proxy EXCEPT !.lock = t, !.gen = svc.gen]
        \/ proxy.gen = 0 /\ ~svc.published /\ ipc' = [ipc EXCEPT ![t] = d] /\ proxy' = proxy
    BY <1>2, Zenon DEF GetBackgroundTaskManagerProxy
  <2>4. /\ ipc[t].at = "enter" /\ proxy.lock = "none" /\ UNCHANGED <<serviceVars, sub, call, delay, ghost>>
    BY <1>2, Zenon DEF GetBackgroundTaskManagerProxy
  <2> HIDE DEF a, b, d
  <2> QED
    BY <1>1, <2>1, <2>2, <2>3, <2>4, Zenon DEF Advances, Enters, serviceVars
<1>3. CASE AddDeathRecipient(t)
  <2> DEFINE a == [ipc[t] EXCEPT !.at = "send"]
  <2>1. /\ a \in Ipc /\ a.at = "send" /\ a.op = ipc[t].op /\ a.flags = ipc[t].flags /\ a.obj = ipc[t].obj
    BY <1>0, Zenon DEF Ipc, Stages
  <2>2. ipc' = [ipc EXCEPT ![t] = a]
    BY <1>3, Zenon DEF AddDeathRecipient
  <2>3. /\ ipc[t].at = "watch" /\ UNCHANGED <<serviceVars, sub, call, delay, ghost>>
        /\ proxy' = [proxy EXCEPT !.watched = IF Here(proxy.gen) THEN @ \cup {proxy.gen} ELSE @]
    BY <1>3, Zenon DEF AddDeathRecipient
  <2> HIDE DEF a
  <2> QED
    BY <1>1, <2>1, <2>2, <2>3, Zenon DEF Advances, Watches, serviceVars
<1>4. CASE Send(t) /\ Here(proxy.gen)
  <2> DEFINE s == Served(t)
             a == [ipc[t] EXCEPT !.at = "reply", !.ans = s, !.gen = proxy.gen, !.id = delay.ids + 1]
  <2>0. s \in Answers
    BY ServedAnswer, Zenon
  <2>1. /\ ipc[t].at = "send" /\ ipc' = [ipc EXCEPT ![t] = a] /\ proxy' = proxy
        /\ ServeSubscription(t, s = "none") /\ ServeDelay(t, s = "none")
        /\ ghost' = [ghost EXCEPT !.served = IF s = "none" THEN @ \cup CallOf(t) ELSE @]
        /\ UNCHANGED <<svc, tran, eff, watch, dying, nat, last, sub, call>>
    BY <1>4, Zenon DEF Send
  <2> HIDE DEF s
  <2>2. /\ a \in Ipc /\ a.at = "reply" /\ a.op = ipc[t].op /\ a.flags = ipc[t].flags /\ a.obj = ipc[t].obj
        /\ a.ans = s /\ a.gen = proxy.gen
    BY <1>0, <2>0, Zenon DEF Ipc, Stages
  <2> HIDE DEF a
  <2>3. IpcType' /\ ipc'[t] = a /\ \A u \in Threads \ {t} : ipc'[u] = ipc[u]
    BY Zenon, <1>1, <2>1, <2>2
  <2>4. Advances(t)
    BY <2>1, <2>2, <2>3, Zenon DEF Advances
  <2>5. IsServed(t)
    BY <1>4, <2>1, <2>2, <2>3, Zenon DEF IsServed, s
  <2> QED
    BY <2>3, <2>4, <2>5, Zenon
<1>5. CASE Send(t) /\ ~Here(proxy.gen)
  <2> DEFINE a == [ipc[t] EXCEPT !.at = "done", !.ans = "dead"]
  <2>1. /\ a \in Ipc /\ a.at = "done" /\ a.op = ipc[t].op /\ a.flags = ipc[t].flags /\ a.obj = ipc[t].obj
        /\ a.ans = "dead"
    BY <1>0, Zenon DEF Ipc, Stages, Answers
  <2>2. /\ ipc[t].at = "send" /\ ipc' = [ipc EXCEPT ![t] = a] /\ proxy' = [proxy EXCEPT !.lock = "none"]
        /\ UNCHANGED <<cont, delay, ghost>>
        /\ UNCHANGED <<svc, tran, eff, watch, dying, nat, last, sub, call>>
    BY <1>5, Zenon DEF Send
  <2> HIDE DEF a
  <2> QED
    BY <1>1, <1>5, <2>1, <2>2, Zenon DEF Advances, IsLost
<1>6. CASE Reply(t)
  <2> DEFINE x == IF Here(ipc[t].gen) THEN ipc[t].ans ELSE "dead"
             a == [ipc[t] EXCEPT !.at = "done", !.ans = x]
  <2>0. x \in Answers
    BY <1>0, Zenon DEF Ipc, Answers
  <2>1. /\ ipc[t].at = "reply" /\ ipc' = [ipc EXCEPT ![t] = a] /\ proxy' = [proxy EXCEPT !.lock = "none"]
        /\ UNCHANGED <<serviceVars, sub, call, delay, ghost>>
    <3>1. /\ ipc[t].at = "reply" /\ proxy' = [proxy EXCEPT !.lock = "none"]
          /\ UNCHANGED <<serviceVars, sub, call, delay, ghost>>
      BY <1>6, Zenon DEF Reply
    <3>2. ipc' = [ipc EXCEPT ![t] = [ipc[t] EXCEPT !.at = "done", !.ans = IF Here(ipc[t].gen) THEN ipc[t].ans ELSE "dead"]]
      BY <1>6, <1>0, Zenon DEF Reply, Ipc
    <3> QED
      BY <3>1, <3>2, Zenon
  <2> HIDE DEF x
  <2>2. /\ a \in Ipc /\ a.at = "done" /\ a.op = ipc[t].op /\ a.flags = ipc[t].flags /\ a.obj = ipc[t].obj
        /\ a.ans = x /\ a.gen = ipc[t].gen
    BY <1>0, <2>0, Zenon DEF Ipc, Stages
  <2> HIDE DEF a
  <2>3. IpcType' /\ ipc'[t] = a /\ \A u \in Threads \ {t} : ipc'[u] = ipc[u]
    BY Zenon, <1>1, <2>1, <2>2
  <2>4. Advances(t)
    BY <2>1, <2>2, <2>3, Zenon DEF Advances, serviceVars
  <2>5. IsAnswered(t)
    BY <2>1, <2>2, <2>3, Zenon DEF IsAnswered, x, serviceVars
  <2> QED
    BY <2>3, <2>4, <2>5, Zenon
<1> QED
  BY <1>2, <1>3, <1>4, <1>5, <1>6, Zenon DEF ThreadNext

LEMMA ServeSubscriptionCases ==
  ASSUME NEW t, NEW ok \in BOOLEAN, ServeSubscription(t, ok)
  PROVE  \/ ok /\ ipc[t].op = "subscribe" /\ cont' = AddHap(cont, ipc[t].obj, SentFlags(t))
         \/ ok /\ ipc[t].op = "unsubscribe" /\ cont' = RemoveHap(cont, ipc[t].obj, SentFlags(t))
         \/ (ok => ipc[t].op \notin SubscriptionCalls) /\ cont' = cont
  BY Zenon DEF ServeSubscription, SubscriptionCalls

LEMMA ServeDelayCases ==
  ASSUME NEW t, NEW ok \in BOOLEAN, ServeDelay(t, ok)
  PROVE  \/ ipc[t].op = "RequestSuspendDelay"
            /\ delay' = [delay EXCEPT !.ids = @ + 1, !.active = @ \cup {<<delay.ids + 1, ipc[t].obj>>}]
         \/ ipc[t].op = "CancelSuspendDelay" /\ delay' = [delay EXCEPT !.active = {d \in @ : d[1] # ipc[t].obj}]
         \/ delay' = delay
  BY Zenon DEF ServeDelay

\* Only the JavaScript thread asks about delays, only it and the listener subscribe.
LEMMA OpOwners ==
  ASSUME TypeOK, NEW t \in Threads
  PROVE  /\ ipc[t].op \in DelayCalls => t = "js" /\ ipc[t].obj \in Nat
         /\ ipc[t].op \in SubscriptionCalls => t \in {"js", "sa"} /\ ipc[t].obj \in Objects
         /\ t \notin Workers /\ ipc[t].op \in SyncOps => t = "js" /\ ipc[t].obj \in Workers
         /\ CallOf(t) \subseteq Workers
<1>1. t = "js" \/ t = "sa" \/ t \in Workers
  BY Zenon DEF Threads
<1>2. CASE t \in Workers
  BY <1>2, OpFacts, ThreadFacts, Zenon DEF TypeOK, OpsKnown, CallOf
<1>3. CASE t = "js"
  BY <1>3, OpFacts, ThreadFacts, Zenon DEF TypeOK, OpsKnown, CallOf
<1>4. CASE t = "sa"
  <2>1. "subscribe" \notin SyncOps /\ "none" \notin SyncOps /\ "subscribe" \notin DelayCalls /\ "none" \notin DelayCalls
        /\ "none" \notin SubscriptionCalls
    BY Zenon DEF SyncOps, DelayCalls, SubscriptionCalls
  <2> QED
    BY <1>4, <2>1, ThreadFacts, Zenon DEF TypeOK, OpsKnown, CallOf
<1> QED
  BY <1>1, <1>2, <1>3, <1>4, Zenon

LEMMA SentFlagsType ==
  ASSUME TypeOK, NEW t \in Threads
  PROVE  SentFlags(t) \subseteq Types
<1>1. ipc[t].flags \subseteq Types
  BY Zenon DEF TypeOK, IpcType, Ipc
<1>2. sub.current \subseteq Types
  BY Zenon DEF TypeOK, SubType, SubRecord, FlagSets
<1> QED
  BY <1>1, <1>2, Zenon DEF SentFlags

LEMMA ThreadTypes ==
  ASSUME TypeOK, NEW t \in Threads, ThreadNext(t)
  PROVE  TypeOK'
<1>0. /\ IpcType' /\ Advances(t)
      /\ Enters(t) \/ Watches(t) \/ IsServed(t) \/ IsLost(t) \/ IsAnswered(t)
  BY ThreadSteps, Zenon
<1>1. SvcType' /\ CallType' /\ SubType'
  BY <1>0, Zenon DEF TypeOK, SvcType, CallType, SubType, Advances
<1>2. OpsKnown'
  <2>1. \A u \in Threads : ipc'[u].op = ipc[u].op /\ ipc'[u].obj = ipc[u].obj
    BY <1>0, Zenon DEF Advances
  <2>2. sub' = sub
    BY <1>0, Zenon DEF Advances
  <2> QED
    BY <2>1, <2>2, ThreadFacts, Zenon DEF TypeOK, OpsKnown
<1>3. ProxyType'
  <2>0. ProxyType /\ svc.gen \in Nat
    BY Zenon DEF TypeOK, SvcType
  <2>1. svc.gen \in Nat /\ proxy.gen \in Nat
    BY Zenon DEF TypeOK, SvcType, ProxyType
  <2>2. \/ proxy' = proxy \/ proxy' = [proxy EXCEPT !.lock = t] \/ proxy' = [proxy EXCEPT !.lock = "none"]
        \/ proxy' = [proxy EXCEPT !.lock = t, !.gen = svc.gen]
        \/ proxy' = [proxy EXCEPT !.watched = proxy.watched \cup {proxy.gen}]
        \/ proxy' = [proxy EXCEPT !.watched = proxy.watched]
    BY <1>0, Zenon DEF Enters, Watches, IsServed, IsLost, IsAnswered
  <2>3. CASE proxy' = [proxy EXCEPT !.lock = t, !.gen = svc.gen]
    BY <2>0, <2>1, <2>3, Zenon DEF ProxyType
  <2>4. CASE proxy' = [proxy EXCEPT !.watched = proxy.watched \cup {proxy.gen}]
    <3>1. proxy.watched \cup {proxy.gen} \in SUBSET Nat
      BY <2>0, <2>1, Zenon DEF ProxyType
    <3> QED
      BY <2>0, <2>4, <3>1, Zenon DEF ProxyType
  <2>5. CASE proxy' = [proxy EXCEPT !.watched = proxy.watched]
    BY <2>0, <2>5, Zenon DEF ProxyType
  <2>6. CASE proxy' = proxy \/ proxy' = [proxy EXCEPT !.lock = t] \/ proxy' = [proxy EXCEPT !.lock = "none"]
    BY <2>0, <2>6, Zenon DEF ProxyType
  <2> QED
    BY <2>2, <2>3, <2>4, <2>5, <2>6, Zenon
<1>4. DelayType' /\ GhostType'
  <2>1. CASE IsServed(t)
    <3>1. DelayType'
      <4>1. delay.ids + 1 \in Nat
        BY DEF TypeOK, DelayType
      <4>2. \/ ipc[t].op = "RequestSuspendDelay"
               /\ delay' = [delay EXCEPT !.ids = @ + 1, !.active = @ \cup {<<delay.ids + 1, ipc[t].obj>>}]
            \/ delay' = [delay EXCEPT !.active = {d \in @ : d[1] # ipc[t].obj}]
            \/ delay' = delay
        BY <2>1, ServeDelayCases, Zenon DEF IsServed
      <4>3. ipc[t].op = "RequestSuspendDelay" => ipc[t].obj \in Nat
        BY OpOwners, Zenon DEF DelayCalls
      <4>4. CASE ipc[t].op = "RequestSuspendDelay"
                 /\ delay' = [delay EXCEPT !.ids = @ + 1, !.active = @ \cup {<<delay.ids + 1, ipc[t].obj>>}]
        <5>1. delay.active \cup {<<delay.ids + 1, ipc[t].obj>>} \in SUBSET (Nat \X Nat)
          BY <4>1, <4>3, <4>4 DEF TypeOK, DelayType
        <5> QED
          BY <4>1, <4>4, <5>1, Zenon DEF TypeOK, DelayType
      <4>5. CASE delay' = [delay EXCEPT !.active = {d \in @ : d[1] # ipc[t].obj}]
        BY <4>5, Zenon DEF TypeOK, DelayType
      <4>6. CASE delay' = delay
        BY <4>6, Zenon DEF TypeOK, DelayType
      <4> QED
        BY <4>2, <4>4, <4>5, <4>6, Zenon
    <3>2. GhostType'
      <4>1. CallOf(t) \subseteq Workers
        BY OpOwners, Zenon
      <4>2. ghost' = [ghost EXCEPT !.served = ghost.served \cup CallOf(t)]
            \/ ghost' = [ghost EXCEPT !.served = ghost.served]
        BY <2>1, Zenon DEF IsServed
      <4> QED
        BY <4>1, <4>2, Zenon DEF TypeOK, GhostType
    <3> QED
      BY <3>1, <3>2, Zenon
  <2>2. CASE ~IsServed(t)
    BY <1>0, <2>2, Zenon DEF Enters, Watches, IsLost, IsAnswered, TypeOK, DelayType, GhostType
  <2> QED
    BY <2>1, <2>2, Zenon
<1> QED
  BY <1>0, <1>1, <1>2, <1>3, <1>4, Zenon DEF TypeOK

\* on(): what it writes, and the call it begins.
Asks(T, f) ==
  /\ IpcType' /\ \A u \in Threads \ {"js"} : ipc'[u] = ipc[u]
  /\ ipc'["js"].at = "enter" /\ ipc'["js"].op = "subscribe" /\ ipc'["js"].flags = {T}
  /\ ipc'["js"].obj = sub'.obj /\ ipc'["js"].ans = "none"
  /\ sub' \in SubRecord /\ sub'.obj \in Objects
  /\ \/ sub.obj # 0 /\ sub'.obj = sub.obj /\ sub'.all = sub.all \cup {T} /\ (sub'.need <=> sub.need)
     \/ sub.obj = 0 /\ sub'.obj = sub.made + 1 /\ sub'.made = sub.made + 1 /\ sub'.all = {T} /\ ~sub'.need
  /\ sub'.obs = sub.obs /\ sub'.current = {T} /\ (sub'.listening <=> sub.listening)
  /\ sub'.notices = sub.notices /\ sub'.type = T /\ sub'.cb = f
  /\ sub'.made >= sub.made

LEMMA SubscribeFields ==
  ASSUME TypeOK, NEW T \in Types, NEW f \in Callbacks, SubscribeBackgroundTask(T, f)
  PROVE  Asks(T, f)
<1> DEFINE o == IF sub.obj = 0 THEN sub.made + 1 ELSE sub.obj
           s == IF sub.obj = 0 THEN [sub EXCEPT !.obj = o, !.made = o, !.all = {}, !.need = FALSE] ELSE sub
           x == SetFlag(s, T, TRUE)
<1>0. /\ sub.left > 0 /\ (sub.obj # 0 \/ sub.made < Cardinality(Objects))
      /\ sub' = [x EXCEPT !.type = T, !.cb = f, !.left = @ - 1]
      /\ Begin("js", "subscribe", {T}, o)
  BY Zenon DEF SubscribeBackgroundTask
<1>9. sub \in SubRecord /\ sub.left \in Nat /\ sub.obj \in Handles /\ sub.made \in HandleCounts
  BY Zenon DEF TypeOK, SubType, SubRecord
<1>4. sub.made \in Nat
  BY <1>9, ObjectFacts DEF HandleCounts
<1>1. o \in Objects /\ (sub.obj = 0 => o = sub.made + 1) /\ (sub.obj # 0 => o = sub.obj)
  BY <1>0, <1>4, <1>9, ObjectFacts DEF Handles
<1>10. o \in Handles /\ (sub.obj = 0 => o \in HandleCounts) /\ {} \in FlagSets
  BY <1>0, <1>1, <1>4, ObjectFacts DEF Handles, HandleCounts, FlagSets
<1> HIDE DEF o
<1>2. s \in SubRecord /\ s.obj = o /\ s.obs = sub.obs /\ (s.listening <=> sub.listening)
      /\ s.notices = sub.notices /\ s.left = sub.left
  <2>1. CASE sub.obj = 0
    <3>1. s = [sub EXCEPT !.obj = o, !.made = o, !.all = {}, !.need = FALSE]
      BY <2>1, Zenon
    <3> HIDE DEF s
    <3> QED
      BY <1>9, <1>10, <2>1, <3>1, Zenon DEF SubRecord
  <2>2. CASE sub.obj # 0
    <3>1. s = sub
      BY <2>2, Zenon
    <3> HIDE DEF s
    <3> QED
      BY <1>1, <1>9, <2>2, <3>1, Zenon DEF SubRecord
  <2> QED
    BY <2>1, <2>2, Zenon
<1>3. \/ sub.obj # 0 /\ s.all = sub.all /\ (s.need <=> sub.need) /\ s.made = sub.made /\ o = sub.obj
      \/ sub.obj = 0 /\ s.all = {} /\ ~s.need /\ s.made = sub.made + 1 /\ o = sub.made + 1
  BY <1>1, <1>9, Zenon DEF SubRecord
<1> HIDE DEF s
<1>5. x \in SubRecord /\ x.obj = o /\ x.made = s.made /\ x.obs = sub.obs /\ x.current = {T} /\ (x.need <=> s.need)
      /\ (x.listening <=> sub.listening) /\ x.notices = sub.notices /\ x.all = s.all \cup {T} /\ x.left = sub.left
  <2>1. x = SetFlag(s, T, TRUE)
    BY Zenon
  <2> HIDE DEF x
  <2>2. /\ x \in SubRecord /\ x.obj = s.obj /\ x.made = s.made /\ x.obs = s.obs
        /\ x.current = {T} /\ x.all = s.all \cup {T} /\ (x.need <=> s.need)
        /\ (x.listening <=> s.listening) /\ x.notices = s.notices /\ x.left = s.left
    <3>1. x = [s EXCEPT !.current = {T}, !.all = s.all \cup {T}]
      BY <2>1, Zenon DEF SetFlag
    <3>2. s.all \cup {T} \in FlagSets /\ {T} \in FlagSets
      BY <1>2, Zenon DEF SubRecord, FlagSets
    <3> QED
      BY <1>2, <3>1, <3>2, Zenon DEF SubRecord
  <2> QED
    BY <1>2, <2>2, Zenon
<1> HIDE DEF x
<1>11. T \in TypeOrNone /\ f \in CallbackOrNone /\ x.left - 1 \in Nat
  <2>1. x.left = sub.left
    BY <1>5, Zenon
  <2>2. x.left - 1 \in Nat
    BY <1>0, <1>9, <2>1
  <2> QED
    BY <2>2, Zenon DEF TypeOrNone, CallbackOrNone
<1>6. sub' \in SubRecord /\ sub'.obj = o /\ sub'.made = s.made /\ sub'.obs = sub.obs /\ sub'.current = {T}
      /\ sub'.notices = sub.notices /\ sub'.all = s.all \cup {T} /\ sub'.type = T /\ sub'.cb = f
  BY <1>0, <1>5, <1>11, Zenon DEF SubRecord
<1>7. (sub'.need <=> s.need) /\ (sub'.listening <=> sub.listening)
  BY <1>0, <1>5, Zenon DEF SubRecord
<1>8. /\ IpcType' /\ \A u \in Threads \ {"js"} : ipc'[u] = ipc[u]
      /\ ipc'["js"].at = "enter" /\ ipc'["js"].op = "subscribe" /\ ipc'["js"].flags = {T}
      /\ ipc'["js"].obj = o /\ ipc'["js"].ans = "none"
  <2>1. "subscribe" \in Forwarded /\ {T} \in SUBSET Types /\ o \in Nat \cup Workers /\ "js" \in Threads
    BY <1>1, OpFacts, ObjectFacts, ThreadFacts, Zenon DEF SubscriptionCalls
  <2> QED
    BY <1>0, <2>1, BeginStep, ZenonT(30) DEF TypeOK
<1>12. sub'.made >= sub.made
  BY <1>3, <1>4, <1>6
<1>13. \/ sub.obj # 0 /\ sub'.obj = sub.obj /\ sub'.all = sub.all \cup {T} /\ (sub'.need <=> sub.need)
       \/ sub.obj = 0 /\ sub'.obj = sub.made + 1 /\ sub'.made = sub.made + 1 /\ sub'.all = {T} /\ ~sub'.need
  BY <1>3, <1>6, <1>7, Zenon
<1> QED
  BY <1>1, <1>6, <1>7, <1>8, <1>12, <1>13, Zenon DEF Asks

\* The answer to on().
Keeps ==
  /\ ipc["js"].at = "done" /\ ipc["js"].op = "subscribe" /\ ipc' = [ipc EXCEPT !["js"] = Idle]
  /\ sub' \in SubRecord /\ sub'.obj = sub.obj /\ sub'.made = sub.made /\ sub'.all = sub.all
  /\ sub'.current = sub.current /\ (sub'.need <=> sub.need)
  /\ \/ /\ ipc["js"].ans # "none" /\ sub'.obs = sub.obs /\ (sub'.listening <=> sub.listening)
        /\ sub'.notices = sub.notices /\ ghost'.faults = ghost.faults \cup {"failedOn"}
     \/ /\ ipc["js"].ans = "none" /\ sub'.obs = [sub.obs EXCEPT ![sub.type] = @ \cup {sub.cb}]
        /\ sub'.listening
        /\ sub.listening => sub'.notices = sub.notices
        /\ ~sub.listening => sub'.notices = IF svc.published THEN <<"add">> ELSE <<>>
        /\ \/ Here(ipc["js"].gen) /\ ghost'.faults = ghost.faults
           \/ ~Here(ipc["js"].gen) /\ ghost'.faults = ghost.faults \cup {"diedDuringOn"}
  /\ ghost' = [ghost EXCEPT !.faults = ghost'.faults]

LEMMA KeepsFields ==
  ASSUME TypeOK, AddJsObserverObject
  PROVE  Keeps
<1> DEFINE s == [sub EXCEPT !.type = "none", !.cb = "none"]
           obs == [sub.obs EXCEPT ![sub.type] = @ \cup {sub.cb}]
           t == [s EXCEPT !.obs[sub.type] = @ \cup {sub.cb}]
<1>0. /\ ipc["js"].at = "done" /\ ipc["js"].op = "subscribe" /\ ipc' = [ipc EXCEPT !["js"] = Idle]
      /\ sub' = IF ipc["js"].ans # "none" THEN s ELSE SubscriberBgtaskSaStatusChange(t)
  BY Zenon DEF AddJsObserverObject
<1>1. sub \in SubRecord /\ "none" \in TypeOrNone /\ "none" \in CallbackOrNone
  BY Zenon DEF TypeOK, SubType, TypeOrNone, CallbackOrNone
<1>2. sub.type \in Types /\ sub.cb \in Callbacks
  BY <1>0, Zenon DEF TypeOK, OpsKnown
<1>3. sub.obs \in [Types -> SUBSET Callbacks]
  BY <1>1, Zenon DEF SubRecord, Observers
<1>4. /\ s \in SubRecord /\ s.obj = sub.obj /\ s.made = sub.made /\ s.obs = sub.obs /\ s.all = sub.all
      /\ s.current = sub.current /\ (s.need <=> sub.need) /\ (s.listening <=> sub.listening)
      /\ s.notices = sub.notices
  BY <1>1, Zenon DEF SubRecord
<1>5. t = [s EXCEPT !.obs = obs]
  BY <1>4, Zenon
<1>6. obs \in Observers
  BY <1>2, <1>3, Zenon DEF Observers
<1> HIDE DEF s, obs, t
<1>7. /\ t \in SubRecord /\ t.obj = sub.obj /\ t.made = sub.made /\ t.obs = obs /\ t.all = sub.all
      /\ t.current = sub.current /\ (t.need <=> sub.need) /\ (t.listening <=> sub.listening)
      /\ t.notices = sub.notices
  BY <1>4, <1>5, <1>6, Zenon DEF SubRecord
<1>8. \/ ipc["js"].ans # "none" /\ ghost' = [ghost EXCEPT !.faults = ghost.faults \cup {"failedOn"}]
      \/ ipc["js"].ans = "none" /\ ~Here(ipc["js"].gen) /\ ghost' = [ghost EXCEPT !.faults = ghost.faults \cup {"diedDuringOn"}]
      \/ ipc["js"].ans = "none" /\ Here(ipc["js"].gen) /\ ghost' = [ghost EXCEPT !.faults = ghost.faults \cup {}]
  BY Zenon DEF AddJsObserverObject
<1>9. \/ ipc["js"].ans # "none" /\ ghost'.faults = ghost.faults \cup {"failedOn"}
      \/ ipc["js"].ans = "none" /\ ~Here(ipc["js"].gen) /\ ghost'.faults = ghost.faults \cup {"diedDuringOn"}
      \/ ipc["js"].ans = "none" /\ Here(ipc["js"].gen) /\ ghost'.faults = ghost.faults
  BY <1>8 DEF TypeOK, GhostType
<1>10. ghost' = [ghost EXCEPT !.faults = ghost'.faults]
  BY <1>8, Zenon DEF TypeOK, GhostType
<1>11. CASE ipc["js"].ans # "none"
  <2>1. sub' = s
    BY <1>0, <1>11, Zenon
  <2> QED
    BY <1>0, <1>4, <1>9, <1>10, <1>11, <2>1, Zenon DEF Keeps
<1>12. CASE ipc["js"].ans = "none" /\ sub.listening
  <2>1. sub' = t
    BY <1>0, <1>7, <1>12, Zenon DEF SubscriberBgtaskSaStatusChange
  <2> QED
    BY <1>0, <1>7, <1>9, <1>10, <1>12, <2>1, Zenon DEF Keeps, obs
<1>13. CASE ipc["js"].ans = "none" /\ ~sub.listening
  <2> DEFINE n == IF svc.published THEN <<"add">> ELSE <<>>
  <2>1. sub' = [t EXCEPT !.listening = TRUE, !.notices = n]
    BY <1>0, <1>7, <1>13, Zenon DEF SubscriberBgtaskSaStatusChange
  <2>2. n \in Notices
    <3>1. <<>> \in Notices
      BY DEF Notices
    <3>2. <<"add">> \in Notices
      BY DEF Notices
    <3> QED
      BY <3>1, <3>2, Zenon
  <2>3. sub' \in SubRecord /\ sub'.obj = sub.obj /\ sub'.made = sub.made /\ sub'.obs = obs /\ sub'.all = sub.all
        /\ sub'.current = sub.current /\ (sub'.need <=> sub.need) /\ sub'.listening /\ sub'.notices = n
    <3> HIDE DEF n
    <3> QED
      BY <1>7, <2>1, <2>2, Zenon DEF SubRecord
  <2> QED
    BY <1>0, <1>9, <1>10, <1>13, <2>3, Zenon DEF Keeps, obs
<1> QED
  BY <1>11, <1>12, <1>13, Zenon

\* off(): the function goes, and with the last of its type the subscription.
Drops(T, fs) ==
  /\ ipc["js"].at = "idle" /\ sub.obj # 0
  /\ sub' \in SubRecord /\ sub'.obj = sub.obj /\ sub'.made = sub.made /\ (sub'.need <=> sub.need)
  /\ (sub'.listening <=> sub.listening) /\ sub'.notices = sub.notices /\ sub'.type = sub.type /\ sub'.cb = sub.cb
  /\ sub'.obs = [sub.obs EXCEPT ![T] = @ \ fs]
  /\ \/ /\ sub'.obs[T] # {} /\ sub'.all = sub.all /\ sub'.current = sub.current
        /\ UNCHANGED <<ipc, ghost>>
     \/ /\ sub'.obs[T] = {} /\ sub'.all = sub.all \ {T} /\ sub'.current = {T}
        /\ IpcType' /\ \A u \in Threads \ {"js"} : ipc'[u] = ipc[u]
        /\ ipc'["js"].at = "enter" /\ ipc'["js"].op = "unsubscribe" /\ ipc'["js"].flags = {T}
        /\ ipc'["js"].obj = sub.obj /\ ipc'["js"].ans = "none"
        /\ ghost' = [ghost EXCEPT !.faults = ghost.faults \cup Overlap("sa")]

LEMMA DropsFields ==
  ASSUME TypeOK, NEW T \in Types, NEW fs, RemoveJsObserverObject(T, fs)
  PROVE  Drops(T, fs)
<1> DEFINE obs == [sub.obs EXCEPT ![T] = @ \ fs]
           s == [sub EXCEPT !.obs[T] = @ \ fs, !.left = @ - 1]
<1>0. /\ ipc["js"].at = "idle" /\ sub.left > 0 /\ sub.obj # 0
      /\ \/ s.obs[T] # {} /\ sub' = s /\ UNCHANGED <<ipc, ghost>>
         \/ s.obs[T] = {} /\ sub' = SetFlag(s, T, FALSE) /\ Begin("js", "unsubscribe", {T}, sub.obj)
            /\ ghost' = [ghost EXCEPT !.faults = ghost.faults \cup Overlap("sa")]
  BY Zenon DEF RemoveJsObserverObject, JsIdle
<1>1. sub \in SubRecord /\ sub.left \in Nat /\ sub.obj \in Objects /\ sub.obs \in Observers
  BY <1>0, Zenon DEF TypeOK, SubType, SubRecord, Handles
<1>2. obs \in Observers /\ sub.left - 1 \in Nat
  BY <1>0, <1>1 DEF Observers
<1>3. s = [sub EXCEPT !.obs = obs, !.left = sub.left - 1]
  BY <1>1, Zenon DEF SubRecord
<1> HIDE DEF s, obs
<1>4. /\ s \in SubRecord /\ s.obj = sub.obj /\ s.made = sub.made /\ (s.need <=> sub.need)
      /\ (s.listening <=> sub.listening) /\ s.notices = sub.notices /\ s.obs = obs /\ s.all = sub.all
      /\ s.current = sub.current /\ s.type = sub.type /\ s.cb = sub.cb
  BY <1>1, <1>2, <1>3, Zenon DEF SubRecord
<1>5. CASE s.obs[T] # {} /\ sub' = s /\ UNCHANGED <<ipc, ghost>>
  BY <1>0, <1>4, <1>5, Zenon DEF Drops, obs
<1>6. CASE /\ s.obs[T] = {} /\ sub' = SetFlag(s, T, FALSE) /\ Begin("js", "unsubscribe", {T}, sub.obj)
           /\ ghost' = [ghost EXCEPT !.faults = ghost.faults \cup Overlap("sa")]
  <2>1. sub' = [s EXCEPT !.current = {T}, !.all = s.all \ {T}]
    BY <1>6, Zenon DEF SetFlag
  <2>2. {T} \in FlagSets /\ s.all \ {T} \in FlagSets
    BY <1>4, Zenon DEF SubRecord, FlagSets
  <2>3. /\ sub' \in SubRecord /\ sub'.obj = s.obj /\ sub'.made = s.made /\ (sub'.need <=> s.need)
        /\ (sub'.listening <=> s.listening) /\ sub'.notices = s.notices /\ sub'.obs = s.obs
        /\ sub'.all = s.all \ {T} /\ sub'.current = {T} /\ sub'.type = s.type /\ sub'.cb = s.cb
    BY <1>4, <2>1, <2>2, Zenon DEF SubRecord
  <2>4. "unsubscribe" \in Forwarded /\ {T} \in SUBSET Types /\ sub.obj \in Nat \cup Workers /\ "js" \in Threads
    BY <1>1, OpFacts, ObjectFacts, ThreadFacts, ZenonT(30) DEF SubscriptionCalls
  <2>5. /\ IpcType' /\ \A u \in Threads \ {"js"} : ipc'[u] = ipc[u]
        /\ ipc'["js"].at = "enter" /\ ipc'["js"].op = "unsubscribe" /\ ipc'["js"].flags = {T}
        /\ ipc'["js"].obj = sub.obj /\ ipc'["js"].ans = "none"
    <3>1. PICK o \in Nat \cup Workers : o = sub.obj
      BY Zenon, <2>4
    <3>2. IpcType /\ Begin("js", "unsubscribe", {T}, o)
      BY <1>6, <3>1, Zenon DEF TypeOK
    <3>3. /\ IpcType' /\ \A u \in Threads \ {"js"} : ipc'[u] = ipc[u]
          /\ ipc'["js"].at = "enter" /\ ipc'["js"].op = "unsubscribe" /\ ipc'["js"].flags = {T}
          /\ ipc'["js"].obj = o /\ ipc'["js"].ans = "none"
      BY <2>4, <3>2, BeginStep, ZenonT(30)
    <3> QED
      BY <3>1, <3>3, Zenon
  <2> QED
    BY <1>0, <1>4, <1>6, <2>3, <2>5, Zenon DEF Drops, obs
<1> QED
  BY Zenon, <1>0, <1>5, <1>6

LEMMA OverlapType ==
  ASSUME GhostType, NEW t
  PROVE  ghost.faults \cup Overlap(t) \in SUBSET {"race", "failedOn", "diedDuringOn", "restoreFailed", "reused", "unsent"}
  BY Zenon DEF GhostType, Overlap

LEMMA SubTypes ==
  ASSUME TypeOK, SubNext
  PROVE  TypeOK'
<1>0. /\ SvcType /\ ProxyType /\ IpcType /\ CallType /\ SubType /\ DelayType /\ GhostType /\ OpsKnown
      /\ svc' = svc /\ proxy' = proxy /\ call' = call /\ delay' = delay
  BY Zenon
     DEF TypeOK, SubNext, SubscribeBackgroundTask, RemoveJsObserverObject, AddJsObserverObject,
    UnSubscribeBackgroundTask, OnRemoveSystemAbility, OnAddSystemAbility, RestoreDone, serviceVars
<1>1. SvcType' /\ ProxyType' /\ CallType' /\ DelayType'
  BY <1>0, Zenon DEF SvcType, ProxyType, CallType, DelayType
<1>2. ASSUME NEW T \in Types, NEW f \in Callbacks, SubscribeBackgroundTask(T, f)
      PROVE  IpcType' /\ SubType' /\ GhostType' /\ OpsKnown'
  <2>1. Asks(T, f)
    BY <1>2, SubscribeFields, Zenon
  <2>2. ghost' = [ghost EXCEPT !.faults = ghost.faults \cup Overlap("sa")]
    BY <1>2, Zenon DEF SubscribeBackgroundTask
  <2>3. GhostType'
    BY <1>0, <2>2, OverlapType, Zenon DEF GhostType
  <2>4. OpsKnown'
    <3>1. "subscribe" \notin SyncOps /\ "subscribe" \notin DelayCalls /\ "subscribe" \in SubscriptionCalls
      BY Zenon DEF SyncOps, DelayCalls, SubscriptionCalls
    <3>2. \A w \in Workers : ipc'[w] = ipc[w]
      BY <2>1, ThreadFacts, Zenon DEF Asks
    <3>3. ipc'["sa"] = ipc["sa"]
      BY <2>1, ThreadFacts, Zenon DEF Asks
    <3> QED
      BY <1>0, <2>1, <3>1, <3>2, <3>3, Zenon DEF Asks, OpsKnown
  <2> QED
    BY <2>1, <2>3, <2>4, Zenon DEF Asks, SubType
<1>3. ASSUME AddJsObserverObject
      PROVE  IpcType' /\ SubType' /\ GhostType' /\ OpsKnown'
  <2>1. Keeps
    BY <1>3, KeepsFields, Zenon
  <2>2. GhostType'
    <3>1. ghost'.faults \in {ghost.faults, ghost.faults \cup {"failedOn"}, ghost.faults \cup {"diedDuringOn"}}
      BY <2>1, Zenon DEF Keeps
    <3>2. ghost' = [ghost EXCEPT !.faults = ghost'.faults]
      BY <2>1, Zenon DEF Keeps
    <3> QED
      BY <1>0, <3>1, <3>2, Zenon DEF GhostType
  <2>3. IpcType' /\ ipc'["js"] = Idle /\ \A u \in Threads \ {"js"} : ipc'[u] = ipc[u]
    BY <1>0, <2>1, IdleStep, ThreadFacts, ZenonT(30) DEF Keeps
  <2>4. OpsKnown'
    <3>1. "none" \notin SyncOps /\ "none" \notin DelayCalls /\ "none" \notin SubscriptionCalls
      BY Zenon DEF SyncOps, DelayCalls, SubscriptionCalls
    <3>2. (\A w \in Workers : ipc'[w] = ipc[w]) /\ ipc'["sa"] = ipc["sa"]
      BY <2>3, ThreadFacts, Zenon
    <3> QED
      BY <1>0, <2>3, <3>1, <3>2, IdleFacts, Zenon DEF OpsKnown
  <2> QED
    BY <2>1, <2>2, <2>3, <2>4, Zenon DEF Keeps, SubType
<1>4. ASSUME NEW T \in Types, NEW fs, RemoveJsObserverObject(T, fs)
      PROVE  IpcType' /\ SubType' /\ GhostType' /\ OpsKnown'
  <2>1. Drops(T, fs)
    BY <1>4, DropsFields, Zenon
  <2>2. GhostType'
    BY <1>0, <2>1, OverlapType DEF GhostType, Drops
  <2>3. CASE UNCHANGED <<ipc, ghost>>
    BY <1>0, <2>1, <2>2, <2>3, Zenon DEF Drops, OpsKnown, IpcType, SubType
  <2>4. CASE /\ IpcType' /\ \A u \in Threads \ {"js"} : ipc'[u] = ipc[u]
             /\ ipc'["js"].op = "unsubscribe" /\ ipc'["js"].obj = sub.obj
    <3>1. "unsubscribe" \notin SyncOps /\ "unsubscribe" \notin DelayCalls /\ "unsubscribe" \in SubscriptionCalls
      BY Zenon DEF SyncOps, DelayCalls, SubscriptionCalls
    <3>2. (\A w \in Workers : ipc'[w] = ipc[w]) /\ ipc'["sa"] = ipc["sa"]
      BY <2>4, ThreadFacts, Zenon
    <3>3. sub.obj \in Objects
      BY <1>0, <2>1, Zenon DEF Drops, SubType, SubRecord, Handles
    <3>4. OpsKnown'
      BY <1>0, <2>4, <3>1, <3>2, <3>3, Zenon DEF OpsKnown
    <3> QED
      BY <2>1, <2>2, <2>4, <3>4, Zenon DEF Drops, SubType
  <2> QED
    BY <2>1, <2>3, <2>4, Zenon DEF Drops
<1>5. ASSUME UnSubscribeBackgroundTask
      PROVE  IpcType' /\ SubType' /\ GhostType' /\ OpsKnown'
  <2>1. GhostType'
    BY <1>0, <1>5, Zenon DEF GhostType, UnSubscribeBackgroundTask
  <2>2. SubType'
    <3>1. CASE sub' = sub
      BY <1>0, <3>1, Zenon DEF SubType
    <3>2. CASE sub' = [sub EXCEPT !.obj = 0, !.listening = FALSE, !.notices = <<>>]
      <4>1. <<>> \in Notices /\ 0 \in Handles
        BY DEF Notices, Handles
      <4> QED
        BY <1>0, <3>2, <4>1, Zenon DEF SubType, SubRecord
    <3> QED
      BY <1>5, <3>1, <3>2, Zenon DEF UnSubscribeBackgroundTask
  <2>3. sub'.type = sub.type /\ sub'.cb = sub.cb
    BY <1>0, <1>5, Zenon DEF SubType, SubRecord, UnSubscribeBackgroundTask
  <2>4. /\ IpcType' /\ ipc'["js"] = Idle /\ (\A w \in Workers : ipc'[w] = ipc[w])
        /\ ipc'["sa"].op = ipc["sa"].op /\ ipc'["sa"].obj = ipc["sa"].obj
    <3>0. ipc["sa"] \in Ipc /\ sub.current \in SUBSET Types
      BY <1>0, ThreadFacts, Zenon DEF IpcType, SubType, SubRecord, FlagSets
    <3>1. CASE ipc' = [ipc EXCEPT !["js"] = Idle]
      BY Zenon, <1>0, <3>1, IdleStep, ThreadFacts
    <3>2. CASE ipc' = [ipc EXCEPT !["js"] = Idle,
                                  !["sa"].flags = IF ipc["sa"].obj = sub.obj THEN sub.current ELSE @]
      <4> DEFINE fl == IF ipc["sa"].obj = sub.obj THEN sub.current ELSE ipc["sa"].flags
                 r == [ipc["sa"] EXCEPT !.flags = fl]
      <4>1. r \in Ipc /\ r.op = ipc["sa"].op /\ r.obj = ipc["sa"].obj
        BY <3>0, Zenon DEF Ipc
      <4>2. ipc' = [[ipc EXCEPT !["js"] = Idle] EXCEPT !["sa"] = r]
        BY <1>0, <3>2, ThreadFacts, Zenon DEF IpcType
      <4> HIDE DEF r
      <4> QED
        BY <1>0, <4>1, <4>2, IdleFacts, ThreadFacts, Zenon DEF IpcType
    <3> QED
      BY <1>5, <3>1, <3>2, Zenon DEF UnSubscribeBackgroundTask
  <2>5. OpsKnown'
    <3>1. "none" \notin SyncOps /\ "none" \notin DelayCalls /\ "none" \notin SubscriptionCalls
      BY Zenon DEF SyncOps, DelayCalls, SubscriptionCalls
    <3> QED
      BY <1>0, <2>3, <2>4, <3>1, IdleFacts, Zenon DEF OpsKnown
  <2> QED
    BY <2>1, <2>2, <2>4, <2>5, Zenon
<1>6. ASSUME OnRemoveSystemAbility
      PROVE  IpcType' /\ SubType' /\ GhostType' /\ OpsKnown'
  <2> DEFINE n == sub.need \/ (sub.obj # 0 /\ ~IsEmpty)
  <2>1. sub' = [sub EXCEPT !.notices = Tail(sub.notices), !.need = n] /\ sub.notices # <<>>
        /\ ipc' = ipc /\ ghost' = ghost
    BY <1>6, Zenon DEF OnRemoveSystemAbility
  <2>2. Tail(sub.notices) \in Notices
    BY <1>0, <2>1 DEF SubType, SubRecord, Notices
  <2>3. n \in BOOLEAN
    BY <1>0, Zenon DEF SubType, SubRecord
  <2> HIDE DEF n
  <2>4. sub' \in SubRecord /\ sub'.type = sub.type /\ sub'.cb = sub.cb
    BY <1>0, <2>1, <2>2, <2>3, Zenon DEF SubType, SubRecord
  <2> QED
    BY <1>0, <2>1, <2>4, Zenon DEF SubType, IpcType, GhostType, OpsKnown
<1>7. ASSUME OnAddSystemAbility
      PROVE  IpcType' /\ SubType' /\ GhostType' /\ OpsKnown'
  <2>1. sub.notices # <<>> /\ \/ sub' = [sub EXCEPT !.notices = Tail(sub.notices)] /\ UNCHANGED <<ipc, ghost>>
                              \/ /\ sub' = [sub EXCEPT !.notices = Tail(sub.notices), !.current = sub.all]
                                 /\ sub.obj # 0 /\ Begin("sa", "subscribe", sub.all, sub.obj)
                                 /\ ghost' = [ghost EXCEPT !.faults = ghost.faults \cup Overlap("js")]
    BY <1>7, Zenon DEF OnAddSystemAbility
  <2>2. Tail(sub.notices) \in Notices /\ sub.all \in FlagSets
    BY <1>0, <2>1 DEF SubType, SubRecord, Notices
  <2>3. sub' \in SubRecord /\ sub'.type = sub.type /\ sub'.cb = sub.cb
    BY <1>0, <2>1, <2>2, Zenon DEF SubType, SubRecord
  <2>4. GhostType'
    BY <1>0, <2>1, OverlapType, SMTT(30) DEF GhostType
  <2>5. CASE UNCHANGED <<ipc, ghost>>
    BY <1>0, <2>3, <2>5, Zenon DEF SubType, IpcType, GhostType, OpsKnown
  <2>6. CASE sub.obj # 0 /\ Begin("sa", "subscribe", sub.all, sub.obj)
    <3>1. PICK o \in Objects, a \in SUBSET Types : o = sub.obj /\ a = sub.all
      BY <1>0, <2>2, <2>6, Zenon DEF SubType, SubRecord, Handles, FlagSets
    <3>2. Begin("sa", "subscribe", a, o) /\ "subscribe" \in Forwarded /\ o \in Nat \cup Workers /\ "sa" \in Threads
      BY <2>6, <3>1, OpFacts, ObjectFacts, ThreadFacts, Zenon DEF SubscriptionCalls
    <3>3. /\ IpcType' /\ \A u \in Threads \ {"sa"} : ipc'[u] = ipc[u]
          /\ ipc'["sa"].op = "subscribe" /\ ipc'["sa"].obj = o
      BY <1>0, <3>2, BeginStep, ZenonT(30)
    <3>4. (\A w \in Workers : ipc'[w] = ipc[w]) /\ ipc'["js"] = ipc["js"]
      BY <3>3, ThreadFacts, Zenon
    <3>5. OpsKnown'
      BY <1>0, <2>3, <3>1, <3>3, <3>4, Zenon DEF OpsKnown
    <3> QED
      BY <2>3, <2>4, <3>3, <3>5, Zenon DEF SubType
  <2> QED
    BY <2>1, <2>5, <2>6, Zenon
<1>8. ASSUME RestoreDone
      PROVE  IpcType' /\ SubType' /\ GhostType' /\ OpsKnown'
  <2>1. /\ sub' = sub \/ sub' = [sub EXCEPT !.need = FALSE]
        /\ ghost' = [ghost EXCEPT !.faults = ghost.faults] \/ ghost' = [ghost EXCEPT !.faults = ghost.faults \cup {"restoreFailed"}]
        /\ ipc' = [ipc EXCEPT !["sa"] = Idle]
    BY <1>8, Zenon DEF RestoreDone
  <2>2. GhostType'
    BY <1>0, <2>1, Zenon DEF GhostType
  <2>3. sub' \in SubRecord /\ sub'.type = sub.type /\ sub'.cb = sub.cb
    BY <1>0, <2>1, Zenon DEF SubType, SubRecord
  <2>4. IpcType' /\ ipc'["sa"] = Idle /\ \A u \in Threads \ {"sa"} : ipc'[u] = ipc[u]
    BY Zenon, <1>0, <2>1, IdleStep, ThreadFacts
  <2>5. (\A w \in Workers : ipc'[w] = ipc[w]) /\ ipc'["js"] = ipc["js"]
    BY <2>4, ThreadFacts, Zenon
  <2>6. OpsKnown'
    BY <1>0, <2>3, <2>4, <2>5, IdleFacts, Zenon DEF OpsKnown
  <2> QED
    BY <2>2, <2>3, <2>4, <2>6, Zenon DEF SubType
<1>9. IpcType' /\ SubType' /\ GhostType' /\ OpsKnown'
  BY <1>2, <1>3, <1>4, <1>5, <1>6, <1>7, <1>8, Zenon DEF SubNext
<1> QED
  BY <1>1, <1>9, Zenon DEF TypeOK

\* A call made: refused on the spot, queued, or begun on the JavaScript thread.
Issued(w, c) ==
  /\ ipc["js"].at = "idle" /\ call[w].at = "none"
  /\ call'[w] \in CallRecord /\ \A u \in Workers \ {w} : call'[u] = call[u]
  /\ call'[w].api = c.api /\ call'[w].form = c.form /\ (call'[w].throw <=> c.throw)
  /\ call'[w].err = Issue(c).err /\ call'[w].block = Issue(c).block
  /\ \/ ~Issue(c).queued /\ call'[w].at = "refused" /\ ipc' = ipc
        /\ call'[w].told = IF Issue(c).thrown THEN "thrown" ELSE "nothing"
     \/ Issue(c).queued /\ c.api \notin SyncOps /\ call'[w].at = "queued" /\ ipc' = ipc
     \/ /\ Issue(c).queued /\ c.api \in SyncOps /\ call'[w].at = "sync"
        /\ IpcType' /\ \A u \in Threads \ {"js"} : ipc'[u] = ipc[u]
        /\ ipc'["js"].at = "enter" /\ ipc'["js"].op = c.api /\ ipc'["js"].obj = w /\ ipc'["js"].ans = "none"

LEMMA IssueFields ==
  ASSUME TypeOK, NEW w \in Workers, NEW c \in Calls, IssueCall(w, c)
  PROVE  Issued(w, c) /\ CallType'
<1>0. CallType /\ IpcType
  BY Zenon DEF TypeOK
<1>1. PICK o \in Outcome : o = Issue(c)
  BY IssueOutcome, Zenon
<1>2. c.api \in Apis /\ c.form \in Forms /\ c.throw \in BOOLEAN
  BY ClientAssumption, Zenon
<1> DEFINE now == o.queued /\ c.api \in SyncOps
           at == IF now THEN "sync" ELSE IF o.queued THEN "queued" ELSE "refused"
           told == IF o.queued THEN "none" ELSE IF o.thrown THEN "thrown" ELSE "nothing"
           r == [at |-> at, api |-> c.api, form |-> c.form, throw |-> c.throw, err |-> o.err,
                 told |-> told, block |-> o.block]
<1>3. /\ ipc["js"].at = "idle" /\ call[w].at = "none" /\ call' = [call EXCEPT ![w] = r]
      /\ now => Begin("js", c.api, {}, w)
      /\ ~now => ipc' = ipc
  BY <1>1, Zenon DEF IssueCall, JsIdle
<1>4. /\ at \in {"sync", "queued", "refused"} /\ told \in {"none", "thrown", "nothing"}
      /\ o.err \in Wrongs /\ o.block \in Blocks
  BY <1>1, Zenon DEF Outcome
<1>5. \/ ~o.queued /\ ~now /\ at = "refused" /\ told = IF o.thrown THEN "thrown" ELSE "nothing"
      \/ o.queued /\ c.api \notin SyncOps /\ ~now /\ at = "queued"
      \/ o.queued /\ c.api \in SyncOps /\ now /\ at = "sync"
  BY Zenon
<1> HIDE DEF now, at, told
<1>6. r \in CallRecord
  <2>1. at \in CallStages /\ c.api \in ApiOrNone /\ c.form \in FormOrNone /\ o.err \in Errors /\ told \in Tolds
    BY <1>2, <1>4, Zenon DEF CallStages, ApiOrNone, FormOrNone, Errors, Tolds
  <2> QED
    BY <1>2, <1>4, <2>1, Zenon DEF CallRecord
<1>7. r.at = at /\ r.api = c.api /\ r.form = c.form /\ (r.throw <=> c.throw) /\ r.err = o.err /\ r.told = told
      /\ r.block = o.block
  BY <1>2, Zenon
<1> HIDE DEF r
<1>8. CallType' /\ call'[w] = r /\ \A u \in Workers \ {w} : call'[u] = call[u]
  BY <1>0, <1>3, <1>6, Zenon DEF CallType
<1>9. now => /\ IpcType' /\ \A u \in Threads \ {"js"} : ipc'[u] = ipc[u]
             /\ ipc'["js"].at = "enter" /\ ipc'["js"].op = c.api /\ ipc'["js"].obj = w /\ ipc'["js"].ans = "none"
  <2>1. PICK op \in Forwarded : op = c.api
    BY <1>2, OpFacts, Zenon
  <2>2. {} \in SUBSET Types /\ w \in Nat \cup Workers /\ "js" \in Threads
    BY ThreadFacts, Zenon
  <2>3. now => Begin("js", op, {}, w)
    BY <1>3, <2>1, Zenon
  <2>4. now => /\ IpcType' /\ \A u \in Threads \ {"js"} : ipc'[u] = ipc[u]
               /\ ipc'["js"].at = "enter" /\ ipc'["js"].op = op /\ ipc'["js"].obj = w /\ ipc'["js"].ans = "none"
    BY <1>0, <2>2, <2>3, BeginStep, ZenonT(30)
  <2> QED
    BY <2>1, <2>4, Zenon
<1> QED
  BY <1>1, <1>3, <1>5, <1>6, <1>7, <1>8, <1>9, Zenon DEF Issued

LEMMA CallTypes ==
  ASSUME TypeOK, CallNext
  PROVE  TypeOK'
<1>0. /\ SvcType /\ ProxyType /\ IpcType /\ CallType /\ SubType /\ DelayType /\ GhostType /\ OpsKnown
      /\ svc' = svc /\ proxy' = proxy /\ sub' = sub /\ delay' = delay /\ ghost' = ghost
  BY Zenon DEF TypeOK, CallNext, IssueCall, Execute, Executed, CompletedCB, SyncReturns, serviceVars
<1>1. SvcType' /\ ProxyType' /\ SubType' /\ DelayType' /\ GhostType'
  BY <1>0, Zenon DEF SvcType, ProxyType, SubType, DelayType, GhostType
<1>2. ASSUME NEW w \in Workers, NEW c \in Calls, IssueCall(w, c)
      PROVE  IpcType' /\ CallType' /\ OpsKnown'
  <2>1. Issued(w, c) /\ CallType'
    BY <1>2, IssueFields, Zenon
  <2>2. CASE ipc' = ipc
    BY <1>0, <2>1, <2>2, Zenon DEF IpcType, OpsKnown
  <2>3. CASE /\ c.api \in SyncOps
             /\ IpcType' /\ \A u \in Threads \ {"js"} : ipc'[u] = ipc[u]
             /\ ipc'["js"].op = c.api /\ ipc'["js"].obj = w
    <3>1. c.api \notin SubscriptionCalls /\ c.api \notin DelayCalls /\ c.api # "subscribe"
      BY <2>3, OpFacts, Zenon DEF SubscriptionCalls
    <3>2. (\A u \in Workers : ipc'[u] = ipc[u]) /\ ipc'["sa"] = ipc["sa"]
      BY <2>3, ThreadFacts, Zenon
    <3> QED
      BY <1>0, <2>1, <2>3, <3>1, <3>2, Zenon DEF OpsKnown
  <2>4. \/ ipc' = ipc
        \/ /\ c.api \in SyncOps
           /\ IpcType' /\ \A u \in Threads \ {"js"} : ipc'[u] = ipc[u]
           /\ ipc'["js"].op = c.api /\ ipc'["js"].obj = w
    BY <2>1, Zenon DEF Issued
  <2> QED
    BY <2>2, <2>3, <2>4, Zenon
<1>3. ASSUME NEW w \in Workers, Execute(w)
      PROVE  IpcType' /\ CallType' /\ OpsKnown'
  <2>1. call' = [call EXCEPT ![w].at = "executed"] \/ call' = [call EXCEPT ![w].at = "executing"]
    BY <1>3, Zenon DEF Execute
  <2>2. CallType'
    <3>1. "executed" \in CallStages /\ "executing" \in CallStages
      BY Zenon DEF CallStages
    <3> QED
      BY <1>0, <2>1, <3>1 DEF CallType, CallRecord
  <2>3. CASE ipc' = ipc
    BY <1>0, <2>2, <2>3, Zenon DEF IpcType, OpsKnown
  <2>4. CASE Begin(w, call[w].api, {}, w)
    <3>1. call[w].api \in Apis \cup {"none"}
      BY <1>0, Zenon DEF CallType, CallRecord, ApiOrNone
    <3>2. IpcType' /\ (\A u \in Threads \ {w} : ipc'[u] = ipc[u]) /\ ipc'[w].op = call[w].api
      <4> DEFINE r == [Idle EXCEPT !.at = "enter", !.op = call[w].api, !.flags = {}, !.obj = w]
      <4>1. r \in Ipc /\ r.op = call[w].api
        BY <3>1, IdleFacts, OpFacts, Zenon DEF Ipc, Stages
      <4>2. ipc' = [ipc EXCEPT ![w] = r]
        BY <2>4, Zenon DEF Begin
      <4> HIDE DEF r
      <4> QED
        BY <1>0, <4>1, <4>2, ThreadFacts, Zenon DEF IpcType
    <3>3. ipc'["js"] = ipc["js"] /\ ipc'["sa"] = ipc["sa"]
      BY <3>2, ThreadFacts, Zenon
    <3>4. \A u \in Workers : ipc'[u].op \in Apis \cup {"none"}
      BY <1>0, <3>1, <3>2, ThreadFacts, Zenon DEF OpsKnown
    <3>5. OpsKnown'
      BY <1>0, <3>3, <3>4, Zenon DEF OpsKnown
    <3> QED
      BY <2>2, <3>2, <3>5, Zenon
  <2> QED
    BY <1>3, <2>3, <2>4, Zenon DEF Execute
<1>4. ASSUME NEW w \in Workers, Executed(w)
      PROVE  IpcType' /\ CallType' /\ OpsKnown'
  <2>0. ipc[w].ans \in Answers /\ w \in Threads
    BY <1>0, ThreadFacts, Zenon DEF IpcType, Ipc
  <2>1. call' = [call EXCEPT ![w] = [call[w] EXCEPT !.at = "executed", !.err = ipc[w].ans]]
        /\ ipc' = [ipc EXCEPT ![w] = Idle]
    BY <1>4, Zenon DEF Executed
  <2>2. CallType'
    <3>1. "executed" \in CallStages /\ ipc[w].ans \in Errors
      BY <2>0, Zenon DEF CallStages, Errors
    <3> QED
      BY <1>0, <2>1, <3>1, Zenon DEF CallType, CallRecord
  <2>3. IpcType' /\ ipc'[w] = Idle /\ \A u \in Threads \ {w} : ipc'[u] = ipc[u]
    BY Zenon, <1>0, <2>0, <2>1, IdleStep
  <2>4. ipc'["js"] = ipc["js"] /\ ipc'["sa"] = ipc["sa"]
    BY <2>3, ThreadFacts, Zenon
  <2>5. \A u \in Workers : ipc'[u].op \in Apis \cup {"none"}
    BY <1>0, <2>3, ThreadFacts, IdleFacts, Zenon DEF OpsKnown
  <2>6. OpsKnown'
    BY <1>0, <2>4, <2>5, Zenon DEF OpsKnown
  <2> QED
    BY <2>2, <2>3, <2>6, Zenon
<1>5. ASSUME NEW w \in Workers, CompletedCB(w)
      PROVE  IpcType' /\ CallType' /\ OpsKnown'
  <2>1. PICK told \in {"resolved", "rejected"} :
          call' = [call EXCEPT ![w] = [call[w] EXCEPT !.at = "settled", !.block = "freed", !.told = told]]
    BY <1>5, Zenon DEF CompletedCB
  <2>2. CallType'
    <3>1. "settled" \in CallStages /\ "freed" \in Blocks /\ told \in Tolds
      BY Zenon DEF CallStages, Blocks, Tolds
    <3> QED
      BY <1>0, <2>1, <3>1, Zenon DEF CallType, CallRecord
  <2>3. ipc' = ipc
    BY <1>5, Zenon DEF CompletedCB
  <2> QED
    BY <1>0, <2>2, <2>3, Zenon DEF IpcType, OpsKnown
<1>6. ASSUME NEW w \in Workers, SyncReturns(w)
      PROVE  IpcType' /\ CallType' /\ OpsKnown'
  <2>0. ipc["js"].ans \in Answers
    BY <1>0, ThreadFacts, Zenon DEF IpcType, Ipc
  <2>1. /\ ipc' = [ipc EXCEPT !["js"] = Idle]
        /\ \E told \in {"resolved", "thrown"} :
             call' = [call EXCEPT ![w] = [call[w] EXCEPT !.at = "settled", !.block = "freed", !.err = ipc["js"].ans, !.told = told]]
    BY <1>6, Zenon DEF SyncReturns
  <2>2. CallType'
    <3>1. PICK told \in {"resolved", "thrown"} :
             call' = [call EXCEPT ![w] = [call[w] EXCEPT !.at = "settled", !.block = "freed", !.err = ipc["js"].ans, !.told = told]]
      BY Zenon, <2>1
    <3>2. "settled" \in CallStages /\ "freed" \in Blocks /\ told \in Tolds /\ ipc["js"].ans \in Errors
      BY <2>0, Zenon DEF CallStages, Blocks, Tolds, Errors
    <3> QED
      BY <1>0, <3>1, <3>2, Zenon DEF CallType, CallRecord
  <2>3. IpcType' /\ ipc'["js"] = Idle /\ \A u \in Threads \ {"js"} : ipc'[u] = ipc[u]
    BY ZenonT(30), <1>0, <2>1, IdleStep, ThreadFacts
  <2>4. OpsKnown'
    <3>1. "none" \notin SyncOps /\ "none" \notin DelayCalls /\ "none" \notin SubscriptionCalls
      BY Zenon DEF SyncOps, DelayCalls, SubscriptionCalls
    <3>2. (\A u \in Workers : ipc'[u] = ipc[u]) /\ ipc'["sa"] = ipc["sa"]
      BY <2>3, ThreadFacts, Zenon
    <3> QED
      BY <1>0, <2>3, <3>1, <3>2, IdleFacts, Zenon DEF OpsKnown
  <2> QED
    BY <2>2, <2>3, <2>4, Zenon
<1>7. IpcType' /\ CallType' /\ OpsKnown'
  BY <1>2, <1>3, <1>4, <1>5, <1>6, Zenon DEF CallNext
<1> QED
  BY <1>1, <1>7, Zenon DEF TypeOK

LEMMA DelayTypes ==
  ASSUME TypeOK, DelayNext
  PROVE  TypeOK'
<1>0. /\ SvcType /\ ProxyType /\ IpcType /\ CallType /\ SubType /\ DelayType /\ GhostType /\ OpsKnown
      /\ svc' = svc /\ proxy' = proxy /\ sub' = sub /\ call' = call
  BY Zenon
     DEF TypeOK, DelayNext, RequestSuspendDelay, RegisterCallback, CancelSuspendDelay,
     ForgetCallback,
    HandleRequestExpired, OnExpired, RunExpired, serviceVars
<1>1. SvcType' /\ ProxyType' /\ SubType' /\ CallType'
  BY <1>0, Zenon DEF SvcType, ProxyType, SubType, CallType
<1>2. ASSUME NEW op \in DelayCalls, NEW k \in Nat, Begin("js", op, {}, k)
      PROVE  IpcType' /\ OpsKnown'
  <2>1. op \in Forwarded /\ {} \in SUBSET Types /\ k \in Nat \cup Workers /\ "js" \in Threads
    BY OpFacts, ThreadFacts, Zenon
  <2>2. /\ IpcType' /\ \A u \in Threads \ {"js"} : ipc'[u] = ipc[u]
        /\ ipc'["js"].op = op /\ ipc'["js"].obj = k
    BY <1>0, <1>2, <2>1, BeginStep, ZenonT(30)
  <2>3. (\A u \in Workers : ipc'[u] = ipc[u]) /\ ipc'["sa"] = ipc["sa"]
    BY <2>2, ThreadFacts, Zenon
  <2>4. op \notin SyncOps /\ op \notin SubscriptionCalls /\ op # "subscribe"
    BY OpFacts, Zenon DEF SubscriptionCalls
  <2> QED
    BY <1>0, <2>2, <2>3, <2>4, Zenon DEF OpsKnown
<1>3. ASSUME ipc' = [ipc EXCEPT !["js"] = Idle]
      PROVE  IpcType' /\ OpsKnown'
  <2>1. IpcType' /\ ipc'["js"] = Idle /\ \A u \in Threads \ {"js"} : ipc'[u] = ipc[u]
    BY ZenonT(30), <1>0, <1>3, IdleStep, ThreadFacts
  <2>2. "none" \notin SyncOps /\ "none" \notin DelayCalls /\ "none" \notin SubscriptionCalls
    BY Zenon DEF SyncOps, DelayCalls, SubscriptionCalls
  <2>3. (\A u \in Workers : ipc'[u] = ipc[u]) /\ ipc'["sa"] = ipc["sa"]
    BY <2>1, ThreadFacts, Zenon
  <2> QED
    BY <1>0, <2>1, <2>2, <2>3, IdleFacts, Zenon DEF OpsKnown
<1>4. ASSUME ipc' = ipc
      PROVE  IpcType' /\ OpsKnown'
  BY <1>0, <1>4, Zenon DEF IpcType, OpsKnown
<1>5. ASSUME RequestSuspendDelay
      PROVE  IpcType' /\ OpsKnown' /\ DelayType' /\ GhostType'
  <2>1. delay.asked + 1 \in Nat
    BY <1>0 DEF DelayType
  <2>2. Begin("js", "RequestSuspendDelay", {}, delay.asked + 1) /\ delay' = [delay EXCEPT !.asked = delay.asked + 1]
        /\ ghost' = ghost
    BY <1>5, Zenon DEF RequestSuspendDelay
  <2>3. IpcType' /\ OpsKnown'
    <3>1. PICK k \in Nat : k = delay.asked + 1
      BY <2>1, Zenon
    <3> QED
      BY <1>2, <2>2, <3>1, Zenon DEF DelayCalls
  <2> QED
    BY <1>0, <2>1, <2>2, <2>3, Zenon DEF DelayType, GhostType
<1>6. ASSUME RegisterCallback
      PROVE  IpcType' /\ OpsKnown' /\ DelayType' /\ GhostType'
  <2>1. PICK id : id = IF ipc["js"].ans = "none" THEN ipc["js"].id ELSE -1
    BY Zenon
  <2>2. id \in Int /\ ipc["js"].obj \in Nat
    <3>1. ipc["js"].id \in Nat
      BY <1>0, ThreadFacts, Zenon DEF IpcType, Ipc
    <3>2. ipc["js"].op = "RequestSuspendDelay"
      BY <1>6, Zenon DEF RegisterCallback
    <3>3. ipc["js"].obj \in Nat
      BY <1>0, <3>2, Zenon DEF OpsKnown, DelayCalls
    <3>4. id \in Int
      <4>1. ipc["js"].id \in Int /\ -1 \in Int
        BY <3>1
      <4> QED
        BY <2>1, <4>1, Zenon
    <3> QED
      BY <3>3, <3>4, Zenon
  <2>3. /\ \/ UNCHANGED <<delay, ghost>>
           \/ /\ delay' = [delay EXCEPT !.registered = {p \in delay.registered : p[1] # id} \cup {<<id, ipc["js"].obj>>}]
              /\ \/ ghost' = [ghost EXCEPT !.faults = ghost.faults]
                 \/ ghost' = [ghost EXCEPT !.faults = ghost.faults \cup {"reused"}]
        /\ ipc' = [ipc EXCEPT !["js"] = Idle]
    BY <1>6, <2>1, Zenon DEF RegisterCallback
  <2>4. {p \in delay.registered : p[1] # id} \cup {<<id, ipc["js"].obj>>} \in SUBSET (Int \X Nat)
    BY <1>0, <2>2 DEF DelayType
  <2>5. DelayType'
    BY <1>0, <2>3, <2>4, Zenon DEF DelayType
  <2>6. GhostType'
    BY <1>0, <2>3 DEF GhostType
  <2> QED
    BY <1>3, <2>3, <2>5, <2>6, Zenon
<1>7. ASSUME NEW id \in 1 .. MaxDelays, CancelSuspendDelay(id)
      PROVE  IpcType' /\ OpsKnown' /\ DelayType' /\ GhostType'
  <2>1. Begin("js", "CancelSuspendDelay", {}, id) /\ delay' = delay /\ ghost' = ghost
    BY <1>7, Zenon DEF CancelSuspendDelay
  <2>2. id \in Nat /\ "CancelSuspendDelay" \in DelayCalls
    BY BoundsAssumption DEF DelayCalls
  <2> QED
    BY <1>0, <1>2, <2>1, <2>2, Zenon DEF DelayType, GhostType
<1>8. ASSUME ForgetCallback
      PROVE  IpcType' /\ OpsKnown' /\ DelayType' /\ GhostType'
  <2> DEFINE gone == {p[2] : p \in {q \in delay.registered : q[1] = ipc["js"].obj}}
             left == {p \in delay.registered : p[1] # ipc["js"].obj}
  <2>1. delay' = [delay EXCEPT !.registered = left, !.cancelled = delay.cancelled \cup gone]
        /\ ipc' = [ipc EXCEPT !["js"] = Idle] /\ ghost' = ghost
    BY <1>8, Zenon DEF ForgetCallback
  <2>2. gone \subseteq Nat /\ left \subseteq Int \X Nat
    BY <1>0, Zenon DEF DelayType
  <2> HIDE DEF gone, left
  <2>3. delay.cancelled \cup gone \in SUBSET Nat
    BY <1>0, <2>2, Zenon DEF DelayType
  <2>4. DelayType'
    BY <1>0, <2>1, <2>2, <2>3, Zenon DEF DelayType
  <2> QED
    BY <1>0, <1>3, <2>1, <2>4, Zenon DEF GhostType
<1>9. ASSUME NEW d \in delay.active, HandleRequestExpired(d)
      PROVE  IpcType' /\ OpsKnown' /\ DelayType' /\ GhostType'
  <2>1. d[2] \in Nat
    BY <1>0, Zenon DEF DelayType
  <2>2. delay' = [delay EXCEPT !.active = delay.active \ {d}, !.expired = delay.expired \cup {d[2]}]
        /\ ipc' = ipc /\ ghost' = ghost
    BY <1>9, Zenon DEF HandleRequestExpired
  <2>3. delay.active \ {d} \in SUBSET (Nat \X Nat) /\ delay.expired \cup {d[2]} \in SUBSET Nat
    BY <1>0, <2>1, Zenon DEF DelayType
  <2> QED
    BY <1>0, <1>4, <2>2, <2>3, Zenon DEF DelayType, GhostType
<1>10. ASSUME NEW k \in delay.expired, OnExpired(k)
       PROVE  IpcType' /\ OpsKnown' /\ DelayType' /\ GhostType'
  <2>0. k \in Nat
    BY <1>0, Zenon DEF DelayType
  <2>1. /\ ipc' = ipc /\ (ghost' = ghost \/ ghost' = [ghost EXCEPT !.faults = ghost.faults \cup {"unsent"}])
        /\ \/ delay' = [delay EXCEPT !.expired = delay.expired \ {k}]
           \/ delay' = [delay EXCEPT !.expired = delay.expired \ {k}, !.jsq = delay.jsq \cup {k}]
           \/ delay' = [delay EXCEPT !.expired = delay.expired \ {k},
                                     !.registered = {p \in delay.registered : p[2] # k}]
    BY <1>10, Zenon DEF OnExpired
  <2>2. DelayType'
    <3>1. /\ delay.expired \ {k} \in SUBSET Nat /\ delay.jsq \cup {k} \in SUBSET Nat
          /\ {p \in delay.registered : p[2] # k} \in SUBSET (Int \X Nat)
      BY <1>0, <2>0, Zenon DEF DelayType
    <3> DEFINE reg == {p \in delay.registered : p[2] # k}
               e == delay.expired \ {k}
               j == delay.jsq \cup {k}
    <3>2. \/ delay' = [delay EXCEPT !.expired = e]
          \/ delay' = [delay EXCEPT !.expired = e, !.jsq = j]
          \/ delay' = [delay EXCEPT !.expired = e, !.registered = reg]
      BY <2>1, Zenon
    <3> HIDE DEF reg, e, j
    <3>3. e \in SUBSET Nat /\ j \in SUBSET Nat /\ reg \in SUBSET (Int \X Nat)
      BY <3>1, Zenon DEF reg, e, j
    <3> QED
      BY <1>0, <3>2, <3>3, Zenon DEF DelayType
  <2>3. GhostType'
    BY <1>0, <2>1, Zenon DEF GhostType
  <2> QED
    BY <1>4, <2>1, <2>2, <2>3, Zenon
<1>11. ASSUME NEW k \in delay.jsq, RunExpired(k)
       PROVE  IpcType' /\ OpsKnown' /\ DelayType' /\ GhostType'
  <2>0. k \in Nat
    BY <1>0, Zenon DEF DelayType
  <2>1. /\ ipc' = ipc /\ ghost' = ghost
        /\ delay' = [delay EXCEPT !.jsq = delay.jsq \ {k}, !.told = delay.told \cup {k},
                                  !.registered = {p \in delay.registered : p[2] # k}]
    BY <1>11, Zenon DEF RunExpired
  <2>2. DelayType'
    BY <1>0, <2>0, <2>1, ZenonT(30) DEF DelayType
  <2> QED
    BY <1>0, <1>4, <2>1, <2>2, Zenon DEF GhostType
<1>12. IpcType' /\ OpsKnown' /\ DelayType' /\ GhostType'
  BY <1>5, <1>6, <1>7, <1>8, <1>9, <1>10, <1>11, Zenon DEF DelayNext
<1> QED
  BY <1>1, <1>12, Zenon DEF TypeOK

LEMMA LifeTypes ==
  ASSUME TypeOK, LifeNext
  PROVE  TypeOK'
<1>0. /\ SvcType /\ ProxyType /\ IpcType /\ CallType /\ SubType /\ DelayType /\ GhostType /\ OpsKnown
      /\ ipc' = ipc /\ call' = call /\ ghost' = ghost
  BY Zenon DEF TypeOK, LifeNext, Starts, Readies, Dies, clientVars
<1>1. IpcType' /\ CallType' /\ GhostType'
  BY <1>0, Zenon DEF IpcType, CallType, GhostType
<1>2. svc.gen \in Nat /\ svc.gen + 1 \in Nat
  BY <1>0 DEF SvcType
<1>3. sub.notices \in Notices /\ \A x \in {"add", "remove"} : Append(sub.notices, x) \in Notices
  BY <1>0, SMTT(30) DEF SubType, SubRecord, Notices
<1>4. ASSUME NEW x \in {"add", "remove"}, sub' = sub \/ sub' = [sub EXCEPT !.notices = Append(sub.notices, x)]
      PROVE  SubType' /\ OpsKnown'
  <2>1. SubType' /\ sub'.type = sub.type /\ sub'.cb = sub.cb
    BY <1>0, <1>3, <1>4, Zenon DEF SubType, SubRecord
  <2> QED
    BY <1>0, <2>1, Zenon DEF OpsKnown
<1>5. CASE Starts
  <2>1. svc' = [NoProcess EXCEPT !.gen = svc.gen + 1, !.alive = TRUE] /\ UNCHANGED clientVars
    BY <1>5, Zenon DEF Starts, OnStart
  <2>2. SvcType'
    BY <1>2, <2>1, Zenon DEF SvcType, NoProcess
  <2>3. ProxyType' /\ SubType' /\ DelayType' /\ OpsKnown'
    BY <1>0, <2>1, Zenon DEF ProxyType, SubType, DelayType, OpsKnown, clientVars
  <2> QED
    BY <1>1, <2>2, <2>3, Zenon DEF TypeOK
<1>6. ASSUME NEW m \in Managers, NEW accepted \in BOOLEAN, Readies(m, accepted)
      PROVE  TypeOK'
  <2>1. PICK p \in BOOLEAN, q \in BOOLEAN :
          svc' = [svc EXCEPT !.ready = svc.ready \cup {m}, !.published = p, !.running = q]
    <3>1. svc.published \in BOOLEAN /\ svc.running \in BOOLEAN
      BY <1>0, Zenon DEF SvcType
    <3> QED
      BY <1>6, <3>1, Zenon DEF Readies, SetReady
  <2>2. SvcType'
    BY <1>0, <2>1, Zenon DEF SvcType
  <2>3. (sub' = sub \/ sub' = [sub EXCEPT !.notices = Append(sub.notices, "add")]) /\ proxy' = proxy /\ delay' = delay
    BY <1>6, Zenon DEF Readies
  <2>4. SubType' /\ OpsKnown'
    BY <1>4, <2>3, Zenon
  <2>5. ProxyType' /\ DelayType'
    BY <1>0, <2>3, Zenon DEF ProxyType, DelayType
  <2> QED
    BY <1>1, <2>2, <2>4, <2>5, Zenon DEF TypeOK
<1>7. CASE Dies
  <2>1. svc' = [NoProcess EXCEPT !.gen = svc.gen]
        /\ (sub' = sub \/ sub' = [sub EXCEPT !.notices = Append(sub.notices, "remove")])
        /\ proxy' = [proxy EXCEPT !.deaths = proxy.deaths \cup (proxy.watched \cap {svc.gen}), !.watched = proxy.watched \ {svc.gen}]
        /\ delay' = [delay EXCEPT !.active = {}, !.ids = 0]
    BY <1>7, Zenon DEF Dies, ServiceDies
  <2>2. SvcType'
    BY <1>2, <2>1, Zenon DEF SvcType, NoProcess
  <2>3. SubType' /\ OpsKnown'
    BY <1>4, <2>1, Zenon
  <2>4. ProxyType'
    <3>1. proxy.deaths \cup (proxy.watched \cap {svc.gen}) \in SUBSET Nat /\ proxy.watched \ {svc.gen} \in SUBSET Nat
      BY <1>0, Zenon DEF ProxyType
    <3> QED
      BY <1>0, <2>1, <3>1, Zenon DEF ProxyType
  <2>5. DelayType'
    BY <1>0, <2>1, Zenon DEF DelayType
  <2> QED
    BY <1>1, <2>2, <2>3, <2>4, <2>5, Zenon DEF TypeOK
<1> QED
  BY <1>5, <1>6, <1>7, Zenon DEF LifeNext

LEMMA InitTypes == Init => TypeOK
<1> SUFFICES ASSUME Init PROVE TypeOK
  BY Zenon
<1>1. SvcType
  BY Zenon DEF Init, ServiceInit, NoProcess, SvcType
<1>2. ProxyType
  <2>1. PICK app \in Apps : proxy = [app |-> app, gen |-> 0, lock |-> "none", watched |-> {}, deaths |-> {}]
    BY Zenon DEF Init
  <2> QED
    BY <2>1, Zenon DEF ProxyType
<1>3. IpcType /\ \A t \in Threads : ipc[t] = Idle
  BY IdleFacts, ZenonT(30) DEF Init, IpcType
<1>4. CallType
  <2>1. NoCall \in CallRecord
    BY WrongsFact, Zenon
       DEF NoCall, CallRecord, CallStages, ApiOrNone, FormOrNone, Errors, Tolds, Blocks
  <2> QED
    BY <2>1, Zenon DEF Init, CallType
<1>5. SubType
  <2>1. 0 \in Handles /\ 0 \in HandleCounts /\ {} \in FlagSets /\ <<>> \in Notices /\ "none" \in TypeOrNone
        /\ "none" \in CallbackOrNone /\ [T \in Types |-> {}] \in Observers /\ MaxSubs \in Nat
    BY ObjectFacts, BoundsAssumption
       DEF Handles, HandleCounts, FlagSets, Notices, TypeOrNone, CallbackOrNone, Observers
  <2>2. PICK obs \in Observers, ns \in Notices :
          sub = [obj |-> 0, made |-> 0, obs |-> obs, all |-> {}, current |-> {}, need |-> FALSE,
                 listening |-> FALSE, notices |-> ns, type |-> "none", cb |-> "none", left |-> MaxSubs]
    BY <2>1, Zenon DEF Init
  <2> QED
    BY <2>1, <2>2, Zenon DEF SubType, SubRecord
<1>6. DelayType /\ GhostType
  BY Zenon DEF Init, DelayType, GhostType
<1>7. OpsKnown
  <2>1. "none" \notin SyncOps /\ "none" \notin DelayCalls /\ "none" \notin SubscriptionCalls
    BY Zenon DEF SyncOps, DelayCalls, SubscriptionCalls
  <2> QED
    BY <1>3, <2>1, ThreadFacts, IdleFacts, Zenon DEF OpsKnown
<1> QED
  BY <1>1, <1>2, <1>3, <1>4, <1>5, <1>6, <1>7, Zenon DEF TypeOK

LEMMA ResetTypes ==
  ASSUME TypeOK, NEW g \in proxy.deaths, ResetBackgroundTaskManagerProxy(g)
  PROVE  TypeOK'
<1>1. /\ proxy' = [proxy EXCEPT !.gen = 0, !.deaths = proxy.deaths \ {g}]
      /\ svc' = svc /\ ipc' = ipc /\ sub' = sub /\ call' = call /\ delay' = delay /\ ghost' = ghost
  BY Zenon DEF ResetBackgroundTaskManagerProxy, serviceVars
<1>2. ProxyType'
  BY <1>1, Zenon DEF TypeOK, ProxyType
<1> QED
  BY <1>1, <1>2 DEF TypeOK, SvcType, IpcType, CallType, SubType, DelayType, GhostType, OpsKnown

LEMMA SvcKept ==
  ASSUME NativeNext \/ OperationNext
  PROVE  svc' = svc
  BY Zenon
     DEF NativeNext, OperationNext, NativeOperation, NativeCalls, AddSubscriber, RemoveSubscriber,
    TransientSubscribe, TransientUnsubscribe, EfficiencyAddSubscriber, EfficiencyRemoveSubscriber,
    NativeDies, OnRemoteSubscriberDied, HandleSubscriberDeath, EfficiencySubscriberDied

LEMMA TypeStep ==
  ASSUME TypeOK, [Next]_vars
  PROVE  TypeOK'
<1>1. CASE UNCHANGED <<svc, clientVars>>
  BY <1>1, ZenonT(30)
     DEF TypeOK, SvcType, ProxyType, IpcType, CallType, SubType, DelayType, GhostType, OpsKnown,
     clientVars
<1>2. CASE UNCHANGED vars
  BY <1>1, <1>2, Zenon DEF vars, serviceVars
<1>3. CASE (NativeNext \/ OperationNext) /\ UNCHANGED clientVars
  BY <1>1, <1>3, SvcKept, Zenon
<1>4. CASE ProxyNext
  BY <1>4, ThreadTypes, ResetTypes, Zenon DEF ProxyNext
<1> QED
  BY <1>2, <1>3, <1>4, LifeTypes, SubTypes, CallTypes, DelayTypes, Zenon DEF Next

-----------------------------------------------------------------------------
(* The registries of the managers.                                         *)

\* What the application asks of the service changes no entry of a native.
LEMMA NativeUntouched ==
  ASSUME TypeOK, NativeInv, NEW t \in Threads, ThreadNext(t)
  PROVE  NativeInv'
<1>0. Advances(t) /\ (Enters(t) \/ Watches(t) \/ IsServed(t) \/ IsLost(t) \/ IsAnswered(t))
  BY ThreadSteps, Zenon
<1>1. UNCHANGED <<tran, eff, watch, dying, nat>>
  BY <1>0, Zenon DEF Advances
<1>2. CASE cont' = cont
  <2>1. NativeTypes'
    BY <1>1, <1>2, Zenon DEF NativeInv, NativeTypes
  <2> QED
    BY <1>1, <1>2, <2>1, NativeFrame, Zenon
<1>3. CASE cont' # cont
  <2>1. IsServed(t)
    BY <1>0, <1>3, Zenon DEF Enters, Watches, IsLost, IsAnswered
  <2>2. PICK o, fl : o = ipc[t].obj /\ fl = SentFlags(t)
    BY Zenon
  <2>3. /\ ipc[t].op \in SubscriptionCalls
        /\ cont' = AddHap(cont, o, fl) \/ cont' = RemoveHap(cont, o, fl)
    BY <1>3, <2>1, <2>2, ServeSubscriptionCases, ZenonT(30) DEF IsServed, SubscriptionCalls
  <2>4. o \in Objects /\ fl \subseteq Flags
    BY <2>2, <2>3, OpOwners, SentFlagsType, ClientAssumption, Zenon
  <2>5. \A n \in Natives : cont'[n] = cont[n]
    <3>1. \A n \in Natives : n # o /\ n \in Subscribers
      BY <2>4, SubscribersAssumption, Zenon DEF Subscribers
    <3> QED
      BY <2>3, <3>1, Zenon DEF NativeInv, NativeTypes, AddHap, RemoveHap
  <2>6. NativeTypes'
    <3>1. o \in Subscribers
      BY <2>4, Zenon DEF Subscribers
    <3>2. cont' \in [Subscribers -> SUBSET (Flags \cup {"SA", "HAP"})]
      <4>1. cont[o] \cup fl \cup {"HAP"} \in SUBSET (Flags \cup {"SA", "HAP"})
        BY <2>4, <3>1, Zenon DEF NativeInv, NativeTypes
      <4>2. (IF cont[o] \ fl \subseteq {"HAP"} THEN {} ELSE cont[o] \ fl) \in SUBSET (Flags \cup {"SA", "HAP"})
        BY <3>1, Zenon DEF NativeInv, NativeTypes
      <4> QED
        BY <2>3, <3>1, <4>1, <4>2, Zenon DEF NativeInv, NativeTypes, AddHap, RemoveHap
    <3> QED
      BY <1>1, <3>2, Zenon DEF NativeInv, NativeTypes
  <2> QED
    BY <1>1, <2>5, <2>6, NativeFrame, Zenon
<1> QED
  BY <1>2, <1>3, Zenon

LEMMA NativeInit == Init => NativeInv
<1> SUFFICES ASSUME Init PROVE NativeInv
  BY Zenon
<1>1. NativeTypes
  BY Zenon DEF Init, ServiceInit, NativeTypes, Registries
<1>2. ASSUME NEW n \in Natives
      PROVE  NativeFine(n)
  <2>1. cont[n] = {} /\ tran = {} /\ eff = {} /\ watch = {} /\ dying = {} /\ nat[n].alive /\ nat[n].at = "idle"
    BY ZenonT(30) DEF Init, ServiceInit, Subscribers
  <2>2. \A m : ~Registered(m, n)
    BY <2>1, Zenon DEF Registered
  <2> QED
    BY <2>1, <2>2, Zenon DEF NativeFine, LiveAgrees
<1> QED
  BY <1>1, <1>2, Zenon DEF NativeInv, NativeFine

LEMMA NativeStep ==
  ASSUME TypeOK, NativeInv, [Next]_vars
  PROVE  NativeInv'
<1>1. CASE UNCHANGED <<cont, tran, eff, watch, dying, nat>>
  <2>1. NativeTypes'
    BY <1>1, Zenon DEF NativeInv, NativeTypes
  <2> QED
    BY <1>1, <2>1, NativeFrame, Zenon
<1>2. CASE UNCHANGED vars
  BY <1>1, <1>2, Zenon DEF vars, serviceVars
<1>3. CASE LifeNext
  <2>1. CASE Dies
    BY <2>1, NativeServiceDies, Zenon DEF Dies
  <2>2. CASE ~Dies
    BY <1>1, <1>3, <2>2, Zenon DEF LifeNext, Starts, OnStart, Readies, SetReady
  <2> QED
    BY <2>1, <2>2, Zenon
<1>4. CASE NativeNext
  <2>1. PICK k \in Natives :
          \/ \E op \in {"subscribe", "unsubscribe"} : NativeCalls(k, op)
          \/ \/ AddSubscriber(k) \/ RemoveSubscriber(k)
             \/ TransientSubscribe(k) \/ TransientUnsubscribe(k)
             \/ EfficiencyAddSubscriber(k) \/ EfficiencyRemoveSubscriber(k)
          \/ NativeDies(k)
          \/ OnRemoteSubscriberDied(k) \/ HandleSubscriberDeath(k) \/ EfficiencySubscriberDied(k)
    BY <1>4, Zenon DEF NativeNext
  <2> QED
    BY <2>1, NativeCallSteps, ManagerSteps, NativeDeath, DeathArrives, Zenon
<1>5. CASE OperationNext
  BY <1>1, <1>5, Zenon DEF OperationNext, NativeOperation
<1>6. CASE ProxyNext
  <2>1. CASE \E t \in Threads : ThreadNext(t)
    BY <2>1, NativeUntouched, Zenon
  <2>2. CASE \E g \in proxy.deaths : ResetBackgroundTaskManagerProxy(g)
    BY <1>1, <2>2, Zenon DEF ResetBackgroundTaskManagerProxy, serviceVars
  <2> QED
    BY <1>6, <2>1, <2>2, Zenon DEF ProxyNext
<1>7. CASE SubNext
  BY <1>1, <1>7, Zenon
     DEF SubNext, SubscribeBackgroundTask, RemoveJsObserverObject, AddJsObserverObject,
    UnSubscribeBackgroundTask, OnRemoveSystemAbility, OnAddSystemAbility, RestoreDone, serviceVars
<1>8. CASE CallNext
  BY <1>1, <1>8, Zenon
     DEF CallNext, IssueCall, Execute, Executed, CompletedCB, SyncReturns, serviceVars
<1>9. CASE DelayNext
  BY <1>1, <1>9, ZenonT(30)
     DEF DelayNext, RequestSuspendDelay, RegisterCallback, CancelSuspendDelay, ForgetCallback,
    HandleRequestExpired, OnExpired, RunExpired, serviceVars
<1> QED
  BY <1>2, <1>3, <1>4, <1>5, <1>6, <1>7, <1>8, <1>9, Zenon DEF Next

LEMMA NativeAgrees == NativeInv => RegistriesAgree
<1> SUFFICES ASSUME NativeInv, NEW n \in Natives, nat[n].at = "idle", \A m \in Registries : <<m, n>> \notin dying
             PROVE  LET in == {m \in Registries : Registered(m, n)}
                    IN IF nat[n].alive THEN in \in {{}, Registries} /\ in = {m \in Registries : <<m, n>> \in watch}
                       ELSE ~nat[n].late => in = {}
  BY Zenon DEF RegistriesAgree
<1>1. CASE nat[n].alive
  <2>1. LiveAgrees(n)
    BY <1>1, Zenon DEF NativeInv
  <2>2. {m \in Registries : Registered(m, n)} = {m \in Registries : <<m, n>> \in watch}
    BY <2>1, Zenon DEF LiveAgrees
  <2>3. {m \in Registries : Registered(m, n)} \in {{}, Registries}
    <3>1. (Registered("cont", n) <=> Registered("tran", n)) /\ (Registered("tran", n) <=> Registered("eff", n))
      BY <2>1, Zenon DEF LiveAgrees
    <3> QED
      BY <3>1, Zenon DEF Registries
  <2> QED
    BY <1>1, <2>2, <2>3, Zenon
<1>2. CASE ~nat[n].alive
  BY <1>2, Zenon DEF NativeInv, DeadAgrees
<1> QED
  BY <1>1, <1>2, Zenon

(***************************************************************************)
(* The three managers always know the same subscribing services, across    *)
(* their calls, their deaths and the deaths of the service: for any number *)
(* of services, applications and processes of the service.                 *)
(***************************************************************************)
THEOREM RegistriesAlwaysAgree == Spec => []RegistriesAgree
<1>1. Init => TypeOK /\ NativeInv
  BY InitTypes, NativeInit, Zenon
<1>2. TypeOK /\ NativeInv /\ [Next]_vars => (TypeOK /\ NativeInv)'
  BY TypeStep, NativeStep, Zenon
<1> QED
  BY <1>1, <1>2, NativeAgrees, PTL DEF Spec

-----------------------------------------------------------------------------
(* Calls end cleanly.                                                      *)

LEMMA CleanStep ==
  ASSUME TypeOK, CallsEndCleanly, [Next]_vars
  PROVE  CallsEndCleanly'
<1>0. CallType
  BY Zenon DEF TypeOK
<1>1. CASE call' = call
  BY <1>1, Zenon DEF CallsEndCleanly
<1>2. ASSUME NEW w \in Workers, NEW r, call' = [call EXCEPT ![w] = r],
             r.at = "settled" => r.block = "freed",
             r.at = "refused" =>
               /\ r.block = "freed" \/ (r.api = "StartBackgroundRunning" /\ r.form = "request")
               /\ r.throw => r.told = "thrown" \/ (r.api = "IsModeSupported" /\ r.err = "object")
      PROVE  CallsEndCleanly'
  <2>1. call'[w] = r /\ \A u \in Workers : u # w => call'[u] = call[u]
    BY <1>0, <1>2, Zenon DEF CallType
  <2> QED
    BY <1>2, <2>1, SMTT(30) DEF CallsEndCleanly
<1>3. CASE CallNext
  <2>1. PICK w \in Workers : \/ \E c \in Calls : IssueCall(w, c)
                             \/ Execute(w) \/ Executed(w) \/ CompletedCB(w) \/ SyncReturns(w)
    BY <1>3, Zenon DEF CallNext
  <2>2. call[w] \in CallRecord
    BY <1>0, Zenon DEF CallType
  <2>3. ASSUME NEW c \in Calls, IssueCall(w, c)
        PROVE  CallsEndCleanly'
    <3>1. Issued(w, c)
      BY <2>3, IssueFields, Zenon
    <3>2. Issue(c) \in Outcome /\ (~Issue(c).queued => Refused(c, Issue(c)))
      BY IssueOutcome, Zenon
    <3>3. call'[w].at # "settled"
      BY <3>1, Zenon DEF Issued
    <3>4. call'[w].at = "refused" =>
            /\ call'[w].block = "freed" \/ (call'[w].api = "StartBackgroundRunning" /\ call'[w].form = "request")
            /\ call'[w].throw => call'[w].told = "thrown" \/ (call'[w].api = "IsModeSupported" /\ call'[w].err = "object")
      BY <3>1, <3>2, Zenon DEF Issued, Refused
    <3>5. \A u \in Workers : u # w => call'[u] = call[u]
      BY <3>1, Zenon DEF Issued
    <3> QED
      BY <3>3, <3>4, <3>5, SMTT(30) DEF CallsEndCleanly
  <2>4. CASE Execute(w) \/ Executed(w)
    <3>1. PICK r : call' = [call EXCEPT ![w] = r] /\ r.at \in {"executing", "executed"}
      <4>1. \/ call' = [call EXCEPT ![w] = [call[w] EXCEPT !.at = "executed"]]
            \/ call' = [call EXCEPT ![w] = [call[w] EXCEPT !.at = "executing"]]
            \/ call' = [call EXCEPT ![w] = [call[w] EXCEPT !.at = "executed", !.err = ipc[w].ans]]
        BY <2>4, Zenon DEF Execute, Executed
      <4>2. /\ [call[w] EXCEPT !.at = "executed"].at = "executed"
            /\ [call[w] EXCEPT !.at = "executing"].at = "executing"
            /\ [call[w] EXCEPT !.at = "executed", !.err = ipc[w].ans].at = "executed"
        BY <2>2, Zenon DEF CallRecord
      <4> QED
        BY Zenon, <4>1, <4>2
    <3> QED
      BY Zenon, <1>2, <3>1
  <2>5. CASE CompletedCB(w) \/ SyncReturns(w)
    <3>1. PICK told, err :
            call' = [call EXCEPT ![w] = [call[w] EXCEPT !.at = "settled", !.block = "freed", !.err = err, !.told = told]]
      <4>1. CASE SyncReturns(w)
        BY <4>1, Zenon DEF SyncReturns
      <4>2. CASE CompletedCB(w)
        <5>1. PICK told : call' = [call EXCEPT ![w] = [call[w] EXCEPT !.at = "settled", !.block = "freed", !.told = told]]
          BY <4>2, Zenon DEF CompletedCB
        <5>2. [call[w] EXCEPT !.at = "settled", !.block = "freed", !.told = told]
              = [call[w] EXCEPT !.at = "settled", !.block = "freed", !.err = call[w].err, !.told = told]
          BY <2>2, Zenon DEF CallRecord
        <5> QED
          BY Zenon, <5>1, <5>2
      <4> QED
        BY Zenon, <2>5, <4>1, <4>2
    <3> DEFINE r == [call[w] EXCEPT !.at = "settled", !.block = "freed", !.err = err, !.told = told]
    <3>2. r.at = "settled" /\ r.block = "freed"
      BY <2>2, Zenon DEF CallRecord
    <3> HIDE DEF r
    <3>3. call' = [call EXCEPT ![w] = r]
      BY <3>1, Zenon DEF r
    <3> QED
      BY Zenon, <1>2, <3>2, <3>3
  <2> QED
    BY <2>1, <2>3, <2>4, <2>5, Zenon
<1>4. CASE ~CallNext
  <2>1. CASE UNCHANGED clientVars
    BY <1>1, <2>1, Zenon DEF clientVars
  <2>2. CASE LifeNext
    BY <1>1, <2>1, <2>2, Zenon DEF LifeNext, Starts, Readies, Dies
  <2>3. CASE ProxyNext
    <3>1. CASE \E t \in Threads : ThreadNext(t)
      BY <1>1, <3>1, ThreadSteps, Zenon DEF Advances
    <3>2. CASE \E g \in proxy.deaths : ResetBackgroundTaskManagerProxy(g)
      BY <1>1, <3>2, Zenon DEF ResetBackgroundTaskManagerProxy
    <3> QED
      BY <2>3, <3>1, <3>2, Zenon DEF ProxyNext
  <2>4. CASE SubNext
    BY <1>1, <2>4, Zenon
       DEF SubNext, SubscribeBackgroundTask, RemoveJsObserverObject, AddJsObserverObject,
      UnSubscribeBackgroundTask, OnRemoveSystemAbility, OnAddSystemAbility, RestoreDone
  <2>5. CASE DelayNext
    BY <1>1, <2>5, Zenon
       DEF DelayNext, RequestSuspendDelay, RegisterCallback, CancelSuspendDelay, ForgetCallback,
      HandleRequestExpired, OnExpired, RunExpired
  <2> QED
    BY <1>4, <2>1, <2>2, <2>3, <2>4, <2>5, Zenon DEF Next, vars
<1> QED
  BY <1>3, <1>4, Zenon

(***************************************************************************)
(* Whatever is wrong with the arguments of a call, its block is freed and  *)
(* the module of today throws what it refuses, but for the two exceptions  *)
(* CallsEndCleanly names: for every call of either module.                 *)
(***************************************************************************)
THEOREM CallsAlwaysEndCleanly == Spec => []CallsEndCleanly
<1>1. Init => CallsEndCleanly
  <2>1. Init => call = [w \in Workers |-> NoCall]
    BY Zenon DEF Init
  <2>2. NoCall.at = "none"
    BY Zenon DEF NoCall
  <2> QED
    BY <2>1, <2>2, Zenon DEF CallsEndCleanly
<1>2. TypeOK /\ CallsEndCleanly /\ [Next]_vars => (TypeOK /\ CallsEndCleanly)'
  BY TypeStep, CleanStep, Zenon
<1> QED
  BY <1>1, <1>2, InitTypes, PTL DEF Spec

-----------------------------------------------------------------------------
(* What the application is told is true.                                   *)

\* The call of thread t on behalf of queued call w, and whether w was served.
ThreadTells(t, w) ==
  /\ ipc[t].at \in {"enter", "watch", "send"} => w \notin ghost.served
  /\ ipc[t].at = "reply" => (ipc[t].ans = "none" <=> w \in ghost.served)
  /\ ipc[t].at = "done" => /\ ipc[t].ans = "none" => w \in ghost.served
                           /\ ipc[t].ans \notin {"none", "dead"} => w \notin ghost.served

ErrorTells(w) ==
  /\ call[w].err = "none" => w \in ghost.served
  /\ call[w].err \notin {"none", "dead"} => w \notin ghost.served

Truthful(w) ==
  /\ call[w].at \in {"none", "queued", "refused"} => w \notin ghost.served
  /\ call[w].at = "executing" => ipc[w].at # "idle" /\ ThreadTells(w, w)
  /\ call[w].at = "sync" => /\ ipc["js"].at # "idle" /\ ipc["js"].op \in SyncOps /\ ipc["js"].obj = w
                            /\ ThreadTells("js", w)
  /\ call[w].at = "executed" => ErrorTells(w)
  /\ call[w].at = "settled" => ErrorTells(w) /\ (call[w].told = "resolved" <=> call[w].err = "none")

\* Who calls the service for whom.
Carried ==
  /\ \A w \in Workers : ipc[w].at # "idle" => call[w].at = "executing"
  /\ ipc["js"].at # "idle" /\ ipc["js"].op \in SyncOps => call[ipc["js"].obj].at = "sync"

AnswersInv == Carried /\ \A w \in Workers : Truthful(w)

LEMMA TruthfulFrame ==
  ASSUME NEW w \in Workers, Truthful(w), call'[w] = call[w],
         w \in ghost'.served <=> w \in ghost.served,
         call[w].at = "executing" => ipc'[w] = ipc[w],
         call[w].at = "sync" => ipc'["js"] = ipc["js"]
  PROVE  Truthful(w)'
  BY Zenon DEF Truthful, ThreadTells, ErrorTells

\* A step that touches no queued call.
LEMMA AnswersFrame ==
  ASSUME AnswersInv, call' = call, ghost'.served = ghost.served,
         \A w \in Workers : ipc'[w] = ipc[w],
         \/ ipc'["js"] = ipc["js"]
         \/ /\ ipc["js"].at = "idle" \/ ipc["js"].op \notin SyncOps
            /\ ipc'["js"].at = "idle" \/ ipc'["js"].op \notin SyncOps
  PROVE  AnswersInv'
<1>1. \A w \in Workers : call[w].at = "sync" => ipc'["js"] = ipc["js"]
  BY Zenon DEF AnswersInv, Truthful
<1>2. \A w \in Workers : Truthful(w)'
  BY <1>1, TruthfulFrame, ZenonT(30) DEF AnswersInv
<1>3. Carried'
  BY Zenon DEF AnswersInv, Carried
<1> QED
  BY <1>2, <1>3, Zenon DEF AnswersInv

LEMMA AnswersThread ==
  ASSUME TypeOK, AnswersInv, NEW t \in Threads, ThreadNext(t)
  PROVE  AnswersInv'
<1>0. /\ Advances(t) /\ (Enters(t) \/ Watches(t) \/ IsServed(t) \/ IsLost(t) \/ IsAnswered(t))
      /\ call' = call /\ ipc'[t].op = ipc[t].op /\ ipc'[t].obj = ipc[t].obj /\ \A u \in Threads \ {t} : ipc'[u] = ipc[u]
  BY ThreadSteps, Zenon DEF Advances
<1>1. ipc[t].at # "idle" /\ ipc'[t].at # "idle"
  BY <1>0, Zenon DEF Enters, Watches, IsServed, IsLost, IsAnswered
<1>2. Carried'
  <2>1. \A w \in Workers : ipc'[w].at # "idle" => call'[w].at = "executing"
    BY <1>0, <1>1, ThreadFacts, Zenon DEF AnswersInv, Carried
  <2>2. ipc'["js"].at # "idle" /\ ipc'["js"].op \in SyncOps => call'[ipc'["js"].obj].at = "sync"
    BY <1>0, <1>1, ThreadFacts, Zenon DEF AnswersInv, Carried
  <2> QED
    BY <2>1, <2>2, Zenon DEF Carried
<1>3. \/ ghost'.served = ghost.served
      \/ IsServed(t) /\ Served(t) = "none" /\ ghost'.served = ghost.served \cup CallOf(t)
  <2>1. CASE IsServed(t)
    <3>1. \/ ghost' = [ghost EXCEPT !.served = ghost.served]
          \/ Served(t) = "none" /\ ghost' = [ghost EXCEPT !.served = ghost.served \cup CallOf(t)]
      BY <2>1, Zenon DEF IsServed
    <3> QED
      BY <2>1, <3>1, Zenon DEF TypeOK, GhostType
  <2> QED
    BY <1>0, <2>1, Zenon DEF Enters, Watches, IsLost, IsAnswered
<1>4. IsServed(t) /\ Served(t) # "none" => ghost'.served = ghost.served
  BY Zenon DEF IsServed, TypeOK, GhostType
<1>5. IsServed(t) /\ Served(t) = "none" => ghost'.served = ghost.served \cup CallOf(t)
  BY Zenon DEF IsServed, TypeOK, GhostType
<1>6. ASSUME NEW w \in Workers, w \in CallOf(t), ThreadTells(t, w)
      PROVE  ThreadTells(t, w)'
  <2>1. CASE IsServed(t)
    BY <1>4, <1>5, <1>6, <2>1, Zenon DEF IsServed, ThreadTells
  <2>2. CASE Enters(t)
    BY <1>6, <2>2, Zenon DEF Enters, ThreadTells, NotConnected
  <2>3. CASE Watches(t)
    BY <1>6, <2>3, Zenon DEF Watches, ThreadTells
  <2>4. CASE IsLost(t)
    BY <1>6, <2>4, Zenon DEF IsLost, ThreadTells
  <2>5. CASE IsAnswered(t)
    BY <1>6, <2>5, Zenon DEF IsAnswered, ThreadTells
  <2> QED
    BY Zenon, <1>0, <2>1, <2>2, <2>3, <2>4, <2>5
<1>7. ASSUME NEW w \in Workers
      PROVE  Truthful(w)'
  <2>0. Truthful(w)
    BY Zenon DEF AnswersInv
  <2>1. CASE w \notin CallOf(t)
    <3>1. w \in ghost'.served <=> w \in ghost.served
      BY <1>3, <2>1, Zenon
    <3>2. call[w].at = "executing" => ipc'[w] = ipc[w]
      BY <1>0, <2>1, ThreadFacts, Zenon DEF CallOf
    <3>3. call[w].at = "sync" => ipc'["js"] = ipc["js"]
      BY <1>0, <2>0, <2>1, ThreadFacts, Zenon DEF CallOf, Truthful
    <3> QED
      BY ZenonT(30), <1>0, <2>0, <3>1, <3>2, <3>3, TruthfulFrame
  <2>2. CASE w \in CallOf(t) /\ t \in Workers
    <3>1. t = w /\ call[w].at = "executing"
      BY <1>1, <2>2, Zenon DEF CallOf, AnswersInv, Carried
    <3>2. ThreadTells(w, w)'
      BY <1>6, <2>0, <2>2, <3>1, Zenon DEF Truthful
    <3> QED
      BY <1>0, <1>1, <3>1, <3>2, ZenonT(30) DEF Truthful
  <2>3. CASE w \in CallOf(t) /\ t \notin Workers
    <3>1. t = "js" /\ ipc["js"].op \in SyncOps /\ ipc["js"].obj = w
      BY <2>3, OpOwners, Zenon DEF CallOf
    <3>2. call[w].at = "sync"
      BY <1>1, <3>1, Zenon DEF AnswersInv, Carried
    <3>3. ThreadTells("js", w)'
      BY <1>6, <2>0, <2>3, <3>1, <3>2, Zenon DEF Truthful
    <3> QED
      BY <1>0, <1>1, <3>1, <3>2, <3>3, ZenonT(30) DEF Truthful
  <2> QED
    BY <2>1, <2>2, <2>3, Zenon
<1> QED
  BY <1>2, <1>7, Zenon DEF AnswersInv

LEMMA AnswersCall ==
  ASSUME TypeOK, AnswersInv, CallNext
  PROVE  AnswersInv'
<1>0. ghost' = ghost /\ CallType /\ IpcType
  BY Zenon DEF TypeOK, CallNext, IssueCall, Execute, Executed, CompletedCB, SyncReturns
<1>1. ASSUME NEW w \in Workers, NEW c \in Calls, IssueCall(w, c)
      PROVE  AnswersInv'
  <2>1. /\ ipc["js"].at = "idle" /\ call[w].at = "none" /\ (\A u \in Workers \ {w} : call'[u] = call[u])
        /\ \/ call'[w].at \in {"refused", "queued"} /\ ipc' = ipc
           \/ /\ c.api \in SyncOps /\ call'[w].at = "sync" /\ (\A u \in Threads \ {"js"} : ipc'[u] = ipc[u])
              /\ ipc'["js"].at = "enter" /\ ipc'["js"].op = c.api /\ ipc'["js"].obj = w
    BY <1>1, IssueFields, Zenon DEF Issued
  <2>2. /\ w \notin ghost.served /\ ipc[w].at = "idle" /\ (\A u \in Workers : ipc'[u] = ipc[u])
        /\ \A u \in Workers : call[u].at # "sync"
    BY <2>1, ThreadFacts, ZenonT(30) DEF AnswersInv, Carried, Truthful
  <2>3. ASSUME NEW u \in Workers, u # w
        PROVE  Truthful(u)'
    BY <1>0, <2>1, <2>2, <2>3, TruthfulFrame, ZenonT(30) DEF AnswersInv
  <2>4. Truthful(w)'
    BY <1>0, <2>1, <2>2, Zenon DEF Truthful, ThreadTells
  <2>5. Carried'
    BY <2>1, <2>2, Zenon DEF AnswersInv, Carried
  <2> QED
    BY <2>3, <2>4, <2>5, Zenon DEF AnswersInv
<1>2. ASSUME NEW w \in Workers, Execute(w)
      PROVE  AnswersInv'
  <2>0. call[w].at = "queued" /\ w \notin ghost.served /\ ipc[w].at = "idle"
    BY <1>2, Zenon DEF Execute, AnswersInv, Truthful, Carried
  <2>1. CASE call[w].err # "none"
    <3>1. /\ call'[w].at = "executed" /\ call'[w].err # "none" /\ (\A u \in Workers \ {w} : call'[u] = call[u])
          /\ ipc' = ipc
      BY <1>0, <1>2, <2>1, SMTT(30) DEF Execute, CallType, CallRecord
    <3>2. ASSUME NEW u \in Workers, u # w
          PROVE  Truthful(u)'
      BY <1>0, <3>1, <3>2, TruthfulFrame, Zenon DEF AnswersInv
    <3>3. Truthful(w)'
      BY <1>0, <2>0, <3>1, Zenon DEF Truthful, ErrorTells
    <3>4. ipc["js"].at # "idle" /\ ipc["js"].op \in SyncOps => ipc["js"].obj \in Workers
      BY Zenon DEF TypeOK, OpsKnown
    <3>5. Carried'
      BY <2>0, <3>1, <3>4, Zenon DEF AnswersInv, Carried
    <3> QED
      BY <3>2, <3>3, <3>5, Zenon DEF AnswersInv
  <2>2. CASE call[w].err = "none"
    <3>1. /\ call'[w].at = "executing" /\ (\A u \in Workers \ {w} : call'[u] = call[u])
          /\ Begin(w, call[w].api, {}, w)
      BY <1>0, <1>2, <2>2, Zenon DEF Execute, CallType, CallRecord
    <3>2. ipc'[w].at = "enter" /\ \A u \in Threads \ {w} : ipc'[u] = ipc[u]
      <4>1. [Idle EXCEPT !.at = "enter", !.op = call[w].api, !.flags = {}, !.obj = w].at = "enter"
        BY IdleFacts, Zenon DEF Ipc
      <4> QED
        BY <1>0, <3>1, <4>1, ThreadFacts, Zenon DEF Begin, IpcType
    <3>3. ipc'["js"] = ipc["js"]
      BY <3>2, ThreadFacts, Zenon
    <3>4. ASSUME NEW u \in Workers, u # w
          PROVE  Truthful(u)'
      BY <1>0, <3>1, <3>2, <3>3, <3>4, ThreadFacts, TruthfulFrame, Zenon DEF AnswersInv
    <3>5. Truthful(w)'
      BY <1>0, <2>0, <3>1, <3>2, Zenon DEF Truthful, ThreadTells
    <3>6. ipc["js"].at # "idle" /\ ipc["js"].op \in SyncOps => ipc["js"].obj \in Workers
      BY Zenon DEF TypeOK, OpsKnown
    <3>7. Carried'
      BY <2>0, <3>1, <3>2, <3>3, <3>6, ThreadFacts, Zenon DEF AnswersInv, Carried
    <3> QED
      BY <3>4, <3>5, <3>7, Zenon DEF AnswersInv
  <2> QED
    BY <2>1, <2>2, Zenon
<1>3. ASSUME NEW w \in Workers, Executed(w)
      PROVE  AnswersInv'
  <2>1. /\ call[w].at = "executing" /\ ipc[w].at = "done"
        /\ call' = [call EXCEPT ![w] = [call[w] EXCEPT !.at = "executed", !.err = ipc[w].ans]]
        /\ ipc' = [ipc EXCEPT ![w] = Idle]
    BY <1>3, Zenon DEF Executed
  <2>2. /\ call'[w].at = "executed" /\ call'[w].err = ipc[w].ans /\ (\A u \in Workers \ {w} : call'[u] = call[u])
        /\ ipc'[w].at = "idle" /\ \A u \in Threads \ {w} : ipc'[u] = ipc[u]
    BY <1>0, <2>1, IdleFacts, ThreadFacts, Zenon DEF CallType, CallRecord, IpcType
  <2>3. ipc'["js"] = ipc["js"]
    BY <2>2, ThreadFacts, Zenon
  <2>4. ASSUME NEW u \in Workers, u # w
        PROVE  Truthful(u)'
    BY <1>0, <2>2, <2>3, <2>4, ThreadFacts, TruthfulFrame, Zenon DEF AnswersInv
  <2>5. Truthful(w)'
    BY <1>0, <2>1, <2>2, SMTT(30) DEF AnswersInv, Truthful, ThreadTells, ErrorTells
  <2>6. ipc["js"].at # "idle" /\ ipc["js"].op \in SyncOps => ipc["js"].obj \in Workers
    BY Zenon DEF TypeOK, OpsKnown
  <2>7. Carried'
    <3>1. \A u \in Workers : ipc'[u].at # "idle" => call'[u].at = "executing"
      BY <2>2, ThreadFacts, Zenon DEF AnswersInv, Carried
    <3>2. call[w].at = "executing"
      BY <2>1, Zenon
    <3>3. ipc'["js"].at # "idle" /\ ipc'["js"].op \in SyncOps => call'[ipc'["js"].obj].at = "sync"
      BY <2>2, <2>3, <2>6, <3>2, Zenon DEF AnswersInv, Carried
    <3> QED
      BY <3>1, <3>3, Zenon DEF Carried
  <2> QED
    BY <2>4, <2>5, <2>7, Zenon DEF AnswersInv
<1>4. ASSUME NEW w \in Workers, CompletedCB(w)
      PROVE  AnswersInv'
  <2>1. /\ ipc["js"].at = "idle" /\ call[w].at = "executed" /\ ipc' = ipc
        /\ call' = [call EXCEPT ![w] = [call[w] EXCEPT !.at = "settled", !.block = "freed",
                                                       !.told = IF call[w].err = "none" THEN "resolved" ELSE "rejected"]]
    BY <1>4, Zenon DEF CompletedCB, JsIdle
  <2>2. /\ call'[w].at = "settled" /\ call'[w].err = call[w].err /\ (\A u \in Workers \ {w} : call'[u] = call[u])
        /\ (call'[w].told = "resolved" <=> call'[w].err = "none")
    <3> DEFINE told == IF call[w].err = "none" THEN "resolved" ELSE "rejected"
               r == [call[w] EXCEPT !.at = "settled", !.block = "freed", !.told = told]
    <3>1. call[w] \in CallRecord
      BY <1>0, Zenon DEF CallType
    <3>2. r.at = "settled" /\ r.err = call[w].err /\ r.told = told
      BY <3>1, Zenon DEF CallRecord
    <3>3. told = "resolved" <=> call[w].err = "none"
      BY Zenon
    <3>4. call' = [call EXCEPT ![w] = r]
      BY <2>1, Zenon
    <3> HIDE DEF r, told
    <3>5. call'[w] = r /\ \A u \in Workers \ {w} : call'[u] = call[u]
      BY <1>0, <3>4, Zenon DEF CallType
    <3> QED
      BY <3>2, <3>3, <3>5, Zenon
  <2>3. ASSUME NEW u \in Workers, u # w
        PROVE  Truthful(u)'
    BY <1>0, <2>1, <2>2, <2>3, TruthfulFrame, Zenon DEF AnswersInv
  <2>4. Truthful(w)'
    <3>1. call[w].at = "executed" /\ call'[w].at = "settled" /\ call'[w].err = call[w].err
          /\ (call'[w].told = "resolved" <=> call'[w].err = "none")
      BY <2>1, <2>2, Zenon
    <3>2. ErrorTells(w)
      BY <3>1, Zenon DEF AnswersInv, Truthful
    <3>3. ErrorTells(w)'
      BY <1>0, <3>1, <3>2, Zenon DEF ErrorTells
    <3> QED
      BY <3>1, <3>3, Zenon DEF Truthful
  <2>5. Carried'
    BY <2>1, <2>2 DEF AnswersInv, Carried
  <2> QED
    BY <2>3, <2>4, <2>5, Zenon DEF AnswersInv
<1>5. ASSUME NEW w \in Workers, SyncReturns(w)
      PROVE  AnswersInv'
  <2>1. /\ call[w].at = "sync" /\ ipc["js"].at = "done" /\ ipc' = [ipc EXCEPT !["js"] = Idle]
        /\ call' = [call EXCEPT ![w] = [call[w] EXCEPT !.at = "settled", !.block = "freed", !.err = ipc["js"].ans,
                                                       !.told = IF ipc["js"].ans = "none" THEN "resolved" ELSE "thrown"]]
    BY <1>5, Zenon DEF SyncReturns
  <2>2. /\ call'[w].at = "settled" /\ call'[w].err = ipc["js"].ans /\ (\A u \in Workers \ {w} : call'[u] = call[u])
        /\ (call'[w].told = "resolved" <=> call'[w].err = "none")
    <3> DEFINE told == IF ipc["js"].ans = "none" THEN "resolved" ELSE "thrown"
               r == [call[w] EXCEPT !.at = "settled", !.block = "freed", !.err = ipc["js"].ans, !.told = told]
    <3>1. call[w] \in CallRecord
      BY <1>0, Zenon DEF CallType
    <3>2. r.at = "settled" /\ r.err = ipc["js"].ans /\ r.told = told
      BY <3>1, Zenon DEF CallRecord
    <3>3. told = "resolved" <=> ipc["js"].ans = "none"
      BY Zenon
    <3>4. call' = [call EXCEPT ![w] = r]
      BY <2>1, Zenon
    <3> HIDE DEF r, told
    <3>5. call'[w] = r /\ \A u \in Workers \ {w} : call'[u] = call[u]
      BY <1>0, <3>4, Zenon DEF CallType
    <3> QED
      BY <3>2, <3>3, <3>5, Zenon
  <2>3. ipc'["js"].at = "idle" /\ (\A u \in Threads \ {"js"} : ipc'[u] = ipc[u])
    BY <1>0, <2>1, IdleFacts, ThreadFacts, Zenon DEF IpcType
  <2>4. (\A u \in Workers : ipc'[u] = ipc[u]) /\ \A u \in Workers : call[u].at = "sync" => u = w
    BY <2>1, <2>3, ThreadFacts, Zenon DEF AnswersInv, Truthful
  <2>5. ASSUME NEW u \in Workers, u # w
        PROVE  Truthful(u)'
    BY <1>0, <2>2, <2>4, <2>5, TruthfulFrame, Zenon DEF AnswersInv
  <2>6. Truthful(w)'
    <3>1. call[w].at = "sync" /\ ipc["js"].at = "done" /\ call'[w].at = "settled" /\ call'[w].err = ipc["js"].ans
          /\ (call'[w].told = "resolved" <=> call'[w].err = "none")
      BY <2>1, <2>2, Zenon
    <3>2. ThreadTells("js", w)
      BY <3>1, Zenon DEF AnswersInv, Truthful
    <3>3. ErrorTells(w)'
      BY <1>0, <3>1, <3>2, Zenon DEF ErrorTells, ThreadTells
    <3> QED
      BY <3>1, <3>3, Zenon DEF Truthful
  <2>7. Carried'
    BY <2>1, <2>2, <2>3, <2>4 DEF AnswersInv, Carried
  <2> QED
    BY <2>5, <2>6, <2>7, Zenon DEF AnswersInv
<1> QED
  BY <1>1, <1>2, <1>3, <1>4, <1>5, Zenon DEF CallNext

LEMMA AnswersSub ==
  ASSUME TypeOK, AnswersInv, SubNext
  PROVE  AnswersInv'
<1>0. call' = call /\ IpcType
  BY Zenon
     DEF TypeOK, SubNext, SubscribeBackgroundTask, RemoveJsObserverObject, AddJsObserverObject,
     UnSubscribeBackgroundTask, OnRemoveSystemAbility, OnAddSystemAbility, RestoreDone
<1>1. ghost'.served = ghost.served
  BY Zenon
     DEF TypeOK, GhostType, SubNext, SubscribeBackgroundTask, RemoveJsObserverObject,
     AddJsObserverObject,
     UnSubscribeBackgroundTask, OnRemoveSystemAbility, OnAddSystemAbility, RestoreDone
<1>2. "subscribe" \notin SyncOps /\ "unsubscribe" \notin SyncOps
  BY OpFacts, Zenon DEF SubscriptionCalls
<1>3. ASSUME NEW op \in {"subscribe", "unsubscribe"}, NEW fl, NEW o, JsIdle, Begin("js", op, fl, o)
      PROVE  AnswersInv'
  <2>1. [Idle EXCEPT !.at = "enter", !.op = op, !.flags = fl, !.obj = o].op = op
    BY IdleFacts, Zenon DEF Ipc
  <2>2. ipc'["js"].op = op /\ \A u \in Workers : ipc'[u] = ipc[u]
    BY <1>0, <1>3, <2>1, ThreadFacts, Zenon DEF Begin, IpcType
  <2> QED
    BY <1>0, <1>1, <1>2, <1>3, <2>2, AnswersFrame, Zenon DEF JsIdle
<1>4. ASSUME ipc["js"].op \in {"subscribe", "unsubscribe"}, ipc'["js"] = Idle, \A u \in Workers : ipc'[u] = ipc[u]
      PROVE  AnswersInv'
  BY <1>0, <1>1, <1>2, <1>4, IdleFacts, AnswersFrame, Zenon
<1>5. ASSUME \A u \in Workers \cup {"js"} : ipc'[u] = ipc[u]
      PROVE  AnswersInv'
  BY <1>0, <1>1, <1>5, AnswersFrame, Zenon
<1>6. ASSUME NEW T \in Types, NEW f \in Callbacks, SubscribeBackgroundTask(T, f)
      PROVE  AnswersInv'
  BY <1>3, <1>6, Zenon DEF SubscribeBackgroundTask
<1>7. ASSUME NEW T \in Types, NEW fs, RemoveJsObserverObject(T, fs)
      PROVE  AnswersInv'
  <2>1. JsIdle /\ (ipc' = ipc \/ Begin("js", "unsubscribe", {T}, sub.obj))
    BY <1>7, Zenon DEF RemoveJsObserverObject
  <2> QED
    BY <1>3, <1>5, <2>1, Zenon
<1>8. CASE AddJsObserverObject
  <2>1. ipc["js"].op = "subscribe" /\ ipc' = [ipc EXCEPT !["js"] = Idle]
    BY <1>8, Zenon DEF AddJsObserverObject
  <2> QED
    BY <1>0, <1>4, <2>1, ThreadFacts, Zenon DEF IpcType
<1>9. CASE UnSubscribeBackgroundTask
  <2>1. PICK fl : /\ ipc["js"].op = "unsubscribe"
                  /\ \/ ipc' = [ipc EXCEPT !["js"] = Idle, !["sa"].flags = fl]
                     \/ ipc' = [ipc EXCEPT !["js"] = Idle]
    <3>1. ipc["js"].op = "unsubscribe"
          /\ \/ ipc' = [ipc EXCEPT !["js"] = Idle,
                                   !["sa"].flags = IF ipc["sa"].obj = sub.obj THEN sub.current ELSE ipc["sa"].flags]
             \/ ipc' = [ipc EXCEPT !["js"] = Idle]
      BY <1>9, ThreadFacts, Zenon DEF UnSubscribeBackgroundTask
    <3> QED
      BY <3>1, Zenon
  <2> QED
    BY <1>0, <1>4, <2>1, ThreadFacts, Zenon DEF IpcType
<1>10. CASE OnRemoveSystemAbility
  BY <1>5, <1>10, Zenon DEF OnRemoveSystemAbility
<1>11. CASE OnAddSystemAbility
  <2>1. ipc' = ipc \/ Begin("sa", "subscribe", sub.all, sub.obj)
    BY <1>11, Zenon DEF OnAddSystemAbility
  <2> QED
    BY <1>0, <1>5, <2>1, ThreadFacts, Zenon DEF Begin, IpcType
<1>12. CASE RestoreDone
  <2>1. ipc' = [ipc EXCEPT !["sa"] = Idle]
    BY <1>12, Zenon DEF RestoreDone
  <2> QED
    BY <1>0, <1>5, <2>1, ThreadFacts, Zenon DEF IpcType
<1> QED
  BY <1>6, <1>7, <1>8, <1>9, <1>10, <1>11, <1>12, Zenon DEF SubNext

LEMMA AnswersDelay ==
  ASSUME TypeOK, AnswersInv, DelayNext
  PROVE  AnswersInv'
<1>0. call' = call /\ IpcType
  BY Zenon
     DEF TypeOK, DelayNext, RequestSuspendDelay, RegisterCallback, CancelSuspendDelay,
     ForgetCallback,
     HandleRequestExpired, OnExpired, RunExpired
<1>1. ghost'.served = ghost.served
  BY Zenon
     DEF TypeOK, GhostType, DelayNext, RequestSuspendDelay, RegisterCallback, CancelSuspendDelay,
     ForgetCallback,
     HandleRequestExpired, OnExpired, RunExpired
<1>2. "RequestSuspendDelay" \notin SyncOps /\ "CancelSuspendDelay" \notin SyncOps
  BY OpFacts, Zenon DEF DelayCalls
<1>3. ASSUME NEW op \in DelayCalls, NEW o, JsIdle, Begin("js", op, {}, o)
      PROVE  AnswersInv'
  <2>1. [Idle EXCEPT !.at = "enter", !.op = op, !.flags = {}, !.obj = o].op = op
    BY IdleFacts, Zenon DEF Ipc
  <2>2. ipc'["js"].op = op /\ \A u \in Workers : ipc'[u] = ipc[u]
    BY <1>0, <1>3, <2>1, ThreadFacts, Zenon DEF Begin, IpcType
  <2> QED
    BY <1>0, <1>1, <1>2, <1>3, <2>2, AnswersFrame, Zenon DEF JsIdle, DelayCalls
<1>4. ASSUME ipc["js"].op \in DelayCalls, ipc' = [ipc EXCEPT !["js"] = Idle]
      PROVE  AnswersInv'
  <2>1. ipc'["js"] = Idle /\ \A u \in Workers : ipc'[u] = ipc[u]
    BY <1>0, <1>4, ThreadFacts, Zenon DEF IpcType
  <2> QED
    BY <1>0, <1>1, <1>2, <1>4, <2>1, IdleFacts, AnswersFrame, Zenon DEF DelayCalls
<1>5. ASSUME ipc' = ipc
      PROVE  AnswersInv'
  BY <1>0, <1>1, <1>5, AnswersFrame, Zenon
<1>6. CASE RequestSuspendDelay
  BY <1>3, <1>6, Zenon DEF RequestSuspendDelay, DelayCalls
<1>7. CASE RegisterCallback \/ ForgetCallback
  BY <1>4, <1>7, Zenon DEF RegisterCallback, ForgetCallback, DelayCalls
<1>8. ASSUME NEW id, CancelSuspendDelay(id)
      PROVE  AnswersInv'
  BY <1>3, <1>8, Zenon DEF CancelSuspendDelay, DelayCalls
<1>9. CASE \/ \E d \in delay.active : HandleRequestExpired(d)
           \/ \E k \in delay.expired : OnExpired(k)
           \/ \E k \in delay.jsq : RunExpired(k)
  BY <1>5, <1>9, Zenon DEF HandleRequestExpired, OnExpired, RunExpired
<1> QED
  BY <1>6, <1>7, <1>8, <1>9, Zenon DEF DelayNext

\* Nothing is told before a call is made.
LEMMA AnswersInit == Init => AnswersInv
<1> SUFFICES ASSUME Init PROVE AnswersInv
  BY Zenon
<1>1. /\ call = [w \in Workers |-> NoCall] /\ ipc = [t \in Threads |-> Idle]
      /\ ghost = [faults |-> {}, served |-> {}]
  BY Zenon DEF Init
<1>2. NoCall.at = "none"
  BY Zenon DEF NoCall
<1> QED
  BY <1>1, <1>2, IdleFacts, ThreadFacts, Zenon DEF AnswersInv, Carried, Truthful

\* Every step keeps what was told true.
LEMMA AnswersStep ==
  ASSUME TypeOK, AnswersInv, [Next]_vars
  PROVE  AnswersInv'
<1>1. CASE UNCHANGED <<ipc, call>> /\ ghost'.served = ghost.served
  BY <1>1, AnswersFrame, Zenon
<1>2. CASE UNCHANGED vars
  BY <1>1, <1>2, Zenon DEF vars, clientVars
<1>3. CASE (NativeNext \/ OperationNext) /\ UNCHANGED clientVars
  BY <1>1, <1>3, Zenon DEF clientVars
<1>4. CASE LifeNext
  BY <1>1, <1>4, Zenon DEF LifeNext, Starts, Readies, Dies, clientVars
<1>5. CASE ProxyNext
  BY <1>1, <1>5, AnswersThread, ZenonT(30) DEF ProxyNext, ResetBackgroundTaskManagerProxy
<1> QED
  BY <1>2, <1>3, <1>4, <1>5, AnswersSub, AnswersCall, AnswersDelay, Zenon DEF Next

(***************************************************************************)
(* What the application is told about a call is true, for every number of  *)
(* workers, calls and restarts of the service.                             *)
(***************************************************************************)
THEOREM AnswersAlwaysTrue == Spec => []AnswersTrue
<1>1. AnswersInv => AnswersTrue
  BY Zenon DEF AnswersInv, Truthful, ErrorTells, AnswersTrue
<1> QED
  BY <1>1, AnswersInit, AnswersStep, InitTypes, TypeStep, PTL DEF Spec
=============================================================================
