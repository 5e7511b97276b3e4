------------------------- MODULE SubscriptionProofs -------------------------
(***************************************************************************)
(* The subscription of the application agrees with what the service has    *)
(* of it, for any number of callback types, functions, subscriber objects  *)
(* and restarts of the service.                                            *)
(***************************************************************************)
EXTENDS TaskClientProofs

-----------------------------------------------------------------------------
(* The inductive invariant.                                                *)

Busy(t) == ipc[t].at # "idle" /\ ipc[t].op \in SubscriptionCalls
Asking(op) == ipc["js"].at # "idle" /\ ipc["js"].op = op
Told == ipc["js"].at \in {"reply", "done"} /\ ipc["js"].ans = "none"

\* A process that is reached through a proxy has been published, and what it has
\* of the application came through the proxy of now, or one that was reset.
Reached ==
  /\ svc.alive => svc.gen # 0
  /\ svc.published => svc.alive /\ svc.ready = Managers
  /\ proxy.gen <= svc.gen
  /\ Here(proxy.gen) => svc.published
  /\ Told /\ Busy("js") => ipc["js"].gen <= svc.gen /\ (Here(ipc["js"].gen) => svc.published)
  /\ \A o \in Objects : cont[o] # {} => svc.published /\ proxy.gen \in {0, svc.gen}

\* mutex_ is held from the look at proxy_ to the answer.
Locked ==
  \A t \in Threads :
    /\ ipc[t].at \in {"watch", "send", "reply"} => proxy.lock = t
    /\ ipc[t].at \in {"watch", "send"} => proxy.gen # 0

Newest(ns) == ns[Len(ns)]
HasRemove(ns) == \E i \in 1 .. Len(ns) : ns[i] = "remove"

\* A function is entered for noted flags only, and with a listener; the newest
\* notice is of the state the service is in.
Listens ==
  /\ \A T \in Types : sub.obs[T] # {} => T \in sub.all /\ sub.listening
  /\ sub.listening => sub.obj # 0
  /\ ~sub.listening => sub.notices = <<>>
  /\ sub.notices # <<>> => (Newest(sub.notices) = "add" <=> svc.published)
  /\ Busy("js") => ipc["js"].obj = sub.obj
  /\ Asking("subscribe") => sub.type \in sub.all
  /\ ipc["sa"].at # "idle" => ipc["sa"].op = "subscribe"

\* Unless they met, a call of either thread finds its own flags in currentCallBackType_.
Apart ==
  "race" \notin ghost.faults =>
    /\ ~(Busy("js") /\ Busy("sa"))
    /\ Asking("subscribe") => sub.current = {sub.type}
    /\ Asking("unsubscribe") => \E T \in Types : sub.current = {T} /\ sub.obs[T] = {} /\ T \notin sub.all
    /\ Busy("sa") => ipc["sa"].obj = sub.obj /\ sub.current = sub.all

Restoring ==
  \/ ipc["sa"].at \in {"enter", "watch", "send"}
  \/ ipc["sa"].at \in {"reply", "done"} /\ ipc["sa"].ans # "none"
AllRegistered == \A T \in Types : sub.obs[T] # {} => T \in cont[sub.obj]

\* What the service lost is being restored, or will be: a notice that it went away
\* is still to be handled, or was, and the one that it is back is still to come.
Recovering ==
  \/ AllRegistered
  \/ svc.published /\ Restoring
  \/ /\ svc.published => sub.notices # <<>>
     /\ HasRemove(sub.notices) \/ (sub.need /\ ipc["sa"].at = "idle")
Recovers ==
  ghost.faults \subseteq {"failedOn"} /\ sub.obj # 0 =>
    /\ Recovering
    /\ Asking("subscribe") /\ Told /\ Here(ipc["js"].gen) => sub.type \in cont[sub.obj]

May(T) == SubscribeGate(proxy.app, {T}) = "none"
Leaving(T) == Asking("unsubscribe") /\ T \in sub.current /\ ipc["js"].at \in {"enter", "watch", "send"}

\* What the service has of the application is noted in allCallBackTypes_ or is being
\* given back, and the service cannot refuse to take it back.
Held ==
  /\ cont[sub.obj] \subseteq Types \cup {"HAP"}
  /\ \A T \in Types : T \in cont[sub.obj] => May(T) /\ (T \in sub.all \/ Leaving(T))
  /\ Asking("unsubscribe") /\ Told /\ cont[sub.obj] \subseteq {"HAP"} => cont[sub.obj] = {}
GivesBack ==
  ghost.faults \cap {"race", "failedOn"} = {} =>
    /\ \A o \in Objects : o # sub.obj => cont[o] = {}
    /\ \A T \in sub.all : (sub.obs[T] # {} /\ May(T)) \/ (Asking("subscribe") /\ T = sub.type)
    /\ Asking("subscribe") /\ Told => May(sub.type)
    /\ sub.obj # 0 => Held

SubInv == Reached /\ Locked /\ Listens /\ Apart /\ Recovers /\ GivesBack

\* Once no call is under way, the invariant says that both sides agree.
LEMMA SubInvAgrees ==
  ASSUME TypeOK, SubInv
  PROVE  SubscriptionsAgree
<1> SUFFICES ASSUME Quiet, svc.published
             PROVE  /\ sub.obj # 0 /\ sub.notices = <<>> /\ ghost.faults \subseteq {"failedOn"}
                       => \A T \in Types : sub.obs[T] # {} => T \in cont[sub.obj]
                    /\ ghost.faults \subseteq {"restoreFailed", "diedDuringOn"}
                       => \A o \in Objects : cont[o] \subseteq (IF o = sub.obj THEN sub.all \cup {"HAP"} ELSE {})
  BY Zenon DEF SubscriptionsAgree
<1>1. ipc["js"].at = "idle" /\ ipc["sa"].at = "idle"
  BY ThreadFacts, Zenon DEF Quiet
<1>2. ~Restoring /\ ~Asking("subscribe") /\ ~Asking("unsubscribe")
  BY <1>1, Zenon DEF Restoring, Asking
<1>3. ~HasRemove(<<>>)
  BY DEF HasRemove
<1>4. ASSUME sub.obj # 0, sub.notices = <<>>, ghost.faults \subseteq {"failedOn"}
      PROVE  AllRegistered
  BY <1>2, <1>3, <1>4, Zenon DEF SubInv, Recovers, Recovering
<1>5. ASSUME ghost.faults \subseteq {"restoreFailed", "diedDuringOn"}, NEW o \in Objects
      PROVE  cont[o] \subseteq (IF o = sub.obj THEN sub.all \cup {"HAP"} ELSE {})
  <2>1. ghost.faults \cap {"race", "failedOn"} = {}
    BY <1>5, Zenon
  <2>2. CASE o # sub.obj
    BY <2>1, <2>2, Zenon DEF SubInv, GivesBack
  <2>3. CASE o = sub.obj
    <3>1. Held
      BY <2>1, <2>3, ObjectFacts, Zenon DEF SubInv, GivesBack
    <3> QED
      BY <1>2, <2>3, <3>1, Zenon DEF Held, Leaving
  <2> QED
    BY <2>2, <2>3, Zenon
<1> QED
  BY <1>4, <1>5, Zenon DEF AllRegistered

\* The parts that see of the calls only those of subscriptions.
Agree == Listens /\ Apart /\ Recovers /\ GivesBack

\* A step that touches no subscription.
LEMMA AgreeFrame ==
  ASSUME TypeOK, Agree, svc' = svc, proxy'.app = proxy.app, sub' = sub,
         \A o \in Objects : cont'[o] = cont[o],
         ghost.faults \subseteq ghost'.faults, ipc'["sa"] = ipc["sa"],
         ipc'["js"] = ipc["js"] \/ (~Busy("js") /\ ~Busy("js")')
  PROVE  Agree'
<1>1. \A op \in SubscriptionCalls : (Asking(op)' <=> Asking(op)) /\ (Asking(op) => Busy("js") /\ ipc'["js"] = ipc["js"])
  BY Zenon DEF Asking, Busy
<1>2. (Busy("js")' <=> Busy("js")) /\ (Busy("js") => ipc'["js"] = ipc["js"]) /\ (Busy("sa")' <=> Busy("sa"))
  BY Zenon DEF Busy
<1>3. "subscribe" \in SubscriptionCalls /\ "unsubscribe" \in SubscriptionCalls
  BY Zenon DEF SubscriptionCalls
<1>4. sub.obj # 0 => sub.obj \in Objects
  BY Zenon DEF TypeOK, SubType, SubRecord, Handles
<1>5. Listens'
  BY <1>1, <1>2, <1>3, Zenon DEF Agree, Listens, Here
<1>6. Apart'
  BY <1>1, <1>2, <1>3, Zenon DEF Agree, Apart
<1>7. sub.obj # 0 => (AllRegistered' <=> AllRegistered)
  BY <1>4, Zenon DEF AllRegistered
<1>8. Restoring' <=> Restoring
  BY Zenon DEF Restoring
<1>9. Recovers'
  BY <1>1, <1>3, <1>4, <1>7, <1>8, Zenon DEF Agree, Recovers, Recovering, Told, Here
<1>10. \A T : (May(T)' <=> May(T)) /\ (Leaving(T)' <=> Leaving(T))
  BY <1>1, <1>3, Zenon DEF May, Leaving
<1>11. ASSUME sub.obj # 0, Held
       PROVE  Held'
  BY <1>1, <1>3, <1>4, <1>10, <1>11, Zenon DEF Held, Told
<1>12. GivesBack'
  <2> SUFFICES ASSUME ghost'.faults \cap {"race", "failedOn"} = {}
               PROVE  /\ \A o \in Objects : o # sub.obj => cont'[o] = {}
                      /\ \A T \in sub.all : (sub.obs[T] # {} /\ May(T)') \/ (Asking("subscribe")' /\ T = sub.type)
                      /\ Asking("subscribe")' /\ Told' => May(sub.type)'
                      /\ sub.obj # 0 => Held'
    BY Zenon DEF GivesBack
  <2>1. ghost.faults \cap {"race", "failedOn"} = {}
    BY Zenon
  <2>2. /\ \A o \in Objects : o # sub.obj => cont[o] = {}
        /\ \A T \in sub.all : (sub.obs[T] # {} /\ May(T)) \/ (Asking("subscribe") /\ T = sub.type)
        /\ Asking("subscribe") /\ Told => May(sub.type)
        /\ sub.obj # 0 => Held
    BY <2>1, Zenon DEF Agree, GivesBack
  <2>3. sub.obj # 0 => Held'
    BY <1>11, <2>2, Zenon
  <2> QED
    BY <1>1, <1>3, <1>10, <2>2, <2>3, Zenon DEF Told
<1> QED
  BY <1>5, <1>6, <1>9, <1>12, Zenon DEF Agree

\* A step that uses no proxy and touches no subscription.
LEMMA SubFrame ==
  ASSUME TypeOK, SubInv, svc' = svc, proxy' = proxy, sub' = sub,
         \A o \in Objects : cont'[o] = cont[o],
         ghost.faults \subseteq ghost'.faults, ipc'["sa"] = ipc["sa"],
         ipc'["js"] = ipc["js"] \/ (~Busy("js") /\ ~Busy("js")'),
         \A t \in Threads : ipc'[t] = ipc[t] \/ ipc'[t].at \in {"idle", "enter"}
  PROVE  SubInv'
<1>1. Agree'
  BY AgreeFrame, Zenon DEF SubInv, Agree
<1>2. Reached'
  <2>1. Told' /\ Busy("js")' => ipc'["js"] = ipc["js"] /\ Told /\ Busy("js")
    BY Zenon DEF Told, Busy
  <2> QED
    BY <2>1, Zenon DEF SubInv, Reached, Here
<1>3. Locked'
  BY Zenon DEF SubInv, Locked
<1> QED
  BY <1>1, <1>2, <1>3, Zenon DEF SubInv, Agree

\* Subscriptions of other services, and operations nobody subscribes with.
LEMMA NativeLeavesSub ==
  ASSUME TypeOK, NativeInv, SubInv, NativeNext \/ OperationNext, UNCHANGED clientVars
  PROVE  SubInv'
<1>1. svc' = svc
  BY SvcKept, Zenon
<1>2. ASSUME NEW n \in Natives, cont' = [cont EXCEPT ![n] = {"SA"}] \/ cont' = [cont EXCEPT ![n] = {}]
      PROVE  \A o \in Objects : cont'[o] = cont[o]
  <2>1. \A o \in Objects : o # n /\ o \in Subscribers
    BY SubscribersAssumption, Zenon DEF Subscribers
  <2> QED
    BY <1>2, <2>1, Zenon DEF NativeInv, NativeTypes
<1>3. \A o \in Objects : cont'[o] = cont[o]
  <2>1. \/ cont' = cont
        \/ \E n \in Natives : cont' = [cont EXCEPT ![n] = {"SA"}] \/ cont' = [cont EXCEPT ![n] = {}]
    BY Zenon
       DEF NativeNext, OperationNext, NativeOperation, NativeCalls, AddSubscriber, RemoveSubscriber,
       TransientSubscribe, TransientUnsubscribe, EfficiencyAddSubscriber, EfficiencyRemoveSubscriber,
       NativeDies, OnRemoteSubscriberDied, HandleSubscriberDeath, EfficiencySubscriberDied
  <2> QED
    BY <1>2, <2>1, Zenon
<1> QED
  BY <1>1, <1>3, SubFrame, Zenon DEF clientVars

\* A call of the bindings that is no subscription begins or ends.
LEMMA OtherCallLeavesSub ==
  ASSUME TypeOK, SubInv, svc' = svc, cont' = cont, proxy' = proxy, sub' = sub, ghost.faults \subseteq ghost'.faults,
         \/ ipc' = ipc
         \/ \E o : \E t \in Threads \ {"sa"}, op \in Apis \cup DelayCalls \cup {"none"} :
              ~(t = "js" /\ Busy("js")) /\ Begin(t, op, {}, o)
         \/ \E t \in Threads \ {"sa"} : ~(t = "js" /\ Busy("js")) /\ ipc' = [ipc EXCEPT ![t] = Idle]
  PROVE  SubInv'
<1>1. CASE ipc' = ipc
  BY <1>1, SubFrame, Zenon
<1>2. ASSUME NEW t \in Threads \ {"sa"}, NEW op \in Apis \cup DelayCalls \cup {"none"}, NEW o,
             ~(t = "js" /\ Busy("js")), Begin(t, op, {}, o)
      PROVE  SubInv'
  <2> DEFINE r == [Idle EXCEPT !.at = "enter", !.op = op, !.flags = {}, !.obj = o]
  <2>1. r.at = "enter" /\ r.op = op
    BY IdleFacts, Zenon DEF Ipc
  <2>2. ipc' = [ipc EXCEPT ![t] = r]
    BY <1>2, Zenon DEF Begin
  <2> HIDE DEF r
  <2>3. ipc'[t] = r /\ \A u \in Threads \ {t} : ipc'[u] = ipc[u]
    BY <2>2, Zenon DEF TypeOK, IpcType
  <2>4. op \notin SubscriptionCalls
    BY OpFacts, Zenon DEF SubscriptionCalls
  <2>5. ipc'["js"] = ipc["js"] \/ (~Busy("js") /\ ~Busy("js")')
    BY <1>2, <2>1, <2>3, <2>4, ThreadFacts, Zenon DEF Busy
  <2>6. ipc'["sa"] = ipc["sa"]
    BY <2>3, ThreadFacts, Zenon
  <2>7. \A u \in Threads : ipc'[u] = ipc[u] \/ ipc'[u].at \in {"idle", "enter"}
    BY <2>1, <2>3, Zenon
  <2> QED
    BY <2>5, <2>6, <2>7, SubFrame, Zenon
<1>3. ASSUME NEW t \in Threads \ {"sa"}, ~(t = "js" /\ Busy("js")), ipc' = [ipc EXCEPT ![t] = Idle]
      PROVE  SubInv'
  <2>1. ipc'[t] = Idle /\ \A u \in Threads \ {t} : ipc'[u] = ipc[u]
    BY <1>3, Zenon DEF TypeOK, IpcType
  <2>2. ipc'["js"] = ipc["js"] \/ (~Busy("js") /\ ~Busy("js")')
    BY <1>3, <2>1, IdleFacts, ThreadFacts, Zenon DEF Busy
  <2>3. ipc'["sa"] = ipc["sa"]
    BY <2>1, ThreadFacts, Zenon
  <2>4. \A u \in Threads : ipc'[u] = ipc[u] \/ ipc'[u].at \in {"idle", "enter"}
    BY <2>1, IdleFacts, Zenon
  <2> QED
    BY <2>2, <2>3, <2>4, SubFrame, Zenon
<1> QED
  BY <1>1, <1>2, <1>3, Zenon

\* The calls of the workers, and the synchronous ones of the JavaScript thread.
LEMMA CallLeavesSub ==
  ASSUME TypeOK, AnswersInv, SubInv, CallNext
  PROVE  SubInv'
<1>1. svc' = svc /\ cont' = cont /\ proxy' = proxy /\ sub' = sub /\ ghost' = ghost
  BY Zenon DEF CallNext, IssueCall, Execute, Executed, CompletedCB, SyncReturns, serviceVars
<1>2. ASSUME NEW w \in Workers, NEW c \in Calls, IssueCall(w, c)
      PROVE  SubInv'
  <2>1. JsIdle /\ (ipc' = ipc \/ Begin("js", c.api, {}, w))
    BY <1>2, Zenon DEF IssueCall
  <2>2. ~Busy("js") /\ c.api \in Apis /\ "js" \in Threads \ {"sa"}
    BY <2>1, ClientAssumption, ThreadFacts, Zenon DEF JsIdle, Busy
  <2> QED
    BY <1>1, <2>1, <2>2, OtherCallLeavesSub, Zenon
<1>3. ASSUME NEW w \in Workers
      PROVE  w \in Threads \ {"sa"} /\ w # "js"
  BY ThreadFacts, Zenon
<1>4. ASSUME NEW w \in Workers, Execute(w)
      PROVE  SubInv'
  <2>1. ipc' = ipc \/ (call[w].at = "queued" /\ Begin(w, call[w].api, {}, w))
    BY <1>4, Zenon DEF Execute
  <2>2. call[w].api \in Apis \cup {"none"}
    BY Zenon DEF TypeOK, CallType, CallRecord, ApiOrNone
  <2> QED
    BY <1>1, <1>3, <2>1, <2>2, OtherCallLeavesSub, Zenon
<1>5. ASSUME NEW w \in Workers, Executed(w) \/ CompletedCB(w)
      PROVE  SubInv'
  <2>1. ipc' = ipc \/ ipc' = [ipc EXCEPT ![w] = Idle]
    BY <1>5, Zenon DEF Executed, CompletedCB
  <2> QED
    BY <1>1, <1>3, <2>1, OtherCallLeavesSub, Zenon
<1>6. ASSUME NEW w \in Workers, SyncReturns(w)
      PROVE  SubInv'
  <2>1. call[w].at = "sync" /\ ipc' = [ipc EXCEPT !["js"] = Idle]
    BY <1>6, Zenon DEF SyncReturns
  <2>2. ipc["js"].op \in SyncOps
    BY <2>1, Zenon DEF AnswersInv, Truthful
  <2>3. ~Busy("js") /\ "js" \in Threads \ {"sa"}
    BY <2>2, OpFacts, ThreadFacts, Zenon DEF Busy
  <2> QED
    BY <1>1, <2>1, <2>3, OtherCallLeavesSub, Zenon
<1> QED
  BY <1>2, <1>4, <1>5, <1>6, Zenon DEF CallNext

\* Delays and their callbacks.
LEMMA DelayLeavesSub ==
  ASSUME TypeOK, SubInv, DelayNext
  PROVE  SubInv'
<1>1. svc' = svc /\ cont' = cont /\ proxy' = proxy /\ sub' = sub
  BY Zenon
     DEF DelayNext, RequestSuspendDelay, RegisterCallback, CancelSuspendDelay, ForgetCallback,
     HandleRequestExpired, OnExpired, RunExpired, serviceVars
<1>2. ghost.faults \subseteq ghost'.faults
  <2>1. \/ ghost' = ghost
        \/ ghost' = [ghost EXCEPT !.faults = ghost.faults \cup {"reused"}]
        \/ ghost' = [ghost EXCEPT !.faults = ghost.faults]
        \/ ghost' = [ghost EXCEPT !.faults = ghost.faults \cup {"unsent"}]
    BY Zenon
       DEF DelayNext, RequestSuspendDelay, RegisterCallback, CancelSuspendDelay, ForgetCallback,
       HandleRequestExpired, OnExpired, RunExpired
  <2> QED
    BY <2>1, Zenon DEF TypeOK, GhostType
<1>3. \/ ipc' = ipc
      \/ \E o : \E op \in DelayCalls : ipc["js"].at = "idle" /\ Begin("js", op, {}, o)
      \/ ipc["js"].op \in DelayCalls /\ ipc' = [ipc EXCEPT !["js"] = Idle]
  <2>1. CASE RequestSuspendDelay
    BY <2>1, Zenon DEF RequestSuspendDelay, JsIdle, DelayCalls
  <2>2. CASE RegisterCallback \/ ForgetCallback
    BY <2>2, Zenon DEF RegisterCallback, ForgetCallback, DelayCalls
  <2>3. ASSUME NEW id, CancelSuspendDelay(id)
        PROVE  \E o : \E op \in DelayCalls : ipc["js"].at = "idle" /\ Begin("js", op, {}, o)
    BY <2>3, Zenon DEF CancelSuspendDelay, JsIdle, DelayCalls
  <2>4. CASE \/ \E d \in delay.active : HandleRequestExpired(d)
             \/ \E k \in delay.expired : OnExpired(k)
             \/ \E k \in delay.jsq : RunExpired(k)
    BY <2>4, Zenon DEF HandleRequestExpired, OnExpired, RunExpired
  <2> QED
    BY <2>1, <2>2, <2>3, <2>4, Zenon DEF DelayNext
<1>4. "js" \in Threads \ {"sa"} /\ (ipc["js"].at = "idle" => ~Busy("js")) /\ (ipc["js"].op \in DelayCalls => ~Busy("js"))
  BY ThreadFacts, OpFacts, Zenon DEF Busy
<1> QED
  BY <1>1, <1>2, <1>3, <1>4, OtherCallLeavesSub, Zenon

-----------------------------------------------------------------------------
(* A step of a thread's call through the proxy.                            *)

\* A step of a call keeps what is said of proxies, processes and mutex_.
LEMMA ThreadReaches ==
  ASSUME TypeOK, NativeInv, SubInv, NEW t \in Threads, ThreadNext(t)
  PROVE  Reached' /\ Locked'
<1>0. /\ Advances(t)
      /\ Enters(t) \/ Watches(t) \/ IsServed(t) \/ IsLost(t) \/ IsAnswered(t)
  BY ThreadSteps, Zenon
<1>1. /\ \A u \in Threads \ {t} : ipc'[u] = ipc[u]
      /\ ipc'[t].op = ipc[t].op /\ svc' = svc
  BY <1>0, Zenon DEF Advances
<1>2. /\ svc.gen \in Nat /\ proxy.gen \in Nat /\ svc.published \in BOOLEAN
      /\ \A o \in Objects : o \in Subscribers
  BY Zenon DEF TypeOK, SvcType, ProxyType, Subscribers
<1>3. Reached /\ Locked
  BY Zenon DEF SubInv
<1>4. CASE Enters(t)
  <2>1. /\ ipc[t].at = "enter" /\ proxy.lock = "none" /\ cont' = cont
        /\ \/ proxy.gen # 0 /\ ipc'[t].at = "send" /\ proxy'.gen = proxy.gen /\ proxy'.lock = t
           \/ svc.published /\ ipc'[t].at = "watch" /\ proxy'.gen = svc.gen /\ proxy'.lock = t
           \/ ipc'[t].at = "done" /\ ipc'[t].ans = NotConnected /\ proxy' = proxy
    BY <1>4, Zenon DEF Enters, TypeOK, ProxyType
  <2>2. \A u \in Threads : ipc[u].at \notin {"watch", "send", "reply"}
    BY <1>3, <2>1, ThreadFacts, Zenon DEF Locked
  <2>3. Locked'
    BY <1>1, <1>3, <2>1, <2>2, Zenon DEF Locked, Reached
  <2>4. Told' /\ Busy("js")' => t # "js" /\ Told /\ Busy("js") /\ ipc'["js"] = ipc["js"]
    BY <1>1, <2>1, ThreadFacts, Zenon DEF Told, Busy, NotConnected
  <2>5. Reached'
    BY <1>1, <1>2, <1>3, <2>1, <2>4 DEF Reached, Here
  <2> QED
    BY <2>3, <2>5, Zenon
<1>5. CASE Watches(t)
  <2>1. ipc[t].at = "watch" /\ ipc'[t].at = "send" /\ cont' = cont /\ proxy'.gen = proxy.gen /\ proxy'.lock = proxy.lock
    BY <1>5, Zenon DEF Watches, TypeOK, ProxyType
  <2>3. Locked'
    BY <1>1, <1>3, <2>1, Zenon DEF Locked
  <2>4. Told' /\ Busy("js")' => t # "js" /\ Told /\ Busy("js") /\ ipc'["js"] = ipc["js"]
    BY <1>1, <2>1, ThreadFacts, Zenon DEF Told, Busy
  <2>5. Reached'
    BY <1>1, <1>2, <1>3, <2>1, <2>4, Zenon DEF Reached, Here
  <2> QED
    BY <2>3, <2>5, Zenon
<1>6. CASE IsServed(t)
  <2>1. ipc[t].at = "send" /\ ipc'[t].at = "reply" /\ Here(proxy.gen) /\ proxy' = proxy /\ ipc'[t].gen = proxy.gen
    BY <1>6, Zenon DEF IsServed
  <2>3. Locked'
    BY <1>1, <1>3, <2>1, Zenon DEF Locked
  <2>4. Told' /\ Busy("js")' => \/ t = "js" /\ ipc'["js"].gen = proxy.gen
                                \/ Told /\ Busy("js") /\ ipc'["js"] = ipc["js"]
    BY <1>1, <2>1, ThreadFacts, Zenon DEF Told, Busy
  <2>5. svc.published /\ proxy.gen = svc.gen
    BY <1>3, <2>1, Zenon DEF Reached, Here
  <2>6. Reached'
    BY <1>1, <1>2, <1>3, <2>1, <2>4, <2>5, Zenon DEF Reached, Here
  <2> QED
    BY <2>3, <2>6, Zenon
<1>7. CASE IsLost(t) \/ IsAnswered(t)
  <2>1. /\ ipc[t].at \in {"send", "reply"} /\ ipc'[t].at = "done" /\ cont' = cont
        /\ proxy'.gen = proxy.gen /\ proxy'.lock = "none"
        /\ ipc'[t].ans = "dead" \/ (ipc[t].at = "reply" /\ ipc'[t].ans = ipc[t].ans /\ ipc'[t].gen = ipc[t].gen)
    BY <1>7, Zenon DEF IsLost, IsAnswered, TypeOK, ProxyType
  <2>2. \A u \in Threads \ {t} : ipc[u].at \notin {"watch", "send", "reply"}
    BY <1>3, <2>1, Zenon DEF Locked
  <2>3. Locked'
    BY <1>1, <2>1, <2>2 DEF Locked
  <2>4. Told' /\ Busy("js")' => Told /\ Busy("js") /\ ipc'["js"].gen = ipc["js"].gen
    BY <1>1, <2>1, ThreadFacts, Zenon DEF Told, Busy
  <2>5. Reached'
    BY <1>1, <1>2, <1>3, <2>1, <2>4, Zenon DEF Reached, Here
  <2> QED
    BY <2>3, <2>5, Zenon
<1> QED
  BY <1>0, <1>4, <1>5, <1>6, <1>7, Zenon

\* What every step of a call leaves alone.
LEMMA ThreadKeeps ==
  ASSUME TypeOK, NEW t \in Threads, ThreadNext(t)
  PROVE  /\ svc' = svc /\ sub' = sub /\ proxy'.app = proxy.app /\ ghost'.faults = ghost.faults
         /\ \A u \in Threads \ {t} : ipc'[u] = ipc[u]
         /\ ipc'[t].op = ipc[t].op /\ ipc'[t].obj = ipc[t].obj
         /\ ipc[t].at # "idle" /\ ipc'[t].at # "idle"
<1>0. /\ Advances(t)
      /\ Enters(t) \/ Watches(t) \/ IsServed(t) \/ IsLost(t) \/ IsAnswered(t)
  BY ThreadSteps, Zenon
<1>1. proxy'.app = proxy.app
  BY <1>0, Zenon DEF Enters, Watches, IsServed, IsLost, IsAnswered, TypeOK, ProxyType
<1>2. ghost'.faults = ghost.faults
  BY <1>0, Zenon DEF Enters, Watches, IsServed, IsLost, IsAnswered, TypeOK, GhostType
<1>3. ipc[t].at # "idle" /\ ipc'[t].at # "idle"
  BY <1>0, Zenon DEF Enters, Watches, IsServed, IsLost, IsAnswered
<1> QED
  BY <1>0, <1>1, <1>2, <1>3, Zenon DEF Advances

\* The outcomes of a step that matter to a subscription: it was let through, it was
\* refused or lost, or it went on.
LEMMA ThreadOutcome ==
  ASSUME TypeOK, NEW t \in Threads, ThreadNext(t)
  PROVE  \/ /\ Here(proxy.gen) /\ Served(t) = "none" /\ ServeSubscription(t, TRUE)
            /\ ipc[t].at = "send" /\ ipc'[t].at = "reply" /\ ipc'[t].ans = "none" /\ ipc'[t].gen = proxy.gen
         \/ /\ Here(proxy.gen) /\ Served(t) # "none" /\ cont' = cont
            /\ ipc[t].at = "send" /\ ipc'[t].at = "reply" /\ ipc'[t].ans # "none"
         \/ /\ ~Here(proxy.gen) /\ cont' = cont
            /\ ipc[t].at = "send" /\ ipc'[t].at = "done" /\ ipc'[t].ans # "none"
         \/ /\ proxy.gen = 0 /\ ~svc.published /\ cont' = cont
            /\ ipc[t].at = "enter" /\ ipc'[t].at = "done" /\ ipc'[t].ans # "none"
         \/ /\ cont' = cont
            /\ ipc[t].at \in {"enter", "watch"} /\ ipc'[t].at \in {"watch", "send"}
         \/ /\ cont' = cont /\ ipc[t].at = "reply" /\ ipc'[t].at = "done"
            /\ ipc'[t].gen = ipc[t].gen
            /\ (Here(ipc[t].gen) /\ ipc'[t].ans = ipc[t].ans) \/ (~Here(ipc[t].gen) /\ ipc'[t].ans # "none")
<1>0. Enters(t) \/ Watches(t) \/ IsServed(t) \/ IsLost(t) \/ IsAnswered(t)
  BY ThreadSteps, Zenon
<1>1. CASE Enters(t)
  BY <1>1, Zenon DEF Enters, NotConnected
<1>2. CASE Watches(t)
  BY <1>2, Zenon DEF Watches
<1>3. CASE IsServed(t)
  <2>1. CASE Served(t) = "none"
    BY <1>3, <2>1, Zenon DEF IsServed
  <2>2. CASE Served(t) # "none"
    <3>1. ServeSubscription(t, FALSE)
      BY <1>3, <2>2, Zenon DEF IsServed
    <3>2. cont' = cont
      BY <3>1, ServeSubscriptionCases, Zenon
    <3> QED
      BY <1>3, <2>2, <3>2, Zenon DEF IsServed
  <2> QED
    BY <2>1, <2>2, Zenon
<1>4. CASE IsLost(t)
  BY <1>4, Zenon DEF IsLost
<1>5. CASE IsAnswered(t)
  BY <1>5, Zenon DEF IsAnswered
<1> QED
  BY <1>0, <1>1, <1>2, <1>3, <1>4, <1>5, Zenon

\* A step of a call that is none of subscriptions.
LEMMA OtherThread ==
  ASSUME TypeOK, NativeInv, SubInv, NEW t \in Threads, ThreadNext(t), ~Busy(t)
  PROVE  Agree'
<1>1. t # "sa"
  BY ThreadKeeps, Zenon DEF SubInv, Listens, Busy, SubscriptionCalls
<1>2. ipc[t].op \notin SubscriptionCalls
  BY ThreadKeeps, Zenon DEF Busy
<1>3. cont' = cont
  BY <1>2, ThreadOutcome, ServeSubscriptionCases, Zenon DEF SubscriptionCalls
<1>4. ipc'["sa"] = ipc["sa"] /\ (ipc'["js"] = ipc["js"] \/ (~Busy("js") /\ ~Busy("js")'))
  BY <1>1, <1>2, ThreadKeeps, ThreadFacts, ZenonT(30) DEF Busy
<1> QED
  BY <1>3, <1>4, ThreadKeeps, AgreeFrame, Zenon DEF SubInv, Agree

\* What the service does to the entry of the application.
LEMMA EntryAdded ==
  ASSUME NativeInv, NEW o \in Objects, NEW fl, cont' = AddHap(cont, o, fl)
  PROVE  cont'[o] = cont[o] \cup fl \cup {"HAP"} /\ \A p \in Objects \ {o} : cont'[p] = cont[p]
<1>1. \A p \in Objects : p \in Subscribers
  BY Zenon DEF Subscribers
<1> QED
  BY <1>1, Zenon DEF AddHap, NativeInv, NativeTypes

\* What the service has of an object after it gave back flags.
LEMMA EntryRemoved ==
  ASSUME NativeInv, NEW o \in Objects, NEW fl, cont' = RemoveHap(cont, o, fl)
  PROVE  /\ \/ cont[o] \ fl \subseteq {"HAP"} /\ cont'[o] = {}
            \/ ~(cont[o] \ fl \subseteq {"HAP"}) /\ cont'[o] = cont[o] \ fl
         /\ \A p \in Objects \ {o} : cont'[p] = cont[p]
<1>1. \A p \in Objects : p \in Subscribers
  BY Zenon DEF Subscribers
<1> QED
  BY <1>1, Zenon DEF RemoveHap, NativeInv, NativeTypes

\* No callback type is the mark that the service keeps for applications.
LEMMA TypeFacts ==
  /\ \A T \in Types : T # "HAP"
  /\ "subscribe" \in SubscriptionCalls /\ "unsubscribe" \in SubscriptionCalls
  /\ SubscriptionCalls = {"subscribe", "unsubscribe"}
  BY ClientAssumption, Zenon DEF Flags, SubscriptionCalls

\* A step of on() between its beginning and its answer.
LEMMA OnCallStep ==
  ASSUME TypeOK, NativeInv, SubInv, ThreadNext("js"), Asking("subscribe")
  PROVE  Agree'
<1>0. /\ svc' = svc /\ sub' = sub /\ proxy'.app = proxy.app /\ ghost'.faults = ghost.faults
      /\ ipc'["sa"] = ipc["sa"] /\ ipc'["js"].op = "subscribe" /\ ipc'["js"].obj = ipc["js"].obj
      /\ ipc["js"].op = "subscribe" /\ ipc["js"].at # "idle" /\ ipc'["js"].at # "idle"
  BY ThreadKeeps, ThreadFacts, Zenon DEF Asking
<1>1. /\ Asking("subscribe")' /\ ~Asking("unsubscribe") /\ ~Asking("unsubscribe")'
      /\ Busy("js") /\ Busy("js")' /\ (Busy("sa")' <=> Busy("sa"))
      /\ \A T : (May(T)' <=> May(T)) /\ ~Leaving(T) /\ ~Leaving(T)'
  BY <1>0, TypeFacts, Zenon DEF Asking, Busy, May, Leaving
<1>2. ipc["js"].obj = sub.obj /\ sub.obj \in Objects /\ sub.obj # 0 /\ sub.type \in Types
  BY <1>0, <1>1, ObjectFacts, TypeFacts, Zenon DEF SubInv, Listens, TypeOK, OpsKnown
<1>3. Listens'
  BY <1>0, <1>1, Zenon DEF SubInv, Listens
<1>4. Apart'
  BY <1>0, <1>1, Zenon DEF SubInv, Apart
<1>5. CASE "race" \in ghost.faults
  BY <1>0, <1>3, <1>4, <1>5 DEF Agree, Recovers, GivesBack
<1>6. CASE "race" \notin ghost.faults
  <2>1. SentFlags("js") = {sub.type}
    BY <1>1, <1>2, <1>6, Zenon DEF SentFlags, SubInv, Apart
  <2>2. \/ /\ Served("js") = "none" /\ May(sub.type)
           /\ cont'[sub.obj] = cont[sub.obj] \cup {sub.type} \cup {"HAP"}
           /\ \A p \in Objects \ {sub.obj} : cont'[p] = cont[p]
        \/ /\ cont' = cont
           /\ Told' => Told /\ (Here(ipc["js"].gen)' => Here(ipc["js"].gen))
    <3>1. CASE Served("js") = "none" /\ ServeSubscription("js", TRUE)
      <4>1. cont' = AddHap(cont, sub.obj, {sub.type})
        BY <1>0, <1>2, <2>1, <3>1, ServeSubscriptionCases, Zenon DEF SubscriptionCalls
      <4>2. Served("js") = SubscribeGate(proxy.app, {sub.type})
        BY <1>0, <2>1, Zenon DEF Served
      <4> QED
        BY <1>2, <3>1, <4>1, <4>2, EntryAdded, Zenon DEF May
    <3>2. \/ Served("js") = "none" /\ ServeSubscription("js", TRUE)
          \/ /\ cont' = cont
             /\ \/ ipc'["js"].ans # "none"
                \/ ipc'["js"].at \in {"watch", "send"}
                \/ ipc["js"].at = "reply" /\ ipc'["js"].gen = ipc["js"].gen /\ ipc'["js"].ans = ipc["js"].ans
      BY ThreadOutcome, ThreadFacts, Zenon
    <3> QED
      BY <1>0, <3>1, <3>2, Zenon DEF Told, Here
  <2>3. Restoring' <=> Restoring
    BY <1>0, Zenon DEF Restoring
  <2>4. AllRegistered => AllRegistered'
    BY <1>0, <2>2, Zenon DEF AllRegistered
  <2>5. Recovers'
    BY <1>0, <1>1, <1>2, <2>2, <2>3, <2>4, ZenonT(30) DEF SubInv, Recovers, Recovering
  <2>6. GivesBack'
    <3> SUFFICES ASSUME ghost'.faults \cap {"race", "failedOn"} = {}
                 PROVE  /\ \A o \in Objects : o # sub.obj => cont'[o] = {}
                        /\ \A T \in sub.all : (sub.obs[T] # {} /\ May(T)') \/ (Asking("subscribe")' /\ T = sub.type)
                        /\ Asking("subscribe")' /\ Told' => May(sub.type)'
                        /\ Held'
      BY <1>0, Zenon DEF GivesBack
    <3>1. /\ \A o \in Objects : o # sub.obj => cont[o] = {}
          /\ \A T \in sub.all : (sub.obs[T] # {} /\ May(T)) \/ (Asking("subscribe") /\ T = sub.type)
          /\ Asking("subscribe") /\ Told => May(sub.type)
          /\ Held
      BY <1>0, <1>2, Zenon DEF SubInv, GivesBack
    <3>2. sub.type \in sub.all
      BY Zenon DEF SubInv, Listens
    <3>3. Held'
      <4>1. cont'[sub.obj] \subseteq Types \cup {"HAP"}
        BY <1>2, <2>2, <3>1, Zenon DEF Held
      <4>2. ASSUME NEW T \in Types, T \in cont'[sub.obj]
            PROVE  May(T) /\ T \in sub.all
        BY <1>1, <2>2, <3>1, <3>2, <4>2, TypeFacts, ZenonT(30) DEF Held
      <4> QED
        BY <1>0, <1>1, <4>1, <4>2, Zenon DEF Held
    <3>4. \A o \in Objects : o # sub.obj => cont'[o] = {}
      BY <2>2, <3>1, Zenon
    <3>5. Told' => May(sub.type)
      BY <1>1, <2>2, <3>1, Zenon DEF Asking
    <3> QED
      BY <1>0, <1>1, <3>1, <3>3, <3>4, <3>5, Zenon
  <2> QED
    BY <1>3, <1>4, <2>5, <2>6, Zenon DEF Agree
<1> QED
  BY <1>5, <1>6, Zenon

\* A step of off(): what the service still has of the type it takes back, for it
\* let the type through before; without an answer it has lost everything.
LEMMA OffCallStep ==
  ASSUME TypeOK, NativeInv, SubInv, ThreadNext("js"), Asking("unsubscribe")
  PROVE  Agree'
<1>0. /\ svc' = svc /\ sub' = sub /\ proxy'.app = proxy.app /\ ghost'.faults = ghost.faults
      /\ ipc'["sa"] = ipc["sa"] /\ ipc'["js"].op = "unsubscribe" /\ ipc'["js"].obj = ipc["js"].obj
      /\ ipc["js"].op = "unsubscribe" /\ ipc["js"].at # "idle" /\ ipc'["js"].at # "idle"
  BY ThreadKeeps, ThreadFacts, Zenon DEF Asking
<1>1. /\ Asking("unsubscribe")' /\ ~Asking("subscribe") /\ ~Asking("subscribe")'
      /\ Busy("js") /\ Busy("js")' /\ (Busy("sa")' <=> Busy("sa"))
      /\ \A T : May(T)' <=> May(T)
  BY <1>0, TypeFacts, Zenon DEF Asking, Busy, May
<1>2. ipc["js"].obj = sub.obj /\ sub.obj \in Objects /\ sub.obj # 0
  BY <1>0, <1>1, ObjectFacts, TypeFacts, Zenon DEF SubInv, Listens, TypeOK, OpsKnown
<1>3. Listens'
  BY <1>0, <1>1, Zenon DEF SubInv, Listens
<1>4. Apart'
  BY <1>0, <1>1, Zenon DEF SubInv, Apart
<1>5. CASE "race" \in ghost.faults
  BY <1>0, <1>3, <1>4, <1>5 DEF Agree, Recovers, GivesBack
<1>6. CASE "race" \notin ghost.faults
  <2>0. PICK T \in Types : sub.current = {T} /\ sub.obs[T] = {} /\ T \notin sub.all
    BY <1>6, Zenon DEF SubInv, Apart
  <2>1. SentFlags("js") = {T}
    BY <1>2, <2>0, Zenon DEF SentFlags
  <2>2. Served("js") = "none" <=> May(T)
    BY <1>0, <2>1, Zenon DEF Served, UnsubscribeGate, May
  <2>3. \/ /\ \/ cont[sub.obj] \ {T} \subseteq {"HAP"} /\ cont'[sub.obj] = {}
              \/ ~(cont[sub.obj] \ {T} \subseteq {"HAP"}) /\ cont'[sub.obj] = cont[sub.obj] \ {T}
           /\ \A p \in Objects \ {sub.obj} : cont'[p] = cont[p]
           /\ ipc'["js"].at = "reply"
        \/ ~May(T) /\ cont' = cont /\ ipc'["js"].at = "reply" /\ ipc'["js"].ans # "none"
        \/ cont[sub.obj] = {} /\ cont' = cont /\ ipc'["js"].ans # "none"
        \/ cont' = cont /\ ipc["js"].at \in {"enter", "watch"} /\ ipc'["js"].at \in {"watch", "send"}
        \/ cont' = cont /\ ipc["js"].at = "reply" /\ ipc'["js"].at = "done" /\ (Told' => Told)
    <3>1. CASE Served("js") = "none" /\ ServeSubscription("js", TRUE) /\ ipc'["js"].at = "reply"
      <4>1. cont' = RemoveHap(cont, sub.obj, {T})
        BY <1>0, <1>2, <2>1, <3>1, ServeSubscriptionCases, Zenon DEF SubscriptionCalls
      <4> QED
        BY <1>2, <3>1, <4>1, EntryRemoved, Zenon
    <3>2. ~Here(proxy.gen) /\ ipc["js"].at = "send" => cont[sub.obj] = {}
      BY <1>2, ThreadFacts, Zenon DEF SubInv, Reached, Locked, Here
    <3>3. ~svc.published => cont[sub.obj] = {}
      BY <1>2, Zenon DEF SubInv, Reached
    <3>4. \/ Served("js") = "none" /\ ServeSubscription("js", TRUE) /\ ipc'["js"].at = "reply"
          \/ /\ cont' = cont
             /\ \/ Served("js") # "none" /\ ipc'["js"].at = "reply" /\ ipc'["js"].ans # "none"
                \/ ~Here(proxy.gen) /\ ipc["js"].at = "send" /\ ipc'["js"].ans # "none"
                \/ proxy.gen = 0 /\ ~svc.published /\ ipc'["js"].ans # "none"
                \/ ipc["js"].at \in {"enter", "watch"} /\ ipc'["js"].at \in {"watch", "send"}
                \/ /\ ipc["js"].at = "reply" /\ ipc'["js"].at = "done"
                   /\ ipc'["js"].ans = ipc["js"].ans \/ ipc'["js"].ans # "none"
      BY ThreadOutcome, ThreadFacts, Zenon
    <3> QED
      BY <2>2, <3>1, <3>2, <3>3, <3>4, Zenon DEF Told
  <2>4. Restoring' <=> Restoring
    BY <1>0, Zenon DEF Restoring
  <2>5. AllRegistered => AllRegistered'
    <3> SUFFICES ASSUME AllRegistered, NEW U \in Types, sub.obs[U] # {}
                 PROVE  U \in cont'[sub.obj]
      BY <1>0, Zenon DEF AllRegistered
    <3>1. U # T /\ U # "HAP" /\ U \in cont[sub.obj]
      BY <2>0, TypeFacts, Zenon DEF AllRegistered
    <3> QED
      BY <2>3, <3>1
  <2>6. Recovers'
    BY <1>0, <1>1, <1>2, <2>4, <2>5, Zenon DEF SubInv, Recovers, Recovering
  <2>7. GivesBack'
    <3> SUFFICES ASSUME ghost'.faults \cap {"race", "failedOn"} = {}
                 PROVE  /\ \A o \in Objects : o # sub.obj => cont'[o] = {}
                        /\ \A U \in sub.all : (sub.obs[U] # {} /\ May(U)') \/ (Asking("subscribe")' /\ U = sub.type)
                        /\ Asking("subscribe")' /\ Told' => May(sub.type)'
                        /\ Held'
      BY <1>0, Zenon DEF GivesBack
    <3>1. /\ \A o \in Objects : o # sub.obj => cont[o] = {}
          /\ \A U \in sub.all : (sub.obs[U] # {} /\ May(U)) \/ (Asking("subscribe") /\ U = sub.type)
          /\ Held
      BY <1>0, <1>2, Zenon DEF SubInv, GivesBack
    <3>2. cont'[sub.obj] \subseteq cont[sub.obj]
      BY <2>3, Zenon
    <3>3. cont'[sub.obj] \subseteq Types \cup {"HAP"}
      BY <3>1, <3>2, Zenon DEF Held
    <3>4. ASSUME NEW U \in Types, U \in cont'[sub.obj]
          PROVE  May(U) /\ (U \in sub.all \/ Leaving(U)')
      <4>1. May(U) /\ (U \in sub.all \/ Leaving(U))
        BY <3>1, <3>2, <3>4, Zenon DEF Held
      <4>2. CASE U \in sub.all
        BY <4>1, <4>2, Zenon
      <4>3. CASE U \notin sub.all
        <5>1. U = T /\ ipc["js"].at \in {"enter", "watch", "send"}
          BY <2>0, <4>1, <4>3, Zenon DEF Leaving
        <5>2. ipc'["js"].at \in {"watch", "send"}
          BY <2>3, <3>4, <4>1, <5>1, Zenon
        <5> QED
          BY <1>0, <1>1, <2>0, <4>1, <5>1, <5>2, ZenonT(30) DEF Leaving
      <4> QED
        BY <4>2, <4>3, Zenon
    <3>5. ASSUME Told', cont'[sub.obj] \subseteq {"HAP"}
          PROVE  cont'[sub.obj] = {}
      <4>1. cont' = cont /\ Told => cont[sub.obj] = {}
        BY <1>0, <3>1, <3>5, Zenon DEF Held, Asking
      <4> QED
        BY <2>3, <3>5, <4>1, Zenon DEF Told
    <3>6. Held'
      BY <1>0, <1>1, <3>3, <3>4, <3>5, ZenonT(30) DEF Held
    <3>7. \A o \in Objects : o # sub.obj => cont'[o] = {}
      BY <2>3, <3>1, Zenon
    <3> QED
      BY <1>1, <3>1, <3>6, <3>7, Zenon
  <2> QED
    BY <1>3, <1>4, <2>6, <2>7, Zenon DEF Agree
<1> QED
  BY <1>5, <1>6, Zenon

\* A step of the listener's call, which subscribes everything again.
LEMMA RestoreCallStep ==
  ASSUME TypeOK, NativeInv, SubInv, ThreadNext("sa")
  PROVE  Agree'
<1>0. /\ svc' = svc /\ sub' = sub /\ proxy'.app = proxy.app /\ ghost'.faults = ghost.faults
      /\ ipc'["js"] = ipc["js"] /\ ipc'["sa"].op = ipc["sa"].op /\ ipc'["sa"].obj = ipc["sa"].obj
      /\ ipc["sa"].at # "idle" /\ ipc'["sa"].at # "idle"
  BY ThreadKeeps, ThreadFacts, Zenon
<1>1. /\ ipc["sa"].op = "subscribe" /\ Busy("sa") /\ Busy("sa")' /\ (Busy("js")' <=> Busy("js"))
      /\ \A op : Asking(op)' <=> Asking(op)
  BY <1>0, TypeFacts, Zenon DEF SubInv, Listens, Busy, Asking
<1>2. Listens'
  BY <1>0, <1>1, Zenon DEF SubInv, Listens
<1>3. Apart'
  BY <1>0, <1>1, Zenon DEF SubInv, Apart
<1>4. CASE "race" \in ghost.faults
  BY <1>0, <1>2, <1>3, <1>4 DEF Agree, Recovers, GivesBack
<1>5. CASE "race" \notin ghost.faults
  <2>1. /\ ipc["sa"].obj = sub.obj /\ sub.obj \in Objects /\ sub.obj # 0 /\ SentFlags("sa") = sub.all
        /\ sub.all \subseteq Types
    <3>1. ipc["sa"].obj = sub.obj /\ SentFlags("sa") = sub.all
      BY <1>1, <1>5, Zenon DEF SubInv, Apart, SentFlags
    <3>2. ipc["sa"].obj \in Objects /\ sub.all \subseteq Types
      BY <1>1, Zenon DEF TypeOK, OpsKnown, SubType, SubRecord, FlagSets
    <3> QED
      BY <3>1, <3>2, ObjectFacts, Zenon
  <2>2. ~Asking("subscribe") /\ ~Asking("unsubscribe") /\ \A T : ~Leaving(T) /\ (May(T)' <=> May(T))
    BY <1>0, <1>1, <1>5, TypeFacts, Zenon DEF SubInv, Apart, Busy, Asking, Leaving, May
  <2>3. \/ /\ cont'[sub.obj] = cont[sub.obj] \cup sub.all \cup {"HAP"}
           /\ \A p \in Objects \ {sub.obj} : cont'[p] = cont[p]
        \/ cont' = cont /\ (Restoring => Restoring')
    <3>1. CASE Served("sa") = "none" /\ ServeSubscription("sa", TRUE)
      <4>1. cont' = AddHap(cont, sub.obj, sub.all)
        BY <1>1, <2>1, <3>1, ServeSubscriptionCases, Zenon DEF SubscriptionCalls
      <4> QED
        BY <2>1, <4>1, EntryAdded, Zenon
    <3>2. \/ Served("sa") = "none" /\ ServeSubscription("sa", TRUE)
          \/ /\ cont' = cont
             /\ \/ ipc'["sa"].at \in {"reply", "done"} /\ ipc'["sa"].ans # "none"
                \/ ipc'["sa"].at \in {"watch", "send"}
                \/ ipc["sa"].at = "reply" /\ ipc'["sa"].at = "done" /\ ipc'["sa"].ans = ipc["sa"].ans
      BY ThreadOutcome, ThreadFacts, Zenon
    <3>3. CASE /\ cont' = cont
               /\ \/ ipc'["sa"].at \in {"reply", "done"} /\ ipc'["sa"].ans # "none"
                  \/ ipc'["sa"].at \in {"watch", "send"}
                  \/ ipc["sa"].at = "reply" /\ ipc'["sa"].at = "done" /\ ipc'["sa"].ans = ipc["sa"].ans
      BY <3>3, Zenon DEF Restoring
    <3> QED
      BY <3>1, <3>2, <3>3, Zenon
  <2>4. AllRegistered' \/ (~AllRegistered /\ (Restoring => Restoring'))
    BY <1>0, <2>3, Zenon DEF AllRegistered, SubInv, Listens
  <2>5. Recovers'
    <3>1. ASSUME Recovering
          PROVE  Recovering'
      <4>1. AllRegistered \/ (svc.published /\ Restoring) \/ ((svc.published => sub.notices # <<>>) /\ HasRemove(sub.notices))
        BY <1>0, <3>1, Zenon DEF Recovering
      <4> QED
        BY <1>0, <2>4, <4>1, Zenon DEF Recovering
    <3> QED
      BY <1>0, <1>1, <2>2, <3>1, Zenon DEF SubInv, Recovers
  <2>6. GivesBack'
    <3> SUFFICES ASSUME ghost'.faults \cap {"race", "failedOn"} = {}
                 PROVE  /\ \A o \in Objects : o # sub.obj => cont'[o] = {}
                        /\ \A T \in sub.all : (sub.obs[T] # {} /\ May(T)') \/ (Asking("subscribe")' /\ T = sub.type)
                        /\ Asking("subscribe")' /\ Told' => May(sub.type)'
                        /\ Held'
      BY <1>0, Zenon DEF GivesBack
    <3>1. /\ \A o \in Objects : o # sub.obj => cont[o] = {}
          /\ \A T \in sub.all : sub.obs[T] # {} /\ May(T)
          /\ Held
      BY <1>0, <2>1, <2>2, Zenon DEF SubInv, GivesBack
    <3>2. cont'[sub.obj] \subseteq Types \cup {"HAP"}
      BY <2>1, <2>3, <3>1, Zenon DEF Held
    <3>3. ASSUME NEW T \in Types, T \in cont'[sub.obj]
          PROVE  May(T) /\ T \in sub.all
      BY <2>2, <2>3, <3>1, <3>3, TypeFacts, ZenonT(30) DEF Held
    <3>4. Held'
      BY <1>0, <1>1, <2>2, <3>2, <3>3, Zenon DEF Held
    <3>5. \A o \in Objects : o # sub.obj => cont'[o] = {}
      BY <2>3, <3>1, Zenon
    <3> QED
      BY <1>1, <2>2, <3>1, <3>4, <3>5, Zenon
  <2> QED
    BY <1>2, <1>3, <2>5, <2>6, Zenon DEF Agree
<1> QED
  BY <1>4, <1>5, Zenon

\* Every step of a call, of whichever thread.
LEMMA ThreadStep ==
  ASSUME TypeOK, NativeInv, SubInv, NEW t \in Threads, ThreadNext(t)
  PROVE  SubInv'
<1>1. CASE ~Busy(t)
  BY <1>1, OtherThread, ThreadReaches, Zenon DEF SubInv, Agree
<1>2. CASE Busy(t)
  <2>1. t \in {"js", "sa"}
    BY <1>2, OpOwners, Zenon DEF Busy
  <2>2. CASE t = "js"
    <3>1. Asking("subscribe") \/ Asking("unsubscribe")
      BY <1>2, <2>2, TypeFacts, Zenon DEF Busy, Asking
    <3> QED
      BY <2>2, <3>1, OnCallStep, OffCallStep, ThreadReaches, Zenon DEF SubInv, Agree
  <2>3. CASE t = "sa"
    BY <2>3, RestoreCallStep, ThreadReaches, Zenon DEF SubInv, Agree
  <2> QED
    BY <2>1, <2>2, <2>3, Zenon
<1> QED
  BY <1>1, <1>2, Zenon

-----------------------------------------------------------------------------
(* on(), off() and the listener.                                           *)

\* A step of the bindings leaves proxies, processes and mutex_ as they are.
LEMMA SubReaches ==
  ASSUME TypeOK, SubInv, svc' = svc, proxy' = proxy, cont' = cont,
         \A t \in Threads : ipc'[t] = ipc[t] \/ ipc'[t].at \in {"idle", "enter"}
                            \/ (t = "sa" /\ ipc'[t].at = ipc[t].at)
  PROVE  Reached' /\ Locked'
<1>1. Told' /\ Busy("js")' => Told /\ Busy("js") /\ ipc'["js"] = ipc["js"]
  BY ThreadFacts, Zenon DEF Told, Busy
<1>2. Reached'
  BY <1>1, Zenon DEF SubInv, Reached, Here
<1>3. Locked'
  BY Zenon DEF SubInv, Locked
<1> QED
  BY <1>2, <1>3, Zenon

\* on() notes the flag and asks the service.
LEMMA OnBegins ==
  ASSUME TypeOK, SubInv, NEW T \in Types, NEW f \in Callbacks, SubscribeBackgroundTask(T, f)
  PROVE  SubInv'
<1>0. Asks(T, f) /\ svc' = svc /\ proxy' = proxy /\ cont' = cont /\ ipc["js"].at = "idle"
  BY SubscribeFields, Zenon DEF SubscribeBackgroundTask, serviceVars, JsIdle
<1>1. ghost'.faults = ghost.faults \cup Overlap("sa")
  BY Zenon DEF SubscribeBackgroundTask, TypeOK, GhostType
<1>2. /\ ipc'["sa"] = ipc["sa"] /\ ipc'["js"].at = "enter" /\ ipc'["js"].op = "subscribe"
      /\ ipc'["js"].obj = sub'.obj /\ sub'.obj \in Objects /\ sub'.obj # 0
      /\ sub'.obs = sub.obs /\ sub'.current = {T} /\ (sub'.listening <=> sub.listening)
      /\ sub'.notices = sub.notices /\ sub'.type = T /\ T \in sub'.all /\ sub'.all \subseteq sub.all \cup {T}
  BY <1>0, ThreadFacts, ObjectFacts, Zenon DEF Asks
<1>3. \/ sub.obj # 0 /\ sub'.obj = sub.obj /\ sub'.all = sub.all \cup {T} /\ (sub'.need <=> sub.need)
      \/ sub.obj = 0
  BY <1>0, Zenon DEF Asks
<1>4. Reached' /\ Locked'
  <2>1. \A t \in Threads : ipc'[t] = ipc[t] \/ ipc'[t].at \in {"idle", "enter"}
    BY <1>0, Zenon DEF Asks
  <2> QED
    BY <1>0, <2>1, SubReaches, Zenon
<1>5. /\ Asking("subscribe")' /\ ~Asking("unsubscribe")' /\ ~Told' /\ (Busy("sa")' <=> Busy("sa"))
      /\ ~Asking("subscribe") /\ ~Asking("unsubscribe") /\ \A U : ~Leaving(U) /\ (May(U)' <=> May(U))
  BY <1>0, <1>2, Zenon DEF Asking, Told, Busy, Leaving, May
<1>6. sub.obj = 0 => \A U \in Types : sub.obs[U] = {}
  BY Zenon DEF SubInv, Listens
<1>7. Listens'
  BY <1>0, <1>2, <1>3, <1>6, Zenon DEF SubInv, Listens
<1>8. "race" \notin ghost'.faults => ~Busy("sa") /\ "race" \notin ghost.faults
  BY <1>1, Zenon DEF Overlap, Busy, SubscriptionCalls
<1>9. Apart'
  BY <1>2, <1>5, <1>8, Zenon DEF Apart
<1>10. Recovers'
  <2>1. Restoring' <=> Restoring
    BY <1>2, Zenon DEF Restoring
  <2>2. sub.obj # 0 => (AllRegistered' <=> AllRegistered)
    BY <1>0, <1>2, <1>3, Zenon DEF AllRegistered
  <2>3. sub.obj = 0 => AllRegistered'
    BY <1>2, <1>6, Zenon DEF AllRegistered
  <2>4. sub.obj # 0 /\ Recovering => Recovering'
    BY <1>0, <1>2, <1>3, <2>1, <2>2, Zenon DEF Recovering
  <2> QED
    BY <1>1, <1>5, <2>3, <2>4, Zenon DEF SubInv, Recovers, Recovering
<1>11. GivesBack'
  <2> SUFFICES ASSUME ghost'.faults \cap {"race", "failedOn"} = {}
               PROVE  /\ \A o \in Objects : o # sub'.obj => cont[o] = {}
                      /\ \A U \in sub'.all : (sub.obs[U] # {} /\ May(U)) \/ U = T
                      /\ Held'
    BY <1>0, <1>2, <1>5, Zenon DEF GivesBack
  <2>1. /\ \A o \in Objects : o # sub.obj => cont[o] = {}
        /\ \A U \in sub.all : sub.obs[U] # {} /\ May(U)
        /\ sub.obj # 0 => Held
    BY <1>1, <1>5, Zenon DEF SubInv, GivesBack
  <2>2. \A o \in Objects : o # sub'.obj => cont[o] = {}
    BY <1>3, <2>1, ObjectFacts, Zenon
  <2>3. CASE sub.obj = 0
    <3>1. cont[sub'.obj] = {}
      BY <1>2, <2>1, <2>3, Zenon
    <3> QED
      BY <1>0, <1>2, <2>1, <2>2, <3>1, Zenon DEF Held
  <2>4. CASE sub.obj # 0
    <3>1. Held'
      BY <1>0, <1>3, <1>5, <2>1, <2>4, Zenon DEF Held
    <3> QED
      BY <1>2, <2>1, <2>2, <3>1, Zenon
  <2> QED
    BY <2>3, <2>4, Zenon
<1> QED
  BY <1>4, <1>7, <1>9, <1>10, <1>11, Zenon DEF SubInv

\* on() ends: the function is entered, or the answer was an error.
LEMMA OnEnds ==
  ASSUME TypeOK, SubInv, AddJsObserverObject
  PROVE  SubInv'
<1>0. Keeps /\ svc' = svc /\ proxy' = proxy /\ cont' = cont
  BY KeepsFields, Zenon DEF AddJsObserverObject, serviceVars
<1>1. IpcType /\ ipc["js"].at = "done" /\ ipc["js"].op = "subscribe"
      /\ ipc' = [ipc EXCEPT !["js"] = Idle]
  BY <1>0, Zenon DEF Keeps, TypeOK
<1>2. ipc'["js"] = Idle /\ \A u \in Threads \ {"js"} : ipc'[u] = ipc[u]
  BY <1>1, IdleStep, ThreadFacts, Zenon
<1>3. /\ ipc'["sa"] = ipc["sa"] /\ ipc'["js"].at = "idle"
      /\ \A t \in Threads : ipc'[t] = ipc[t] \/ ipc'[t].at \in {"idle", "enter"}
  BY <1>2, ThreadFacts, IdleFacts, Zenon
<1>4. /\ sub'.obj = sub.obj /\ sub'.all = sub.all /\ sub'.current = sub.current /\ (sub'.need <=> sub.need)
      /\ \/ /\ ipc["js"].ans # "none" /\ sub'.obs = sub.obs /\ (sub'.listening <=> sub.listening)
            /\ sub'.notices = sub.notices /\ ghost'.faults = ghost.faults \cup {"failedOn"}
         \/ /\ ipc["js"].ans = "none" /\ sub'.obs = [sub.obs EXCEPT ![sub.type] = @ \cup {sub.cb}]
            /\ sub'.listening
            /\ sub.listening => sub'.notices = sub.notices
            /\ ~sub.listening => sub'.notices = IF svc.published THEN <<"add">> ELSE <<>>
            /\ \/ Here(ipc["js"].gen) /\ ghost'.faults = ghost.faults
               \/ ~Here(ipc["js"].gen) /\ ghost'.faults = ghost.faults \cup {"diedDuringOn"}
  BY <1>0, Zenon DEF Keeps
<1>5. /\ sub.type \in Types /\ sub.cb \in Callbacks /\ sub.obs \in [Types -> SUBSET Callbacks]
      /\ sub.type \in sub.all /\ sub.obj = ipc["js"].obj /\ sub.obj \in Objects /\ sub.obj # 0
  <2>1. Asking("subscribe") /\ Busy("js")
    BY <1>1, TypeFacts, Zenon DEF Asking, Busy
  <2>2. sub.type \in Types /\ sub.cb \in Callbacks /\ ipc["js"].obj \in Objects
    BY <1>1, TypeFacts, Zenon DEF TypeOK, OpsKnown
  <2>3. sub.type \in sub.all /\ sub.obj = ipc["js"].obj
    BY <2>1, Zenon DEF SubInv, Listens
  <2>4. sub.obs \in [Types -> SUBSET Callbacks]
    BY Zenon DEF TypeOK, SubType, SubRecord, Observers
  <2> QED
    BY <2>2, <2>3, <2>4, ObjectFacts, Zenon
<1>6. /\ Asking("subscribe") /\ Busy("js") /\ (ipc["js"].ans = "none" => Told)
      /\ ~Busy("js")' /\ (Busy("sa")' <=> Busy("sa"))
      /\ \A op : ~Asking(op)'
      /\ \A U : ~Leaving(U) /\ ~Leaving(U)' /\ (May(U)' <=> May(U))
  BY <1>0, <1>1, <1>3, TypeFacts, Zenon DEF Asking, Busy, Told, Leaving, May
<1>7. Reached' /\ Locked'
  BY <1>0, <1>3, SubReaches, Zenon
<1>8. Apart'
  <2>1. "race" \notin ghost'.faults => "race" \notin ghost.faults
    BY <1>4, Zenon
  <2> QED
    BY <1>3, <1>4, <1>6, <2>1, Zenon DEF SubInv, Apart
<1>9. Restoring' <=> Restoring
  BY <1>3, Zenon DEF Restoring
<1>10. CASE ipc["js"].ans # "none"
  <2>1. Listens'
    BY <1>0, <1>3, <1>4, <1>6, <1>10, ZenonT(30) DEF SubInv, Listens
  <2>2. AllRegistered' <=> AllRegistered
    BY <1>0, <1>4, <1>10, Zenon DEF AllRegistered
  <2>3. Recovering => Recovering'
    BY <1>0, <1>3, <1>4, <1>9, <1>10, <2>2, ZenonT(30) DEF Recovering
  <2>4. Recovers'
    BY <1>4, <1>6, <1>10, <2>3, Zenon DEF SubInv, Recovers
  <2>5. GivesBack'
    BY <1>4, <1>10, ZenonT(30) DEF GivesBack
  <2> QED
    BY <1>7, <1>8, <2>1, <2>4, <2>5, ZenonT(30) DEF SubInv
<1>11. CASE ipc["js"].ans = "none"
  <2>1. /\ sub'.obs[sub.type] # {} /\ \A U \in Types : U # sub.type => sub'.obs[U] = sub.obs[U]
    BY <1>4, <1>5, <1>11, Zenon
  <2>2. /\ sub'.listening
        /\ sub.listening => sub'.notices = sub.notices
        /\ ~sub.listening => sub'.notices = IF svc.published THEN <<"add">> ELSE <<>>
    BY <1>4, <1>11, Zenon
  <2>3. Newest(<<"add">>) = "add"
    BY Zenon DEF Newest
  <2>4. Listens'
    <3>1. \A U \in Types : sub'.obs[U] # {} => U \in sub'.all
      BY <1>4, <1>5, <2>1, Zenon DEF SubInv, Listens
    <3>2. sub'.notices # <<>> => (Newest(sub'.notices) = "add" <=> svc'.published)
      BY <1>0, <2>2, <2>3, Zenon DEF SubInv, Listens
    <3>3. ipc'["sa"].at # "idle" => ipc'["sa"].op = "subscribe"
      BY <1>3, Zenon DEF SubInv, Listens
    <3> QED
      BY <1>4, <1>5, <1>6, <2>2, <3>1, <3>2, <3>3, ZenonT(30) DEF Listens
  <2>5. Recovers'
    <3> SUFFICES ASSUME ghost'.faults \subseteq {"failedOn"}
                 PROVE  Recovering'
      BY <1>6, Zenon DEF Recovers
    <3>1. Here(ipc["js"].gen) /\ ghost'.faults = ghost.faults
      BY <1>4, <1>11, Zenon
    <3>2. sub.type \in cont[sub.obj] /\ Recovering /\ svc.published
      BY <1>5, <1>6, <1>11, <3>1, Zenon DEF SubInv, Recovers, Reached
    <3>3. AllRegistered => AllRegistered'
      BY <1>0, <1>4, <2>1, <3>2, Zenon DEF AllRegistered
    <3>4. ~sub.listening => AllRegistered
      BY Zenon DEF SubInv, Listens, AllRegistered
    <3> QED
      BY <1>0, <1>3, <1>4, <1>9, <2>2, <3>2, <3>3, <3>4, ZenonT(30) DEF Recovering
  <2>6. GivesBack'
    <3> SUFFICES ASSUME ghost'.faults \cap {"race", "failedOn"} = {}
                 PROVE  /\ \A o \in Objects : o # sub.obj => cont[o] = {}
                        /\ \A U \in sub.all : sub'.obs[U] # {} /\ May(U)
                        /\ Held'
      BY <1>0, <1>4, <1>6, Zenon DEF GivesBack
    <3>1. /\ \A o \in Objects : o # sub.obj => cont[o] = {}
          /\ \A U \in sub.all : (sub.obs[U] # {} /\ May(U)) \/ U = sub.type
          /\ May(sub.type) /\ Held
      BY <1>4, <1>5, <1>6, <1>11, Zenon DEF SubInv, GivesBack
    <3>2. Held'
      BY <1>0, <1>4, <1>6, <3>1, Zenon DEF Held
    <3>3. sub.all \subseteq Types
      BY Zenon DEF TypeOK, SubType, SubRecord, FlagSets
    <3> QED
      BY <2>1, <3>1, <3>2, <3>3, Zenon
  <2> QED
    BY <1>7, <1>8, <2>4, <2>5, <2>6, Zenon DEF SubInv
<1> QED
  BY <1>10, <1>11, Zenon

\* off() takes a function out, and gives back the flag of the last one.
LEMMA OffBegins ==
  ASSUME TypeOK, SubInv, NEW T \in Types, NEW fs, RemoveJsObserverObject(T, fs)
  PROVE  SubInv'
<1>0. Drops(T, fs) /\ svc' = svc /\ proxy' = proxy /\ cont' = cont
  BY DropsFields, Zenon DEF RemoveJsObserverObject, serviceVars
<1>1. /\ ipc["js"].at = "idle" /\ sub.obj # 0 /\ sub'.obj = sub.obj /\ (sub'.need <=> sub.need)
      /\ (sub'.listening <=> sub.listening) /\ sub'.notices = sub.notices /\ sub'.type = sub.type
      /\ sub'.obs = [sub.obs EXCEPT ![T] = @ \ fs]
  BY <1>0, Zenon DEF Drops
<1>2. sub'.obs[T] = sub.obs[T] \ fs /\ \A U \in Types : U # T => sub'.obs[U] = sub.obs[U]
  BY <1>1, Zenon DEF TypeOK, SubType, SubRecord, Observers
<1>3. \A U \in Types : sub'.obs[U] # {} => sub.obs[U] # {}
  BY <1>2, Zenon
<1>4. AllRegistered => AllRegistered'
  BY <1>0, <1>1, <1>3, Zenon DEF AllRegistered
<1>5. /\ ~Asking("subscribe") /\ ~Asking("unsubscribe") /\ ~Busy("js") /\ ~Told
      /\ \A U : ~Leaving(U) /\ (May(U)' <=> May(U))
  BY <1>0, <1>1, Zenon DEF Asking, Busy, Told, Leaving, May
<1>6. CASE /\ sub'.obs[T] # {} /\ sub'.all = sub.all /\ sub'.current = sub.current
           /\ UNCHANGED <<ipc, ghost>>
  <2>1. /\ \A op : Asking(op)' <=> Asking(op)
        /\ (Busy("js")' <=> Busy("js")) /\ (Busy("sa")' <=> Busy("sa")) /\ (Restoring' <=> Restoring) /\ ~Told'
        /\ \A U : ~Leaving(U)'
    BY <1>1, <1>6, Zenon DEF Asking, Busy, Restoring, Told, Leaving
  <2>2. Reached' /\ Locked'
    BY <1>0, <1>6, SubReaches, Zenon
  <2>3. Listens'
    BY <1>0, <1>1, <1>3, <1>5, <1>6, <2>1, Zenon DEF SubInv, Listens
  <2>4. Apart'
    BY <1>1, <1>5, <1>6, <2>1, Zenon DEF SubInv, Apart
  <2>5. Recovers'
    BY <1>0, <1>1, <1>4, <1>5, <1>6, <2>1, Zenon DEF SubInv, Recovers, Recovering
  <2>6. GivesBack'
    <3> SUFFICES ASSUME ghost.faults \cap {"race", "failedOn"} = {}
                 PROVE  /\ \A o \in Objects : o # sub.obj => cont[o] = {}
                        /\ \A U \in sub.all : sub'.obs[U] # {} /\ May(U)
                        /\ Held'
      BY <1>0, <1>1, <1>5, <1>6, <2>1, Zenon DEF GivesBack
    <3>1. /\ \A o \in Objects : o # sub.obj => cont[o] = {}
          /\ \A U \in sub.all : sub.obs[U] # {} /\ May(U)
          /\ Held
      BY <1>1, <1>5, Zenon DEF SubInv, GivesBack
    <3>2. Held'
      BY <1>0, <1>1, <1>5, <1>6, <2>1, <3>1, Zenon DEF Held
    <3>3. sub.all \subseteq Types
      BY ZenonT(30) DEF TypeOK, SubType, SubRecord, FlagSets
    <3> QED
      BY <1>2, <1>6, <3>1, <3>2, <3>3, Zenon
  <2> QED
    BY <2>2, <2>3, <2>4, <2>5, <2>6, Zenon DEF SubInv
<1>7. CASE /\ sub'.obs[T] = {} /\ sub'.all = sub.all \ {T} /\ sub'.current = {T}
           /\ \A u \in Threads \ {"js"} : ipc'[u] = ipc[u]
           /\ ipc'["js"].at = "enter" /\ ipc'["js"].op = "unsubscribe" /\ ipc'["js"].obj = sub.obj
           /\ ghost' = [ghost EXCEPT !.faults = ghost.faults \cup Overlap("sa")]
  <2>1. /\ ipc'["sa"] = ipc["sa"] /\ ghost'.faults = ghost.faults \cup Overlap("sa")
        /\ \A t \in Threads : ipc'[t] = ipc[t] \/ ipc'[t].at \in {"idle", "enter"}
    BY <1>7, ThreadFacts, Zenon DEF TypeOK, GhostType
  <2>2. /\ Asking("unsubscribe")' /\ ~Asking("subscribe")' /\ ~Told' /\ Leaving(T)'
        /\ (Busy("sa")' <=> Busy("sa")) /\ (Restoring' <=> Restoring)
    BY <1>7, <2>1, Zenon DEF Asking, Told, Busy, Leaving, Restoring
  <2>3. Reached' /\ Locked'
    BY <1>0, <2>1, SubReaches, Zenon
  <2>4. Listens'
    BY <1>0, <1>1, <1>3, <1>7, <2>1, <2>2, ZenonT(30) DEF SubInv, Listens
  <2>5. "race" \notin ghost'.faults => ~Busy("sa")
    BY <2>1, Zenon DEF Overlap, Busy, SubscriptionCalls
  <2>6. Apart'
    BY <1>7, <2>2, <2>5, Zenon DEF Apart
  <2>7. Recovering => Recovering'
    BY <1>0, <1>1, <1>4, <2>1, <2>2, Zenon DEF Recovering
  <2>8. Recovers'
    BY <1>1, <2>1, <2>2, <2>7, Zenon DEF SubInv, Recovers
  <2>9. GivesBack'
    <3> SUFFICES ASSUME ghost'.faults \cap {"race", "failedOn"} = {}
                 PROVE  /\ \A o \in Objects : o # sub.obj => cont[o] = {}
                        /\ \A U \in sub.all \ {T} : sub'.obs[U] # {} /\ May(U)
                        /\ Held'
      BY <1>0, <1>1, <1>5, <1>7, <2>2, Zenon DEF GivesBack
    <3>1. /\ \A o \in Objects : o # sub.obj => cont[o] = {}
          /\ \A U \in sub.all : sub.obs[U] # {} /\ May(U)
          /\ Held
      BY <1>1, <1>5, <2>1, Zenon DEF SubInv, GivesBack
    <3>2. Held'
      <4>1. \A U \in Types : U \in cont[sub.obj] => May(U) /\ U \in sub.all
        BY <1>5, <3>1, Zenon DEF Held
      <4> QED
        BY <1>0, <1>1, <1>5, <1>7, <2>2, <3>1, <4>1, ZenonT(30) DEF Held
    <3>3. sub.all \subseteq Types
      BY Zenon DEF TypeOK, SubType, SubRecord, FlagSets
    <3> QED
      BY <1>2, <3>1, <3>2, <3>3, Zenon
  <2> QED
    BY <2>3, <2>4, <2>6, <2>8, <2>9, Zenon DEF SubInv
<1> QED
  BY <1>0, <1>6, <1>7, Zenon DEF Drops

\* off() ends: a subscriber without functions is dropped.
LEMMA OffEnds ==
  ASSUME TypeOK, SubInv, UnSubscribeBackgroundTask
  PROVE  SubInv'
<1>0. /\ svc' = svc /\ proxy' = proxy /\ cont' = cont /\ ghost' = ghost
      /\ ipc["js"].at = "done" /\ ipc["js"].op = "unsubscribe"
      /\ \/ /\ ipc["js"].ans = "none" /\ IsEmpty
            /\ sub' = [sub EXCEPT !.obj = 0, !.listening = FALSE, !.notices = <<>>]
         \/ sub' = sub
  BY Zenon DEF UnSubscribeBackgroundTask, serviceVars
<1>1. /\ ipc'["js"] = Idle /\ \A w \in Workers : ipc'[w] = ipc[w]
      /\ ipc'["sa"].at = ipc["sa"].at /\ ipc'["sa"].op = ipc["sa"].op /\ ipc'["sa"].obj = ipc["sa"].obj
      /\ ipc'["sa"].ans = ipc["sa"].ans
  <2>0. IpcType /\ ipc["sa"] \in Ipc
    BY ThreadFacts, Zenon DEF TypeOK, IpcType
  <2>1. CASE ipc' = [ipc EXCEPT !["js"] = Idle]
    BY <2>0, <2>1, ThreadFacts, Zenon DEF IpcType
  <2>2. CASE ipc' = [ipc EXCEPT !["js"] = Idle,
                                !["sa"].flags = IF ipc["sa"].obj = sub.obj THEN sub.current ELSE @]
    <3> DEFINE fl == IF ipc["sa"].obj = sub.obj THEN sub.current ELSE ipc["sa"].flags
               r == [ipc["sa"] EXCEPT !.flags = fl]
    <3>1. r.at = ipc["sa"].at /\ r.op = ipc["sa"].op /\ r.obj = ipc["sa"].obj /\ r.ans = ipc["sa"].ans
      BY <2>0, Zenon DEF Ipc
    <3>2. ipc' = [[ipc EXCEPT !["js"] = Idle] EXCEPT !["sa"] = r]
      BY <2>0, <2>2, ThreadFacts, Zenon DEF IpcType
    <3> HIDE DEF r
    <3> QED
      BY <2>0, <3>1, <3>2, ThreadFacts, Zenon DEF IpcType
  <2> QED
    BY <2>1, <2>2, Zenon DEF UnSubscribeBackgroundTask
<1>2. /\ ~Busy("js")' /\ (Busy("sa")' <=> Busy("sa")) /\ (Restoring' <=> Restoring)
      /\ \A op : ~Asking(op)'
      /\ Asking("unsubscribe") /\ ~Asking("subscribe") /\ Busy("js") /\ \A U : ~Leaving(U) /\ (May(U)' <=> May(U))
  BY <1>0, <1>1, IdleFacts, TypeFacts, Zenon DEF Busy, Asking, Leaving, Restoring, May
<1>3. Reached' /\ Locked'
  <2>1. \A t \in Threads : ipc'[t] = ipc[t] \/ ipc'[t].at \in {"idle", "enter"} \/ (t = "sa" /\ ipc'[t].at = ipc[t].at)
    BY <1>1, IdleFacts, Zenon DEF Threads
  <2> QED
    BY <1>0, <2>1, SubReaches, Zenon
<1>4. CASE sub' = sub
  <2>1. Listens'
    BY <1>0, <1>1, <1>2, <1>4, Zenon DEF SubInv, Listens
  <2>2. Apart'
    BY <1>0, <1>1, <1>2, <1>4, Zenon DEF SubInv, Apart
  <2>3. AllRegistered' <=> AllRegistered
    BY <1>0, <1>4, Zenon DEF AllRegistered
  <2>4. Recovers'
    BY <1>0, <1>1, <1>2, <1>4, <2>3, Zenon DEF SubInv, Recovers, Recovering
  <2>5. Held => Held'
    BY <1>0, <1>2, <1>4, Zenon DEF Held
  <2>6. GivesBack'
    BY <1>0, <1>2, <1>4, <2>5, ZenonT(30) DEF SubInv, GivesBack
  <2> QED
    BY <1>3, <2>1, <2>2, <2>4, <2>6, Zenon DEF SubInv
<1>5. CASE /\ ipc["js"].ans = "none" /\ IsEmpty
           /\ sub' = [sub EXCEPT !.obj = 0, !.listening = FALSE, !.notices = <<>>]
  <2>1. /\ sub'.obj = 0 /\ ~sub'.listening /\ sub'.notices = <<>> /\ sub'.obs = sub.obs /\ sub'.all = sub.all
        /\ sub'.current = sub.current /\ sub'.type = sub.type
    BY <1>5, Zenon DEF TypeOK, SubType, SubRecord
  <2>2. Listens'
    BY <1>1, <1>2, <1>5, <2>1, Zenon DEF SubInv, Listens, IsEmpty
  <2>3. Apart'
    BY <1>0, <1>2, <2>1, Zenon DEF SubInv, Apart
  <2>4. Recovers'
    BY <2>1, Zenon DEF Recovers
  <2>5. GivesBack'
    <3> SUFFICES ASSUME ghost.faults \cap {"race", "failedOn"} = {}
                 PROVE  (\A o \in Objects : cont[o] = {}) /\ sub.all = {}
      BY <1>0, <1>2, <2>1, Zenon DEF GivesBack
    <3>1. /\ \A o \in Objects : o # sub.obj => cont[o] = {}
          /\ \A U \in sub.all : sub.obs[U] # {}
          /\ sub.obj # 0 => Held
      BY <1>2, Zenon DEF SubInv, GivesBack
    <3>2. sub.all = {}
      <4>1. sub.all \subseteq Types
        BY Zenon DEF TypeOK, SubType, SubRecord, FlagSets
      <4> QED
        BY <1>5, <3>1, <4>1, Zenon DEF IsEmpty
    <3>3. sub.obj # 0 => cont[sub.obj] = {}
      <4>1. Told
        BY <1>0, <1>5, Zenon DEF Told
      <4> QED
        BY <1>2, <3>1, <3>2, <4>1, Zenon DEF Held
    <3> QED
      BY <3>1, <3>2, <3>3, ObjectFacts, Zenon
  <2> QED
    BY <1>3, <2>2, <2>3, <2>4, <2>5, Zenon DEF SubInv
<1> QED
  BY <1>0, <1>4, <1>5, Zenon

\* The queue of notices: taking the first one, and adding one.
LEMMA NoticeTaken ==
  ASSUME NEW ns \in Notices, ns # <<>>
  PROVE  /\ Tail(ns) \in Notices
         /\ Tail(ns) # <<>> => Newest(Tail(ns)) = Newest(ns)
         /\ Tail(ns) = <<>> => Newest(ns) = Head(ns)
         /\ Head(ns) = "add" => (HasRemove(Tail(ns)) <=> HasRemove(ns))
<1>1. Len(ns) \in Nat /\ Len(ns) >= 1 /\ Head(ns) = ns[1] /\ Tail(ns) \in Notices
      /\ Len(Tail(ns)) = Len(ns) - 1 /\ \A i \in 1 .. Len(ns) - 1 : Tail(ns)[i] = ns[i + 1]
  BY DEF Notices
<1>2. ASSUME Tail(ns) # <<>>
      PROVE  Newest(Tail(ns)) = Newest(ns)
  <2>1. Len(ns) - 1 >= 1
    BY <1>1, <1>2 DEF Notices
  <2> QED
    BY <1>1, <2>1 DEF Newest
<1>3. ASSUME Tail(ns) = <<>>
      PROVE  Newest(ns) = Head(ns)
  BY <1>1, <1>3 DEF Newest
<1>4. ASSUME Head(ns) = "add"
      PROVE  HasRemove(Tail(ns)) <=> HasRemove(ns)
  <2>1. ASSUME NEW i \in 1 .. Len(ns), ns[i] = "remove"
        PROVE  HasRemove(Tail(ns))
    <3>1. i # 1 /\ i - 1 \in 1 .. Len(ns) - 1 /\ (i - 1) + 1 = i
      BY <1>1, <1>4, <2>1
    <3> QED
      BY <1>1, <2>1, <3>1, Zenon DEF HasRemove
  <2>2. ASSUME NEW i \in 1 .. Len(Tail(ns)), Tail(ns)[i] = "remove"
        PROVE  HasRemove(ns)
    BY <1>1, <2>2 DEF HasRemove
  <2> QED
    BY <2>1, <2>2, Zenon DEF HasRemove
<1> QED
  BY <1>1, <1>2, <1>3, <1>4, Zenon

\* A notice that is added is the newest one.
LEMMA NoticeAdded ==
  ASSUME NEW ns \in Notices, NEW x \in {"add", "remove"}
  PROVE  /\ Append(ns, x) \in Notices /\ Append(ns, x) # <<>> /\ Newest(Append(ns, x)) = x
         /\ HasRemove(ns) => HasRemove(Append(ns, x))
         /\ x = "remove" => HasRemove(Append(ns, x))
<1>1. Append(ns, x) \in Notices /\ Len(ns) \in Nat /\ Len(Append(ns, x)) = Len(ns) + 1
      /\ Append(ns, x)[Len(ns) + 1] = x /\ \A i \in 1 .. Len(ns) : Append(ns, x)[i] = ns[i]
  BY DEF Notices
<1> QED
  BY <1>1 DEF Newest, HasRemove

\* A notice is of one of the two kinds.
LEMMA NewestNotice ==
  ASSUME TypeOK
  PROVE  sub.notices \in Notices /\ (sub.notices # <<>> => Newest(sub.notices) \in {"add", "remove"})
<1>1. sub.notices \in Notices
  BY ZenonT(30) DEF TypeOK, SubType, SubRecord
<1> QED
  BY <1>1 DEF Notices, Newest

\* The listener hears that the service went away.
LEMMA RemovalHeard ==
  ASSUME TypeOK, SubInv, OnRemoveSystemAbility
  PROVE  SubInv'
<1>0. /\ svc' = svc /\ proxy' = proxy /\ cont' = cont /\ ghost' = ghost /\ ipc' = ipc
      /\ sub.notices # <<>> /\ Head(sub.notices) = "remove" /\ ipc["sa"].at = "idle"
      /\ sub' = [sub EXCEPT !.notices = Tail(sub.notices), !.need = sub.need \/ (sub.obj # 0 /\ ~IsEmpty)]
  BY Zenon DEF OnRemoveSystemAbility, serviceVars
<1>1. /\ sub'.notices = Tail(sub.notices) /\ (sub'.need <=> sub.need \/ (sub.obj # 0 /\ ~IsEmpty))
      /\ sub'.obj = sub.obj /\ sub'.obs = sub.obs /\ sub'.all = sub.all /\ sub'.current = sub.current
      /\ sub'.type = sub.type /\ (sub'.listening <=> sub.listening)
  BY <1>0, Zenon DEF TypeOK, SubType, SubRecord
<1>2. /\ Tail(sub.notices) # <<>> => Newest(Tail(sub.notices)) = Newest(sub.notices)
      /\ Tail(sub.notices) = <<>> => Newest(sub.notices) = "remove"
  BY <1>0, NoticeTaken, NewestNotice, Zenon
<1>3. /\ \A op : Asking(op)' <=> Asking(op)
      /\ (Busy("js")' <=> Busy("js")) /\ (Busy("sa")' <=> Busy("sa")) /\ (Told' <=> Told)
      /\ \A U : (Leaving(U)' <=> Leaving(U)) /\ (May(U)' <=> May(U))
  BY <1>0, <1>1, Zenon DEF Asking, Busy, Told, Leaving, May
<1>4. Reached' /\ Locked'
  BY <1>0, SubReaches, Zenon
<1>5. Listens'
  BY <1>0, <1>1, <1>2, <1>3, Zenon DEF SubInv, Listens
<1>6. Apart'
  BY <1>0, <1>1, <1>3, Zenon DEF SubInv, Apart
<1>7. svc.published => Tail(sub.notices) # <<>>
  BY <1>0, <1>2, Zenon DEF SubInv, Listens
<1>8. sub.obj # 0 => Recovering'
  <2>1. CASE IsEmpty
    BY <1>0, <1>1, <2>1, Zenon DEF Recovering, AllRegistered, IsEmpty
  <2>2. CASE ~IsEmpty
    BY <1>0, <1>1, <1>7, <2>2, Zenon DEF Recovering
  <2> QED
    BY <2>1, <2>2, Zenon
<1>9. Recovers'
  BY <1>0, <1>1, <1>3, <1>8, Zenon DEF SubInv, Recovers, Here
<1>10. GivesBack'
  <2>1. Held => Held'
    BY <1>0, <1>1, <1>3, Zenon DEF Held
  <2> QED
    BY <1>0, <1>1, <1>3, <2>1, Zenon DEF SubInv, GivesBack
<1> QED
  BY <1>4, <1>5, <1>6, <1>9, <1>10, Zenon DEF SubInv

\* A queue whose newest notice is not that the service is back has one that it went away.
LEMMA NewestRemove ==
  ASSUME NEW ns \in Notices
  PROVE  (ns # <<>> /\ Newest(ns) # "add" => HasRemove(ns)) /\ ~HasRemove(<<>>)
<1>1. ASSUME ns # <<>>, Newest(ns) # "add"
      PROVE  HasRemove(ns)
  <2>1. Len(ns) \in 1 .. Len(ns) /\ ns[Len(ns)] \in {"add", "remove"}
    BY <1>1 DEF Notices
  <2> QED
    BY <1>1, <2>1, Zenon DEF Newest, HasRemove
<1>2. ~HasRemove(<<>>)
  BY DEF HasRemove
<1> QED
  BY <1>1, <1>2, Zenon

\* The listener hears that the service is back.
LEMMA AdditionHeard ==
  ASSUME TypeOK, SubInv, OnAddSystemAbility
  PROVE  SubInv'
<1>0. /\ svc' = svc /\ proxy' = proxy /\ cont' = cont
      /\ sub.notices # <<>> /\ Head(sub.notices) = "add" /\ ipc["sa"].at = "idle"
      /\ \/ /\ sub.obj # 0 /\ sub.need
            /\ sub' = [sub EXCEPT !.notices = Tail(sub.notices), !.current = sub.all]
            /\ Begin("sa", "subscribe", sub.all, sub.obj)
            /\ ghost' = [ghost EXCEPT !.faults = ghost.faults \cup Overlap("js")]
         \/ /\ ~(sub.obj # 0 /\ sub.need)
            /\ sub' = [sub EXCEPT !.notices = Tail(sub.notices)] /\ ipc' = ipc /\ ghost' = ghost
  BY Zenon DEF OnAddSystemAbility, serviceVars
<1>1. /\ sub'.notices = Tail(sub.notices) /\ (sub'.need <=> sub.need)
      /\ sub'.obj = sub.obj /\ sub'.obs = sub.obs /\ sub'.all = sub.all
      /\ sub'.type = sub.type /\ (sub'.listening <=> sub.listening)
      /\ sub'.current = sub.all \/ (ipc' = ipc /\ sub'.current = sub.current)
  BY <1>0, Zenon DEF TypeOK, SubType, SubRecord
<1>2. /\ Tail(sub.notices) # <<>> => Newest(Tail(sub.notices)) = Newest(sub.notices)
      /\ Tail(sub.notices) = <<>> => Newest(sub.notices) = "add"
      /\ HasRemove(Tail(sub.notices)) <=> HasRemove(sub.notices)
      /\ Newest(sub.notices) # "add" => HasRemove(sub.notices)
      /\ HasRemove(Tail(sub.notices)) => Tail(sub.notices) # <<>>
  BY <1>0, NoticeTaken, NewestNotice, NewestRemove, Zenon
<1>3. Newest(sub.notices) = "add" <=> svc.published
  BY <1>0, ZenonT(30) DEF SubInv, Listens
<1>4. CASE /\ sub.obj # 0 /\ sub.need
           /\ sub' = [sub EXCEPT !.notices = Tail(sub.notices), !.current = sub.all]
           /\ Begin("sa", "subscribe", sub.all, sub.obj)
           /\ ghost' = [ghost EXCEPT !.faults = ghost.faults \cup Overlap("js")]
  <2>1. /\ \A u \in Threads \ {"sa"} : ipc'[u] = ipc[u]
        /\ ipc'["sa"].at = "enter" /\ ipc'["sa"].op = "subscribe" /\ ipc'["sa"].obj = sub.obj
    <3>1. PICK o \in Objects, a \in SUBSET Types : o = sub.obj /\ a = sub.all
      BY <1>4, Zenon DEF TypeOK, SubType, SubRecord, Handles, FlagSets
    <3>2. Begin("sa", "subscribe", a, o) /\ "subscribe" \in Forwarded /\ o \in Nat \cup Workers /\ "sa" \in Threads
          /\ IpcType
      BY <1>4, <3>1, OpFacts, ObjectFacts, ThreadFacts, TypeFacts, ZenonT(30) DEF TypeOK
    <3>3. /\ \A u \in Threads \ {"sa"} : ipc'[u] = ipc[u]
          /\ ipc'["sa"].at = "enter" /\ ipc'["sa"].op = "subscribe" /\ ipc'["sa"].obj = o
      BY <3>2, BeginStep, ZenonT(30)
    <3> QED
      BY <3>1, <3>3, Zenon
  <2>2. /\ ipc'["js"] = ipc["js"] /\ ghost'.faults = ghost.faults \cup Overlap("js") /\ sub'.current = sub.all
        /\ \A t \in Threads : ipc'[t] = ipc[t] \/ ipc'[t].at \in {"idle", "enter"}
    BY <1>4, <2>1, ThreadFacts, Zenon DEF TypeOK, GhostType, SubType, SubRecord
  <2>3. /\ \A op : Asking(op)' <=> Asking(op)
        /\ (Busy("js")' <=> Busy("js")) /\ Busy("sa")' /\ (Told' <=> Told) /\ Restoring'
    BY <2>1, <2>2, TypeFacts, Zenon DEF Asking, Busy, Told, Restoring
  <2>4. "race" \notin ghost'.faults => ~Busy("js") /\ ~Asking("subscribe") /\ ~Asking("unsubscribe")
    BY <2>2, Zenon DEF Overlap, Busy, Asking, SubscriptionCalls
  <2>5. Reached' /\ Locked'
    BY <1>0, <2>2, SubReaches, Zenon
  <2>6. Listens'
    BY <1>0, <1>1, <1>2, <2>1, <2>2, <2>3 DEF SubInv, Listens
  <2>7. Apart'
    BY <1>1, <2>1, <2>2, <2>3, <2>4, Zenon DEF Apart
  <2>8. Recovers'
    <3>1. Recovering'
      BY <1>0, <1>1, <1>2, <1>3, <2>3, Zenon DEF Recovering
    <3> QED
      BY <2>3, <2>4, <3>1, Zenon DEF Recovers
  <2>9. GivesBack'
    <3> SUFFICES ASSUME ghost'.faults \cap {"race", "failedOn"} = {}
                 PROVE  /\ \A o \in Objects : o # sub.obj => cont[o] = {}
                        /\ \A U \in sub.all : sub.obs[U] # {} /\ May(U)
                        /\ Held'
      BY <1>0, <1>1, <2>3, <2>4, Zenon DEF GivesBack, May
    <3>1. /\ \A o \in Objects : o # sub.obj => cont[o] = {}
          /\ \A U \in sub.all : sub.obs[U] # {} /\ May(U)
          /\ Held
      BY <1>4, <2>2, <2>4, Zenon DEF SubInv, GivesBack
    <3>2. \A U : ~Leaving(U) /\ ~Leaving(U)' /\ (May(U)' <=> May(U))
      BY <1>0, <2>3, <2>4, Zenon DEF Leaving, May
    <3>3. Held'
      BY <1>0, <1>1, <2>3, <2>4, <3>1, <3>2, ZenonT(30) DEF Held
    <3> QED
      BY <3>1, <3>3, Zenon
  <2> QED
    BY <2>5, <2>6, <2>7, <2>8, <2>9, Zenon DEF SubInv
<1>5. CASE /\ ~(sub.obj # 0 /\ sub.need)
           /\ sub' = [sub EXCEPT !.notices = Tail(sub.notices)] /\ ipc' = ipc /\ ghost' = ghost
  <2>1. sub'.current = sub.current
    BY <1>5, Zenon DEF TypeOK, SubType, SubRecord
  <2>2. /\ \A op : Asking(op)' <=> Asking(op)
        /\ (Busy("js")' <=> Busy("js")) /\ (Busy("sa")' <=> Busy("sa")) /\ (Told' <=> Told)
        /\ \A U : (Leaving(U)' <=> Leaving(U)) /\ (May(U)' <=> May(U))
    BY <1>0, <1>5, <2>1, Zenon DEF Asking, Busy, Told, Leaving, May
  <2>3. Reached' /\ Locked'
    BY <1>0, <1>5, SubReaches, Zenon
  <2>4. Listens'
    BY <1>0, <1>1, <1>2, <1>5, <2>2, ZenonT(30) DEF SubInv, Listens
  <2>5. Apart'
    BY <1>1, <1>5, <2>1, <2>2, Zenon DEF SubInv, Apart
  <2>6. AllRegistered' <=> AllRegistered
    BY <1>0, <1>1, Zenon DEF AllRegistered
  <2>7. ~Restoring
    BY <1>0, Zenon DEF Restoring
  <2>8. sub.obj # 0 /\ Recovering => Recovering'
    BY <1>0, <1>1, <1>2, <1>5, <2>6, <2>7, ZenonT(30) DEF Recovering
  <2>9. Recovers'
    BY <1>0, <1>1, <1>5, <2>2, <2>8, ZenonT(30) DEF SubInv, Recovers, Here
  <2>10. Held => Held'
    BY <1>0, <1>1, <2>2, Zenon DEF Held
  <2>11. GivesBack'
    BY <1>0, <1>1, <1>5, <2>2, <2>10, ZenonT(30) DEF SubInv, GivesBack
  <2> QED
    BY <2>3, <2>4, <2>5, <2>9, <2>11, Zenon DEF SubInv
<1> QED
  BY <1>0, <1>4, <1>5, Zenon

\* The attempt to restore is over.
LEMMA RestoreEnds ==
  ASSUME TypeOK, SubInv, RestoreDone
  PROVE  SubInv'
<1>0. /\ svc' = svc /\ proxy' = proxy /\ cont' = cont /\ ipc["sa"].at = "done"
      /\ ipc' = [ipc EXCEPT !["sa"] = Idle] /\ (sub' = sub \/ sub' = [sub EXCEPT !.need = FALSE])
      /\ \/ ipc["sa"].ans # "none" /\ ghost' = [ghost EXCEPT !.faults = ghost.faults \cup {"restoreFailed"}]
         \/ ipc["sa"].ans = "none" /\ ghost' = [ghost EXCEPT !.faults = ghost.faults]
  BY Zenon DEF RestoreDone, serviceVars
<1>1. /\ sub'.notices = sub.notices /\ sub'.current = sub.current
      /\ sub'.obj = sub.obj /\ sub'.obs = sub.obs /\ sub'.all = sub.all
      /\ sub'.type = sub.type /\ (sub'.listening <=> sub.listening)
  BY <1>0, Zenon DEF TypeOK, SubType, SubRecord
<1>2. /\ ipc'["sa"] = Idle /\ ipc'["js"] = ipc["js"]
      /\ \A t \in Threads : ipc'[t] = ipc[t] \/ ipc'[t].at \in {"idle", "enter"}
  <2>1. ipc'["sa"] = Idle /\ \A u \in Threads \ {"sa"} : ipc'[u] = ipc[u]
    BY <1>0, IdleStep, ThreadFacts, Zenon DEF TypeOK
  <2> QED
    BY <2>1, ThreadFacts, IdleFacts, Zenon
<1>3. \/ ipc["sa"].ans # "none" /\ ghost'.faults = ghost.faults \cup {"restoreFailed"}
      \/ ipc["sa"].ans = "none" /\ ghost'.faults = ghost.faults
  BY <1>0, Zenon DEF TypeOK, GhostType
<1>4. /\ \A op : Asking(op)' <=> Asking(op)
      /\ (Busy("js")' <=> Busy("js")) /\ ~Busy("sa")' /\ (Told' <=> Told)
      /\ \A U : (Leaving(U)' <=> Leaving(U)) /\ (May(U)' <=> May(U))
  BY <1>0, <1>1, <1>2, IdleFacts, ZenonT(30) DEF Asking, Busy, Told, Leaving, May
<1>5. Reached' /\ Locked'
  BY <1>0, <1>2, SubReaches, Zenon
<1>6. Listens'
  BY <1>0, <1>1, <1>2, <1>4, IdleFacts, ZenonT(30) DEF SubInv, Listens
<1>7. Apart'
  BY <1>1, <1>2, <1>3, <1>4, Zenon DEF SubInv, Apart
<1>8. AllRegistered' <=> AllRegistered
  BY <1>0, <1>1, Zenon DEF AllRegistered
<1>9. ipc["sa"].ans = "none" /\ Recovering => Recovering'
  BY <1>0, <1>1, <1>8, Zenon DEF Recovering, Restoring
<1>10. Recovers'
  <2> SUFFICES ASSUME ghost'.faults \subseteq {"failedOn"}, sub.obj # 0
               PROVE  /\ Recovering'
                      /\ Asking("subscribe") /\ Told /\ Here(ipc["js"].gen) => sub.type \in cont[sub.obj]
    BY <1>0, <1>1, <1>2, <1>4, Zenon DEF Recovers, Here
  <2>1. ipc["sa"].ans = "none" /\ ghost.faults \subseteq {"failedOn"}
    BY <1>3
  <2> QED
    BY <1>9, <2>1, Zenon DEF SubInv, Recovers
<1>11. Held => Held'
  BY <1>0, <1>1, <1>4, Zenon DEF Held
<1>12. GivesBack'
  BY <1>0, <1>1, <1>3, <1>4, <1>11, ZenonT(30) DEF SubInv, GivesBack
<1> QED
  BY <1>5, <1>6, <1>7, <1>10, <1>12, Zenon DEF SubInv

\* A step of the service's life: what it had of the application is kept or lost
\* as a whole, and the listener may get a notice.
LEMMA AgreeLife ==
  ASSUME TypeOK, Agree, ipc' = ipc, ghost' = ghost, proxy'.app = proxy.app,
         sub'.obj = sub.obj, sub'.obs = sub.obs, sub'.all = sub.all, sub'.current = sub.current,
         sub'.type = sub.type, sub'.listening <=> sub.listening,
         (\A o \in Objects : cont'[o] = cont[o]) \/ (\A o \in Objects : cont'[o] = {}),
         ~sub.listening => sub'.notices = <<>>,
         sub'.notices # <<>> => (Newest(sub'.notices) = "add" <=> svc'.published),
         Told /\ Busy("js") /\ Here(ipc["js"].gen)'
           => Here(ipc["js"].gen) /\ \A o \in Objects : cont'[o] = cont[o],
         sub.obj # 0 /\ Recovering => Recovering'
  PROVE  Agree'
<1>1. /\ \A op : Asking(op)' <=> Asking(op)
      /\ (Busy("js")' <=> Busy("js")) /\ (Busy("sa")' <=> Busy("sa")) /\ (Told' <=> Told)
      /\ \A U : (Leaving(U)' <=> Leaving(U)) /\ (May(U)' <=> May(U))
  BY Zenon DEF Asking, Busy, Told, Leaving, May
<1>2. sub.obj # 0 => sub.obj \in Objects
  BY Zenon DEF TypeOK, SubType, SubRecord, Handles
<1>3. Listens'
  BY <1>1, Zenon DEF Agree, Listens
<1>4. Apart'
  BY <1>1, ZenonT(30) DEF Agree, Apart
<1>5. Recovers'
  <2> SUFFICES ASSUME ghost.faults \subseteq {"failedOn"}, sub.obj # 0
               PROVE  /\ Recovering'
                      /\ Asking("subscribe") /\ Told /\ Here(ipc["js"].gen)' => sub.type \in cont'[sub.obj]
    BY <1>1, Zenon DEF Recovers, Here
  <2>1. Asking("subscribe") => Busy("js")
    BY TypeFacts, Zenon DEF Asking, Busy
  <2> QED
    BY <1>2, <2>1, Zenon DEF Agree, Recovers
<1>6. ASSUME sub.obj # 0, Held
      PROVE  Held'
  <2>1. cont'[sub.obj] = cont[sub.obj] \/ cont'[sub.obj] = {}
    BY <1>2, <1>6, Zenon
  <2>2. CASE cont'[sub.obj] = cont[sub.obj]
    BY <1>1, <1>6, <2>2, Zenon DEF Held
  <2>3. CASE cont'[sub.obj] = {}
    BY <2>3, Zenon DEF Held
  <2> QED
    BY <2>1, <2>2, <2>3, Zenon
<1>7. GivesBack'
  <2> SUFFICES ASSUME ghost.faults \cap {"race", "failedOn"} = {}
               PROVE  /\ \A o \in Objects : o # sub.obj => cont'[o] = {}
                      /\ \A T \in sub.all : (sub.obs[T] # {} /\ May(T)) \/ (Asking("subscribe") /\ T = sub.type)
                      /\ Asking("subscribe") /\ Told => May(sub.type)
                      /\ sub.obj # 0 => Held'
    BY <1>1, Zenon DEF GivesBack
  <2>1. /\ \A o \in Objects : o # sub.obj => cont[o] = {}
        /\ \A T \in sub.all : (sub.obs[T] # {} /\ May(T)) \/ (Asking("subscribe") /\ T = sub.type)
        /\ Asking("subscribe") /\ Told => May(sub.type)
        /\ sub.obj # 0 => Held
    BY Zenon DEF Agree, GivesBack
  <2> QED
    BY <1>6, <2>1, Zenon
<1> QED
  BY <1>3, <1>4, <1>5, <1>7, Zenon DEF Agree

\* A new process starts: nothing reaches it yet.
LEMMA StartsAgree ==
  ASSUME TypeOK, SubInv, Starts
  PROVE  SubInv'
<1>0. /\ ~svc.alive /\ svc' = [NoProcess EXCEPT !.gen = svc.gen + 1, !.alive = TRUE]
      /\ cont' = cont /\ proxy' = proxy /\ ipc' = ipc /\ sub' = sub /\ ghost' = ghost
  BY Zenon DEF Starts, OnStart, clientVars
<1>1. svc'.gen = svc.gen + 1 /\ svc'.alive /\ ~svc'.published /\ svc.gen \in Nat /\ proxy.gen \in Nat
      /\ ipc["js"].gen \in Nat
  BY <1>0, ThreadFacts, Zenon DEF NoProcess, TypeOK, SvcType, ProxyType, IpcType, Ipc
<1>2. ~svc.published /\ \A o \in Objects : cont[o] = {}
  BY <1>0, Zenon DEF SubInv, Reached
<1>3. proxy.gen < svc'.gen /\ (Told /\ Busy("js") => ipc["js"].gen < svc'.gen)
  BY <1>1 DEF SubInv, Reached
<1>4. Reached'
  <2>1. (Told' <=> Told) /\ (Busy("js")' <=> Busy("js"))
    BY <1>0, Zenon DEF Told, Busy
  <2> QED
    BY <1>0, <1>1, <1>2, <1>3, <2>1 DEF Reached, Here
<1>5. Locked'
  BY <1>0, Zenon DEF SubInv, Locked
<1>6. Recovering => Recovering'
  BY <1>0, <1>1, <1>2, Zenon DEF Recovering, AllRegistered, Restoring
<1>7. Agree'
  <2>1. Told /\ Busy("js") => ~Here(ipc["js"].gen)'
    BY <1>0, <1>1, <1>3 DEF Here
  <2>2. /\ ~sub.listening => sub.notices = <<>>
        /\ sub.notices # <<>> => (Newest(sub.notices) = "add" <=> svc'.published)
    BY <1>1, <1>2, Zenon DEF SubInv, Listens
  <2> QED
    BY <1>0, <1>6, <2>1, <2>2, AgreeLife, ZenonT(30) DEF SubInv, Agree
<1> QED
  BY <1>4, <1>5, <1>7, Zenon DEF SubInv, Agree

\* A manager is ready; the last one publishes the service, and the listener is told.
LEMMA ReadiesAgree ==
  ASSUME TypeOK, SubInv, NEW m \in Managers, NEW accepted \in BOOLEAN, Readies(m, accepted)
  PROVE  SubInv'
<1>0. /\ m \notin svc.ready /\ svc.alive
      /\ svc' = [svc EXCEPT !.ready = svc.ready \cup {m},
                  !.published = svc.published \/ ((svc.ready # Managers /\ svc.ready \cup {m} = Managers) /\ accepted),
                  !.running = svc.running \/ ((svc.ready # Managers /\ svc.ready \cup {m} = Managers) /\ accepted)]
      /\ cont' = cont /\ proxy' = proxy /\ ipc' = ipc /\ ghost' = ghost
      /\ sub' = IF svc'.published /\ sub.listening
                THEN [sub EXCEPT !.notices = Append(sub.notices, "add")] ELSE sub
  BY Zenon DEF Readies, SetReady
<1>1. ~svc.published /\ ~Here(proxy.gen) /\ (Told /\ Busy("js") => ~Here(ipc["js"].gen))
      /\ \A o \in Objects : cont[o] = {}
  BY <1>0, Zenon DEF SubInv, Reached
<1>2. svc'.gen = svc.gen /\ svc'.alive /\ (svc'.published => svc'.ready = Managers) /\ svc'.published \in BOOLEAN
  BY <1>0, <1>1, Zenon DEF TypeOK, SvcType
<1>3. /\ sub'.obj = sub.obj /\ sub'.obs = sub.obs /\ sub'.all = sub.all /\ sub'.current = sub.current
      /\ sub'.type = sub.type /\ (sub'.listening <=> sub.listening) /\ (sub'.need <=> sub.need)
      /\ sub'.notices = IF svc'.published /\ sub.listening THEN Append(sub.notices, "add") ELSE sub.notices
  BY <1>0, Zenon DEF TypeOK, SubType, SubRecord
<1>4. Reached'
  <2>1. (Told' <=> Told) /\ (Busy("js")' <=> Busy("js"))
    BY <1>0, Zenon DEF Told, Busy
  <2> QED
    BY <1>0, <1>1, <1>2, <2>1, ZenonT(30) DEF SubInv, Reached, Here
<1>5. Locked'
  BY <1>0, Zenon DEF SubInv, Locked
<1>6. sub.notices \in Notices
  BY NewestNotice, Zenon
<1>7. Append(sub.notices, "add") # <<>> /\ Newest(Append(sub.notices, "add")) = "add"
      /\ (HasRemove(sub.notices) => HasRemove(Append(sub.notices, "add")))
  BY <1>6, NoticeAdded, Zenon
<1>8. Recovering => Recovering'
  <2>1. CASE sub.listening
    BY <1>0, <1>1, <1>3, <1>7, <2>1, ZenonT(30) DEF Recovering, AllRegistered
  <2>2. CASE ~sub.listening
    BY <1>3, <2>2, Zenon DEF SubInv, Listens, Recovering, AllRegistered
  <2> QED
    BY <2>1, <2>2, Zenon
<1>9. Agree'
  <2>1. Told /\ Busy("js") => ~Here(ipc["js"].gen)'
    BY <1>0, <1>1, <1>2, Zenon DEF Here
  <2>2. /\ ~sub.listening => sub'.notices = <<>>
        /\ sub'.notices # <<>> => (Newest(sub'.notices) = "add" <=> svc'.published)
    BY <1>1, <1>2, <1>3, <1>7, Zenon DEF SubInv, Listens
  <2> QED
    BY <1>0, <1>3, <1>8, <2>1, <2>2, AgreeLife, ZenonT(30) DEF SubInv, Agree
<1> QED
  BY <1>4, <1>5, <1>9, Zenon DEF SubInv, Agree

\* The process dies and what it had is gone; the listener is told of it.
LEMMA DiesAgree ==
  ASSUME TypeOK, NativeInv, SubInv, Dies
  PROVE  SubInv'
<1>0. /\ svc' = [NoProcess EXCEPT !.gen = svc.gen] /\ cont' = [s \in Subscribers |-> {}]
      /\ proxy' = [proxy EXCEPT !.deaths = proxy.deaths \cup (proxy.watched \cap {svc.gen}),
                                !.watched = proxy.watched \ {svc.gen}]
      /\ ipc' = ipc /\ ghost' = ghost
      /\ sub' = IF svc.published /\ sub.listening
                THEN [sub EXCEPT !.notices = Append(sub.notices, "remove")] ELSE sub
  BY Zenon DEF Dies, ServiceDies
<1>1. svc'.gen = svc.gen /\ ~svc'.alive /\ ~svc'.published
  BY <1>0, Zenon DEF NoProcess
<1>2. proxy'.gen = proxy.gen /\ proxy'.app = proxy.app /\ proxy'.lock = proxy.lock
  BY <1>0, Zenon DEF TypeOK, ProxyType
<1>3. \A o \in Objects : cont'[o] = {}
  BY <1>0, Zenon DEF Subscribers
<1>4. /\ sub'.obj = sub.obj /\ sub'.obs = sub.obs /\ sub'.all = sub.all /\ sub'.current = sub.current
      /\ sub'.type = sub.type /\ (sub'.listening <=> sub.listening) /\ (sub'.need <=> sub.need)
      /\ sub'.notices = IF svc.published /\ sub.listening THEN Append(sub.notices, "remove") ELSE sub.notices
  BY <1>0, Zenon DEF TypeOK, SubType, SubRecord
<1>5. Reached'
  <2>1. (Told' <=> Told) /\ (Busy("js")' <=> Busy("js"))
    BY <1>0, Zenon DEF Told, Busy
  <2> QED
    BY <1>0, <1>1, <1>2, <1>3, <2>1, ZenonT(30) DEF SubInv, Reached, Here
<1>6. Locked'
  BY <1>0, <1>2, Zenon DEF SubInv, Locked
<1>7. sub.notices \in Notices
  BY NewestNotice, Zenon
<1>8. Append(sub.notices, "remove") # <<>> /\ Newest(Append(sub.notices, "remove")) = "remove"
      /\ HasRemove(Append(sub.notices, "remove"))
  BY <1>7, NoticeAdded, Zenon
<1>9. sub.obj # 0 /\ Recovering => Recovering'
  <2>1. CASE svc.published /\ sub.listening
    BY <1>1, <1>4, <1>8, <2>1, ZenonT(30) DEF Recovering
  <2>2. CASE ~sub.listening
    BY <1>4, <2>2, Zenon DEF SubInv, Listens, Recovering, AllRegistered
  <2>3. ASSUME ~svc.published, sub.obj # 0, Recovering
        PROVE  Recovering'
    <3>1. sub.obj \in Objects /\ \A o \in Objects : cont[o] = {}
      BY <2>3, Zenon DEF TypeOK, SubType, SubRecord, Handles, SubInv, Reached
    <3>2. AllRegistered => AllRegistered'
      BY <1>3, <1>4, <3>1, Zenon DEF AllRegistered
    <3> QED
      BY <1>0, <1>1, <1>4, <2>3, <3>2, ZenonT(30) DEF Recovering
  <2> QED
    BY <2>1, <2>2, <2>3, Zenon
<1>10. Agree'
  <2>1. ~Here(ipc["js"].gen)'
    BY <1>1, Zenon DEF Here
  <2>2. /\ ~sub.listening => sub'.notices = <<>>
        /\ sub'.notices # <<>> => (Newest(sub'.notices) = "add" <=> svc'.published)
    BY <1>1, <1>4, <1>8, Zenon DEF SubInv, Listens
  <2> QED
    BY <1>0, <1>2, <1>3, <1>4, <1>9, <2>1, <2>2, AgreeLife, ZenonT(30) DEF SubInv, Agree
<1> QED
  BY <1>5, <1>6, <1>10, Zenon DEF SubInv, Agree

\* The proxy is forgotten: nobody holds mutex_, so no call is under way through it.
LEMMA ResetAgrees ==
  ASSUME TypeOK, SubInv, NEW g, ResetBackgroundTaskManagerProxy(g)
  PROVE  SubInv'
<1>0. /\ proxy.lock = "none" /\ proxy' = [proxy EXCEPT !.gen = 0, !.deaths = proxy.deaths \ {g}]
      /\ svc' = svc /\ cont' = cont /\ ipc' = ipc /\ sub' = sub /\ ghost' = ghost
  BY Zenon DEF ResetBackgroundTaskManagerProxy, serviceVars
<1>1. proxy'.gen = 0 /\ proxy'.app = proxy.app /\ svc.gen \in Nat
  BY <1>0, Zenon DEF TypeOK, ProxyType, SvcType
<1>2. Agree'
  BY <1>0, <1>1, AgreeFrame, Zenon DEF SubInv, Agree
<1>3. Reached'
  <2>1. (Told' <=> Told) /\ (Busy("js")' <=> Busy("js"))
    BY <1>0, Zenon DEF Told, Busy
  <2> QED
    BY <1>0, <1>1, <2>1 DEF SubInv, Reached, Here
<1>4. Locked'
  BY <1>0, ThreadFacts, Zenon DEF SubInv, Locked
<1> QED
  BY <1>2, <1>3, <1>4, Zenon DEF SubInv, Agree

\* The application starts with no subscriber, and the service with no process.
LEMMA SubInit == Init => SubInv
<1> SUFFICES ASSUME Init PROVE SubInv
  BY Zenon
<1>1. TypeOK
  BY InitTypes, Zenon
<1>2. /\ svc = NoProcess /\ cont = [s \in Subscribers |-> {}] /\ ipc = [t \in Threads |-> Idle]
      /\ ghost = [faults |-> {}, served |-> {}]
  BY Zenon DEF Init, ServiceInit
<1>3. svc.gen = 0 /\ ~svc.alive /\ ~svc.published /\ \A o \in Objects : cont[o] = {}
  BY <1>2, Zenon DEF NoProcess, Subscribers
<1>4. \A t \in Threads : ipc[t].at = "idle"
  BY <1>2, IdleFacts, Zenon
<1>5. sub.obj = 0 /\ (\A T \in Types : sub.obs[T] = {}) /\ sub.all = {} /\ ~sub.listening /\ sub.notices = <<>>
      /\ proxy.gen = 0
  BY DEF Init
<1>6. ~Busy("js") /\ ~Busy("sa") /\ ~Asking("subscribe") /\ ~Asking("unsubscribe") /\ ipc["sa"].at = "idle"
  BY <1>4, ThreadFacts, Zenon DEF Busy, Asking
<1>7. Reached /\ Locked
  BY <1>3, <1>4, <1>5, <1>6 DEF Reached, Locked, Here
<1>8. Listens /\ Apart
  BY <1>5, <1>6, Zenon DEF Listens, Apart
<1>9. Recovers /\ GivesBack
  BY <1>3, <1>5, <1>6, ObjectFacts, ZenonT(30) DEF Recovers, GivesBack
<1> QED
  BY <1>7, <1>8, <1>9, Zenon DEF SubInv

\* Every step of on(), of off() and of the listener.
LEMMA SubSteps ==
  ASSUME TypeOK, SubInv, SubNext
  PROVE  SubInv'
<1>1. ASSUME NEW T \in Types, NEW fs \in {{f} : f \in Callbacks} \cup {Callbacks}, RemoveJsObserverObject(T, fs)
      PROVE  SubInv'
  BY <1>1, OffBegins, Zenon
<1> QED
  BY <1>1, OnBegins, OnEnds, OffEnds, RemovalHeard, AdditionHeard, RestoreEnds, Zenon DEF SubNext

\* Every step of the client keeps the invariant.
LEMMA SubStep ==
  ASSUME TypeOK, NativeInv, AnswersInv, SubInv, [Next]_vars
  PROVE  SubInv'
<1>1. CASE UNCHANGED vars
  <2>1. svc' = svc /\ proxy' = proxy /\ sub' = sub /\ cont' = cont /\ ghost' = ghost /\ ipc' = ipc
    BY <1>1, Zenon DEF vars, clientVars, serviceVars
  <2> QED
    BY <2>1, SubFrame, Zenon
<1>2. CASE LifeNext
  BY <1>2, StartsAgree, ReadiesAgree, DiesAgree, Zenon DEF LifeNext
<1>3. CASE (NativeNext \/ OperationNext) /\ UNCHANGED clientVars
  BY <1>3, NativeLeavesSub, Zenon
<1>4. CASE ProxyNext
  BY <1>4, ThreadStep, ResetAgrees, Zenon DEF ProxyNext
<1>5. CASE SubNext
  BY <1>5, SubSteps, Zenon
<1>6. CASE CallNext
  BY <1>6, CallLeavesSub, ZenonT(30)
<1>7. CASE DelayNext
  BY <1>7, DelayLeavesSub, Zenon
<1> QED
  BY <1>1, <1>2, <1>3, <1>4, <1>5, <1>6, <1>7, ZenonT(30) DEF Next

(***************************************************************************)
(* Once no call is under way and every notice of the service is heard, the *)
(* service that runs now has every callback type the application has a     *)
(* function for, and nothing that the application gave back: on(), off()   *)
(* and the restoring after a death of the service, in any order.           *)
(***************************************************************************)
THEOREM SubscriptionsAlwaysAgree == Spec => []SubscriptionsAgree
<1>1. TypeOK /\ NativeInv /\ AnswersInv /\ SubInv /\ [Next]_vars
      => (TypeOK /\ NativeInv /\ AnswersInv /\ SubInv)'
  BY TypeStep, NativeStep, AnswersStep, SubStep, Zenon
<1>2. TypeOK /\ SubInv => SubscriptionsAgree
  BY SubInvAgrees, Zenon
<1> QED
  BY <1>1, <1>2, InitTypes, NativeInit, AnswersInit, SubInit, PTL DEF Spec
=============================================================================
