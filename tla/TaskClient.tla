----------------------------- MODULE TaskClient -----------------------------
(***************************************************************************)
(* An application and the service: the proxy every thread of the           *)
(* application shares, the queued calls of the JavaScript bindings, the    *)
(* one subscriber object behind on() and off() with the listener that      *)
(* subscribes again after a restart of the service, and the callbacks of   *)
(* suspension delays.  The service side is TaskService; what the bindings  *)
(* do with arguments is JsCalls.                                           *)
(*                                                                         *)
(* Threads: "js" runs the application, "sa" the notices of the system      *)
(* ability manager, one worker per queued call, and a binder thread the    *)
(* notices of death and of expiry.                                         *)
(***************************************************************************)
EXTENDS Integers, TaskService, JsCalls

CONSTANTS Apps,       \* the application as a caller of the service
          Types,      \* the callback types it subscribes to
          Callbacks,  \* its JavaScript functions
          Workers,    \* numbers of its queued calls
          Calls,      \* the calls it makes, [api, form, bad, throw]
          Operations, \* what other processes ask of the service
          Callers,    \* those processes
          MaxDelays,  \* bound on the delays it asks for
          MaxSubs     \* bound on its on() and off() calls

ASSUME BoundsAssumption == MaxDelays \in Nat /\ MaxSubs \in Nat

\* The entry points whose calls are followed to their end.
Apis == {"StartBackgroundRunning", "UpdateBackgroundRunning", "StopBackgroundRunning", "GetAllContinuousTasks",
         "CheckSpecialScenarioAuth", "GetAllContinuousTasksBySystem", "IsModeSupported", "SetBackgroundTaskState",
         "GetBackgroundTaskState", "UpdateDataTransferProgress", "GetRemainingDelayTime", "GetAllTransientTasks",
         "GetAllEfficiencyResources"}
Forms == {"promise", "callback", "request"}

\* The threads are different ones, callback types are flags of a subscription,
\* and a call is one of either module.
ASSUME ClientAssumption ==
  /\ Workers \cap {"none", "js", "sa"} = {}
  /\ Types \subseteq Flags
  /\ \A c \in Calls : c.api \in Apis /\ c.form \in Forms /\ c.throw \in BOOLEAN

VARIABLES proxy,      \* [app, gen, lock, watched, deaths]: who calls, proxy_, mutex_, its recipients
          ipc,        \* the call of each thread, [at, op, flags, obj, ans, gen, id]
          sub,        \* backgroundTaskSubscriber_ and the listener
          call,       \* the queued calls
          delay,      \* the delays: service side, messages, callbackInstances_
          ghost       \* what went wrong on the way, and what was served

clientVars == <<proxy, ipc, sub, call, delay, ghost>>
vars == <<serviceVars, clientVars>>

Threads == {"js", "sa"} \cup Workers
SyncOps == {"IsModeSupported", "SetBackgroundTaskState", "GetBackgroundTaskState",
            "UpdateDataTransferProgress"}

Idle == [at |-> "idle", op |-> "none", flags |-> {}, obj |-> 0, ans |-> "none", gen |-> 0, id |-> 0]
NoCall == [at |-> "none", api |-> "none", form |-> "none", throw |-> FALSE, err |-> "none", told |-> "none", block |-> "none"]

Init ==
  /\ ServiceInit
  /\ \E app \in Apps : proxy = [app |-> app, gen |-> 0, lock |-> "none", watched |-> {}, deaths |-> {}]
  /\ ipc = [t \in Threads |-> Idle]
  /\ sub = [obj |-> 0, made |-> 0, obs |-> [T \in Types |-> {}], all |-> {}, current |-> {}, need |-> FALSE,
            listening |-> FALSE, notices |-> <<>>, type |-> "none", cb |-> "none", left |-> MaxSubs]
  /\ call = [w \in Workers |-> NoCall]
  /\ delay = [ids |-> 0, asked |-> 0, active |-> {}, expired |-> {}, registered |-> {}, jsq |-> {}, told |-> {},
              cancelled |-> {}]
  /\ ghost = [faults |-> {}, served |-> {}]

------------------------------------------------------------------------------
(* The calls of the client library.                                         *)

TransientCalls == {"CancelSuspendDelay", "RequestSuspendDelay", "GetRemainingDelayTime", "GetAllTransientTasks"}
RunningCalls == {"StartBackgroundRunning", "UpdateBackgroundRunning", "RequestBackgroundRunningForInner",
                 "GetContinuousTasksByUid", "StopBackgroundRunning", "GetAllContinuousTasks"}
SubscriptionCalls == {"subscribe", "unsubscribe"}
ListingCalls == {"GetTransientTaskApps", "PauseTransientTaskTimeForInner", "StartTransientTaskTimeForInner",
                 "ApplyEfficiencyResources", "ResetAllEfficiencyResources", "GetAllEfficiencyResources",
                 "GetEfficiencyResourcesInfos"}
ControlCalls == {"GetContinuousTaskApps", "StopContinuousTask", "SuspendContinuousTask", "ActiveContinuousTask",
                 "AVSessionNotifyUpdateNotification"}
ConfigCalls == {"SetBgTaskConfig", "SuspendContinuousAudioTask", "IsModeSupported",
                "SetSupportedTaskKeepingProcesses", "SetMaliciousAppConfig"}
AuthCalls == {"RequestAuthFromUser", "CheckSpecialScenarioAuth", "CheckTaskAuthResult",
              "EnableContinuousTaskRequest", "SetBackgroundTaskState", "GetBackgroundTaskState",
              "GetAllContinuousTasksBySystem", "SetSpecialExemptedProcess", "GetAllContinuousTaskApps",
              "SendNotificationByDeteTask", "RemoveAuthRecord", "UpdateDataTransferProgress"}
Forwarded == TransientCalls \cup RunningCalls \cup SubscriptionCalls \cup ListingCalls \cup ControlCalls
             \cup ConfigCalls \cup AuthCalls

(* One call through the shared proxy.  mutex_ is held from the look at      *)
(* proxy_ to the answer.                                                    *)

Begin(t, op, flags, obj) ==
  ipc' = [ipc EXCEPT ![t] = [Idle EXCEPT !.at = "enter", !.op = op, !.flags = flags, !.obj = obj]]

\* A cached proxy is used as it is; otherwise the ability is looked up.
GetBackgroundTaskManagerProxy(t) ==
  /\ ipc[t].at = "enter" /\ ipc[t].op \in Forwarded
  /\ proxy.lock = "none"
  /\ \/ /\ proxy.gen # 0
        /\ proxy' = [proxy EXCEPT !.lock = t]
        /\ ipc' = [ipc EXCEPT ![t].at = "send"]
     \/ /\ proxy.gen = 0 /\ svc.published
        /\ proxy' = [proxy EXCEPT !.lock = t, !.gen = svc.gen]
        /\ ipc' = [ipc EXCEPT ![t].at = "watch"]
     \/ /\ proxy.gen = 0 /\ ~svc.published
        /\ ipc' = [ipc EXCEPT ![t] = [@ EXCEPT !.at = "done", !.ans = NotConnected]]
        /\ UNCHANGED proxy
  /\ UNCHANGED <<serviceVars, sub, call, delay, ghost>>

Here(g) == svc.alive /\ svc.gen = g

\* The death recipient: refused by an object that is dead already, and
\* nobody looks at the answer.
AddDeathRecipient(t) ==
  /\ ipc[t].at = "watch"
  /\ proxy' = [proxy EXCEPT !.watched = IF Here(proxy.gen) THEN @ \cup {proxy.gen} ELSE @]
  /\ ipc' = [ipc EXCEPT ![t].at = "send"]
  /\ UNCHANGED <<serviceVars, sub, call, delay, ghost>>

\* currentCallBackType_ is read when the request is written, not when the
\* call was made; a subscriber that was dropped meanwhile keeps its own.
SentFlags(t) == IF ipc[t].obj = sub.obj THEN sub.current ELSE ipc[t].flags

\* What the service answers to the operation of thread t.
Served(t) ==
  LET i == ipc[t]
  IN CASE i.op = "subscribe" -> SubscribeGate(proxy.app, SentFlags(t))
       [] i.op = "unsubscribe" -> UnsubscribeGate(proxy.app, SentFlags(t))
       [] OTHER -> Gate(i.op, proxy.app)

ServeSubscription(t, ok) ==
  LET i == ipc[t]
  IN cont' = CASE ok /\ i.op = "subscribe" -> AddHap(cont, i.obj, SentFlags(t))
               [] ok /\ i.op = "unsubscribe" -> RemoveHap(cont, i.obj, SentFlags(t))
               [] OTHER -> cont

\* Delays: an identifier is given, or taken back.
ServeDelay(t, ok) ==
  LET i == ipc[t]
  IN delay' = CASE ok /\ i.op = "RequestSuspendDelay" ->
                     [delay EXCEPT !.ids = @ + 1, !.active = @ \cup {<<delay.ids + 1, i.obj>>}]
                [] ok /\ i.op = "CancelSuspendDelay" ->
                     [delay EXCEPT !.active = {d \in @ : d[1] # i.obj}]
                [] OTHER -> delay

\* The queued call a request belongs to.
CallOf(t) == (IF t \in Workers THEN {t} ELSE IF ipc[t].op \in SyncOps THEN {ipc[t].obj} ELSE {})

MutSendKeepsLock(t) ==
  /\ ipc[t].at = "send"
  /\ IF Here(proxy.gen)
     THEN LET ans == Served(t)
          IN /\ ServeSubscription(t, ans = "none")
             /\ ServeDelay(t, ans = "none")
             /\ ghost' = [ghost EXCEPT !.served = IF ans = "none" THEN @ \cup CallOf(t) ELSE @]
             /\ ipc' = [ipc EXCEPT ![t] = [@ EXCEPT !.at = "reply", !.ans = ans, !.gen = proxy.gen,
                                                    !.id = delay.ids + 1]]
     ELSE /\ ipc' = [ipc EXCEPT ![t] = [@ EXCEPT !.at = "done", !.ans = "dead"]]
          /\ UNCHANGED <<cont, delay, ghost>>
  /\ UNCHANGED <<svc, tran, eff, watch, dying, nat, last, sub, call, proxy>>

\* The request reaches the process the proxy is of, or nobody.
Send(t) ==
  /\ ipc[t].at = "send"
  /\ IF Here(proxy.gen)
     THEN LET ans == Served(t)
          IN /\ ServeSubscription(t, ans = "none")
             /\ ServeDelay(t, ans = "none")
             /\ ghost' = [ghost EXCEPT !.served = IF ans = "none" THEN @ \cup CallOf(t) ELSE @]
             /\ ipc' = [ipc EXCEPT ![t] = [@ EXCEPT !.at = "reply", !.ans = ans, !.gen = proxy.gen,
                                                    !.id = delay.ids + 1]]
             /\ UNCHANGED proxy
     ELSE /\ ipc' = [ipc EXCEPT ![t] = [@ EXCEPT !.at = "done", !.ans = "dead"]]
          /\ proxy' = [proxy EXCEPT !.lock = "none"]
          /\ UNCHANGED <<cont, delay, ghost>>
  /\ UNCHANGED <<svc, tran, eff, watch, dying, nat, last, sub, call>>

\* The answer, which is lost when the process died after it served the call.
Reply(t) ==
  /\ ipc[t].at = "reply"
  /\ proxy' = [proxy EXCEPT !.lock = "none"]
  /\ ipc' = [ipc EXCEPT ![t] = [@ EXCEPT !.at = "done", !.ans = IF Here(ipc[t].gen) THEN ipc[t].ans ELSE "dead"]]
  /\ UNCHANGED <<serviceVars, sub, call, delay, ghost>>

\* OnRemoteDied of the proxy's recipient: the next call looks up again.
ResetBackgroundTaskManagerProxy(g) ==
  /\ g \in proxy.deaths
  /\ proxy.lock = "none"
  /\ proxy' = [proxy EXCEPT !.gen = 0, !.deaths = @ \ {g}]
  /\ UNCHANGED <<serviceVars, ipc, sub, call, delay, ghost>>

------------------------------------------------------------------------------
(* on() and off().  The JavaScript thread holds the bindings' mutex over    *)
(* the whole call, the listener does not take it.                           *)

JsIdle == ipc["js"].at = "idle"
Overlap(t) == IF ipc[t].at # "idle" /\ ipc[t].op \in {"subscribe", "unsubscribe"} THEN {"race"} ELSE {}
SetFlag(s, flag, isSubscriber) ==
  [s EXCEPT !.current = {flag}, !.all = IF isSubscriber THEN @ \cup {flag} ELSE @ \ {flag}]
IsEmpty == \A T \in Types : sub.obs[T] = {}

\* on(T, f), or subscribeContinuousTaskState(f): the first one makes the
\* subscriber, and the flag is noted before the service is asked.
SubscribeBackgroundTask(T, f) ==
  /\ JsIdle /\ sub.left > 0
  /\ sub.obj # 0 \/ sub.made < Cardinality(Objects)
  /\ LET o == IF sub.obj = 0 THEN sub.made + 1 ELSE sub.obj
         s == IF sub.obj = 0 THEN [sub EXCEPT !.obj = o, !.made = o, !.all = {}, !.need = FALSE] ELSE sub
     IN /\ sub' = [SetFlag(s, T, TRUE) EXCEPT !.type = T, !.cb = f, !.left = @ - 1]
        /\ Begin("js", "subscribe", {T}, o)
  /\ ghost' = [ghost EXCEPT !.faults = @ \cup Overlap("sa")]
  /\ UNCHANGED <<serviceVars, proxy, call, delay>>

\* The manager of abilities tells a new listener of an ability that is there.
SubscriberBgtaskSaStatusChange(s) ==
  IF s.listening THEN s
  ELSE [s EXCEPT !.listening = TRUE, !.notices = IF svc.published THEN <<"add">> ELSE <<>>]

\* The answer to on(): only a success keeps the function.
AddJsObserverObject ==
  /\ ipc["js"].at = "done" /\ ipc["js"].op = "subscribe"
  /\ LET s == [sub EXCEPT !.type = "none", !.cb = "none"]
     IN sub' = IF ipc["js"].ans # "none" THEN s
               ELSE SubscriberBgtaskSaStatusChange([s EXCEPT !.obs[sub.type] = @ \cup {sub.cb}])
  /\ ghost' = [ghost EXCEPT !.faults =
                 @ \cup (CASE ipc["js"].ans # "none" -> {"failedOn"}
                          [] ipc["js"].ans = "none" /\ ~Here(ipc["js"].gen) -> {"diedDuringOn"}
                          [] OTHER -> {})]
  /\ ipc' = [ipc EXCEPT !["js"] = Idle]
  /\ UNCHANGED <<serviceVars, proxy, call, delay>>

\* off(T, f), or off(T): the service is asked once the type has none left.
RemoveJsObserverObject(T, fs) ==
  /\ JsIdle /\ sub.left > 0
  /\ sub.obj # 0
  /\ LET s == [sub EXCEPT !.obs[T] = @ \ fs, !.left = @ - 1]
     IN IF s.obs[T] # {}
        THEN sub' = s /\ UNCHANGED <<ipc, ghost>>
        ELSE /\ sub' = SetFlag(s, T, FALSE)
             /\ Begin("js", "unsubscribe", {T}, sub.obj)
             /\ ghost' = [ghost EXCEPT !.faults = @ \cup Overlap("sa")]
  /\ UNCHANGED <<serviceVars, proxy, call, delay>>

\* The answer to off(): without functions the subscriber and its listener go.
UnSubscribeBackgroundTask ==
  /\ ipc["js"].at = "done" /\ ipc["js"].op = "unsubscribe"
  /\ IF ipc["js"].ans = "none" /\ IsEmpty
     THEN /\ sub' = [sub EXCEPT !.obj = 0, !.listening = FALSE, !.notices = <<>>]
          /\ ipc' = [ipc EXCEPT !["js"] = Idle,
                                !["sa"].flags = IF ipc["sa"].obj = sub.obj THEN sub.current ELSE @]
     ELSE /\ ipc' = [ipc EXCEPT !["js"] = Idle]
          /\ UNCHANGED sub
  /\ UNCHANGED <<serviceVars, proxy, call, delay, ghost>>

MutOnRemoveForgets ==
  /\ sub.notices # <<>> /\ Head(sub.notices) = "remove"
  /\ ipc["sa"].at = "idle"
  /\ sub' = [sub EXCEPT !.notices = Tail(@)]
  /\ UNCHANGED <<serviceVars, proxy, ipc, call, delay, ghost>>

\* The listener, told that the ability went away.
OnRemoveSystemAbility ==
  /\ sub.notices # <<>> /\ Head(sub.notices) = "remove"
  /\ ipc["sa"].at = "idle"
  /\ sub' = [sub EXCEPT !.notices = Tail(@), !.need = @ \/ (sub.obj # 0 /\ ~IsEmpty)]
  /\ UNCHANGED <<serviceVars, proxy, ipc, call, delay, ghost>>

\* ... and that it is back: everything is subscribed again in one call.
OnAddSystemAbility ==
  /\ sub.notices # <<>> /\ Head(sub.notices) = "add"
  /\ ipc["sa"].at = "idle"
  /\ IF sub.obj # 0 /\ sub.need
     THEN /\ sub' = [sub EXCEPT !.notices = Tail(@), !.current = sub.all]
          /\ Begin("sa", "subscribe", sub.all, sub.obj)
          /\ ghost' = [ghost EXCEPT !.faults = @ \cup Overlap("js")]
     ELSE sub' = [sub EXCEPT !.notices = Tail(@)] /\ UNCHANGED <<ipc, ghost>>
  /\ UNCHANGED <<serviceVars, proxy, call, delay>>

\* The attempt counts whatever its answer.
RestoreDone ==
  /\ ipc["sa"].at = "done"
  /\ sub' = IF ipc["sa"].obj = sub.obj THEN [sub EXCEPT !.need = FALSE] ELSE sub
  /\ ghost' = [ghost EXCEPT !.faults = IF ipc["sa"].ans # "none" THEN @ \cup {"restoreFailed"} ELSE @]
  /\ ipc' = [ipc EXCEPT !["sa"] = Idle]
  /\ UNCHANGED <<serviceVars, proxy, call, delay>>

------------------------------------------------------------------------------
(* Calls of the bindings.                                                   *)

\* The application calls; a refused call ends here.
IssueCall(w, c) ==
  LET o == Issue(c)
      now == o.queued /\ c.api \in SyncOps
  IN /\ JsIdle
     /\ call[w].at = "none"
     /\ call' = [call EXCEPT ![w] =
                   [at |-> IF now THEN "sync" ELSE IF o.queued THEN "queued" ELSE "refused",
                    api |-> c.api, form |-> c.form, throw |-> c.throw, err |-> o.err,
                    told |-> IF o.queued THEN "none" ELSE IF o.thrown THEN "thrown" ELSE "nothing",
                    block |-> o.block]]
     /\ IF now THEN Begin("js", c.api, {}, w) ELSE UNCHANGED ipc
     /\ UNCHANGED <<serviceVars, proxy, sub, delay, ghost>>

\* A worker takes the call: one that has its error already is not made.
Execute(w) ==
  /\ call[w].at = "queued"
  /\ IF call[w].err # "none"
     THEN call' = [call EXCEPT ![w].at = "executed"] /\ UNCHANGED ipc
     ELSE call' = [call EXCEPT ![w].at = "executing"] /\ Begin(w, call[w].api, {}, w)
  /\ UNCHANGED <<serviceVars, proxy, sub, delay, ghost>>

MutExecutedIgnoresAnswer(w) ==
  /\ call[w].at = "executing"
  /\ ipc[w].at = "done"
  /\ call' = [call EXCEPT ![w].at = "executed"]
  /\ ipc' = [ipc EXCEPT ![w] = Idle]
  /\ UNCHANGED <<serviceVars, proxy, sub, delay, ghost>>

Executed(w) ==
  /\ call[w].at = "executing"
  /\ ipc[w].at = "done"
  /\ call' = [call EXCEPT ![w] = [@ EXCEPT !.at = "executed", !.err = ipc[w].ans]]
  /\ ipc' = [ipc EXCEPT ![w] = Idle]
  /\ UNCHANGED <<serviceVars, proxy, sub, delay, ghost>>

\* Back on the JavaScript thread the promise is settled, or the function
\* called, and the block is freed.
CompletedCB(w) ==
  /\ JsIdle
  /\ call[w].at = "executed"
  /\ call' = [call EXCEPT ![w] = [@ EXCEPT !.at = "settled", !.block = "freed",
                                           !.told = IF call[w].err = "none" THEN "resolved" ELSE "rejected"]]
  /\ UNCHANGED <<serviceVars, proxy, ipc, sub, delay, ghost>>

\* A call that waited on the JavaScript thread throws its error.
SyncReturns(w) ==
  /\ call[w].at = "sync"
  /\ ipc["js"].at = "done"
  /\ call' = [call EXCEPT ![w] = [@ EXCEPT !.at = "settled", !.block = "freed", !.err = ipc["js"].ans,
                                           !.told = IF ipc["js"].ans = "none" THEN "resolved" ELSE "thrown"]]
  /\ ipc' = [ipc EXCEPT !["js"] = Idle]
  /\ UNCHANGED <<serviceVars, proxy, sub, delay, ghost>>

------------------------------------------------------------------------------
(* Suspension delays.                                                       *)

RequestSuspendDelay ==
  /\ JsIdle
  /\ delay.asked < MaxDelays
  /\ delay' = [delay EXCEPT !.asked = @ + 1]
  /\ Begin("js", "RequestSuspendDelay", {}, delay.asked + 1)
  /\ UNCHANGED <<serviceVars, proxy, sub, call, ghost>>

\* The callback is entered under the identifier the answer has, after an
\* error under the one of an empty answer, unless no proxy was found.  A new
\* service process counts from 1 again: an old entry may be overwritten.
RegisterCallback ==
  LET i == ipc["js"]
      id == IF i.ans = "none" THEN i.id ELSE -1
  IN /\ i.at = "done" /\ i.op = "RequestSuspendDelay"
     /\ IF i.ans = NotConnected THEN UNCHANGED <<delay, ghost>>
        ELSE /\ delay' = [delay EXCEPT !.registered = {p \in @ : p[1] # id} \cup {<<id, i.obj>>}]
             /\ ghost' = [ghost EXCEPT !.faults =
                            IF \E p \in delay.registered : p[1] = id THEN @ \cup {"reused"} ELSE @]
     /\ ipc' = [ipc EXCEPT !["js"] = Idle]
     /\ UNCHANGED <<serviceVars, proxy, sub, call>>

\* The application cancels what it was given.
CancelSuspendDelay(id) ==
  /\ JsIdle
  /\ \E p \in delay.registered : p[1] = id
  /\ Begin("js", "CancelSuspendDelay", {}, id)
  /\ UNCHANGED <<serviceVars, proxy, sub, call, delay, ghost>>

\* ... and taken out after a cancellation, whatever the service answered.
ForgetCallback ==
  LET i == ipc["js"]
  IN /\ i.at = "done" /\ i.op = "CancelSuspendDelay"
     /\ delay' = [delay EXCEPT !.registered = {p \in @ : p[1] # i.obj},
                               !.cancelled = @ \cup {p[2] : p \in {q \in delay.registered : q[1] = i.obj}}]
     /\ ipc' = [ipc EXCEPT !["js"] = Idle]
     /\ UNCHANGED <<serviceVars, proxy, sub, call, ghost>>

\* The transient manager lets the time of a request run out.
HandleRequestExpired(d) ==
  /\ d \in delay.active
  /\ delay' = [delay EXCEPT !.active = @ \ {d}, !.expired = @ \cup {d[2]}]
  /\ UNCHANGED <<serviceVars, proxy, ipc, sub, call, ghost>>

Known(k) == \E p \in delay.registered : p[2] = k

MutOnExpiredErases(k) ==
  /\ k \in delay.expired
  /\ delay' = [delay EXCEPT !.expired = @ \ {k}, !.registered = {p \in @ : p[2] # k}]
  /\ UNCHANGED <<serviceVars, proxy, ipc, sub, call, ghost>>

\* The notice arrives on a binder thread: a callback that is not entered is
\* not told; one whose event the JavaScript thread refuses is taken out.
OnExpired(k) ==
  /\ k \in delay.expired
  /\ \/ /\ ~Known(k)
        /\ delay' = [delay EXCEPT !.expired = @ \ {k}]
        /\ UNCHANGED ghost
     \/ /\ Known(k)
        /\ delay' = [delay EXCEPT !.expired = @ \ {k}, !.jsq = @ \cup {k}]
        /\ UNCHANGED ghost
     \/ /\ Known(k)
        /\ delay' = [delay EXCEPT !.expired = @ \ {k}, !.registered = {p \in @ : p[2] # k}]
        /\ ghost' = [ghost EXCEPT !.faults = @ \cup {"unsent"}]
  /\ UNCHANGED <<serviceVars, proxy, ipc, sub, call>>

\* The application's function runs, then its entry goes.
RunExpired(k) ==
  /\ JsIdle
  /\ k \in delay.jsq
  /\ delay' = [delay EXCEPT !.jsq = @ \ {k}, !.told = @ \cup {k}, !.registered = {p \in @ : p[2] # k}]
  /\ UNCHANGED <<serviceVars, proxy, ipc, sub, call, ghost>>

------------------------------------------------------------------------------
(* The life of the service, as the application meets it.                    *)

Starts == OnStart /\ UNCHANGED clientVars

Readies(m, accepted) ==
  /\ m \notin svc.ready
  /\ SetReady(m, accepted)
  /\ sub' = IF svc'.published /\ sub.listening THEN [sub EXCEPT !.notices = Append(@, "add")] ELSE sub
  /\ UNCHANGED <<proxy, ipc, call, delay, ghost>>

Dies ==
  /\ ServiceDies
  /\ proxy' = [proxy EXCEPT !.deaths = @ \cup (proxy.watched \cap {svc.gen}), !.watched = @ \ {svc.gen}]
  /\ sub' = IF svc.published /\ sub.listening THEN [sub EXCEPT !.notices = Append(@, "remove")] ELSE sub
  /\ delay' = [delay EXCEPT !.active = {}, !.ids = 0]
  /\ UNCHANGED <<ipc, call, ghost>>

LifeNext ==
  \/ Starts
  \/ \E m \in Managers, accepted \in BOOLEAN : Readies(m, accepted)
  \/ Dies

ThreadNext(t) ==
  \/ GetBackgroundTaskManagerProxy(t)
  \/ AddDeathRecipient(t)
  \/ Send(t)
  \/ Reply(t)

SubNext ==
  \/ \E T \in Types, f \in Callbacks : SubscribeBackgroundTask(T, f)
  \/ \E T \in Types, fs \in {{f} : f \in Callbacks} \cup {Callbacks} : RemoveJsObserverObject(T, fs)
  \/ AddJsObserverObject
  \/ UnSubscribeBackgroundTask
  \/ OnRemoveSystemAbility
  \/ OnAddSystemAbility
  \/ RestoreDone

CallNext ==
  \E w \in Workers :
    \/ \E c \in Calls : IssueCall(w, c)
    \/ Execute(w)
    \/ Executed(w)
    \/ CompletedCB(w)
    \/ SyncReturns(w)

DelayNext ==
  \/ RequestSuspendDelay
  \/ RegisterCallback
  \/ \E id \in 1..MaxDelays : CancelSuspendDelay(id)
  \/ ForgetCallback
  \/ \E d \in delay.active : HandleRequestExpired(d)
  \/ \E k \in delay.expired : OnExpired(k)
  \/ \E k \in delay.jsq : RunExpired(k)

ProxyNext ==
  \/ \E t \in Threads : ThreadNext(t)
  \/ \E g \in proxy.deaths : ResetBackgroundTaskManagerProxy(g)

OperationNext == \E op \in Operations, c \in Callers : NativeOperation(op, c)

Next ==
  \/ LifeNext
  \/ NativeNext /\ UNCHANGED clientVars
  \/ OperationNext /\ UNCHANGED clientVars
  \/ ProxyNext
  \/ SubNext
  \/ CallNext
  \/ DelayNext

Spec == Init /\ [][Next]_vars

------------------------------------------------------------------------------
(* Properties.                                                              *)

Quiet == \A t \in Threads : ipc[t].at = "idle"

(***************************************************************************)
(* Once nothing is under way, every type the application has a function    *)
(* for is registered with the service that runs now, across restarts of    *)
(* it, and the service has no flag the application gave back and no entry  *)
(* of a subscriber object it dropped.  Three events can lose a             *)
(* registration: the listener and the JavaScript thread meet in            *)
(* currentCallBackType_, the attempt to restore fails, the service dies    *)
(* between its answer to on() and the entry of the function.  A failed     *)
(* on() keeps its flag in allCallBackTypes_, from where a restore may      *)
(* bring it to the service.  (js_backgroundtask_subscriber.cpp:39-80,      *)
(* bg_continuous_task_napi_module.cpp:1229-1329,                           *)
(* bg_continuous_task_mgr.cpp:2316-2384)                                   *)
(***************************************************************************)
SubscriptionsAgree ==
  Quiet /\ svc.published =>
    /\ sub.obj # 0 /\ sub.notices = <<>> /\ ghost.faults \subseteq {"failedOn"}
       => \A T \in Types : sub.obs[T] # {} => T \in cont[sub.obj]
    /\ ghost.faults \subseteq {"restoreFailed", "diedDuringOn"}
       => \A o \in Objects : cont[o] \subseteq (IF o = sub.obj THEN sub.all \cup {"HAP"} ELSE {})

(***************************************************************************)
(* What the application is told about a call is true: resolved means the   *)
(* service let the operation through, and any error but that of a process  *)
(* that died on the way means it did not.                                  *)
(***************************************************************************)
AnswersTrue ==
  \A w \in Workers : call[w].at = "settled" =>
    /\ call[w].err = "none" => w \in ghost.served
    /\ call[w].err \notin {"none", "dead"} => w \notin ghost.served
    /\ (call[w].told = "resolved") = (call[w].err = "none")

(***************************************************************************)
(* A call that is over has left nothing behind: its block is freed, and    *)
(* the module of today has thrown what it refused.  The exceptions are a   *)
(* malformed object given to isModeSupported, refused silently, and a      *)
(* refused start with a request object, whose block is forgotten           *)
(* (StartBackgroundRunningSubmit answers it like a queued one).            *)
(* (bg_continuous_task_napi_module.cpp:313-507, 1538-1551)                 *)
(***************************************************************************)
CallsEndCleanly ==
  \A w \in Workers :
    /\ call[w].at = "settled" => call[w].block = "freed"
    /\ call[w].at = "refused" =>
         /\ call[w].block = "freed" \/ (call[w].api = "StartBackgroundRunning" /\ call[w].form = "request")
         /\ call[w].throw => call[w].told = "thrown" \/ (call[w].api = "IsModeSupported" /\ call[w].err = "object")

Registries == {"cont", "tran", "eff"}
Registered(m, n) ==
  \/ m = "cont" /\ cont[n] # {}
  \/ m = "tran" /\ n \in tran
  \/ m = "eff" /\ n \in eff

(***************************************************************************)
(* The three managers know the same subscribing services: a live one in    *)
(* all three registries, each with its death recipient, or in none; a dead *)
(* one in none, unless it died inside its own call.                        *)
(* (background_task_mgr_service.cpp:411-486)                               *)
(***************************************************************************)
RegistriesAgree ==
  \A n \in Natives :
    (nat[n].at = "idle" /\ \A m \in Registries : <<m, n>> \notin dying)
    => LET in == {m \in Registries : Registered(m, n)}
       IN IF nat[n].alive THEN in \in {{}, Registries} /\ in = {m \in Registries : <<m, n>> \in watch}
          ELSE ~nat[n].late => in = {}

(***************************************************************************)
(* Operations on the tasks and the decisions of other applications are let *)
(* through to the scheduler's service or to a system application only, and *)
(* the tasks of everybody are listed for services only.                    *)
(* (background_task_mgr_service.cpp:557-589, 716-832)                      *)
(***************************************************************************)
OthersTasksGuarded ==
  /\ (last.op \in SchedulerOps \cup ReportOps \cup ConfigOps \cup StateOps \cup {"GetAllContinuousTasksBySystem"}
      /\ last.ans = "none")
     => (last.caller.kind # "hap" /\ last.caller.rss) \/ (last.caller.kind = "hap" /\ last.caller.system)
  /\ last.scope = "all" => last.caller.kind # "hap"

(***************************************************************************)
(* A queued call is settled, whatever becomes of the service.              *)
(***************************************************************************)
CallsSettle == \A w \in Workers : call[w].at \in {"queued", "sync"} ~> call[w].at = "settled"

(***************************************************************************)
(* A delay that ran out while its callback is entered reaches the          *)
(* application's function, unless the event was refused, the application   *)
(* cancelled first, or a delay of a restarted service took over the entry  *)
(* under the same identifier.  (request_suspend_delay.cpp:72-117)          *)
(***************************************************************************)
DelayTold ==
  \A k \in 1..MaxDelays :
    (k \in delay.expired /\ Known(k)) ~> (k \in delay.told \cup delay.cancelled \/ ghost.faults # {})
=============================================================================
