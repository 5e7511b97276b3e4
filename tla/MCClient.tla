------------------------------ MODULE MCClient ------------------------------
(***************************************************************************)
(* The client and the service, one part of their interplay at a time: the  *)
(* scene of a behaviour is chosen at its start.                            *)
(***************************************************************************)
EXTENDS TaskClient, TLC

CONSTANTS n1, n2, f1, f2, Scenes

VARIABLE scene

MCObjects == 1..2
MCWorkers == {"w1", "w2"}
MCApps == {Hap(FALSE, FALSE, {"BGMODE"}), Hap(FALSE, TRUE, {"BGMODE", "GET_INFO"})}
MCOperations == Forwarded \ SubscriptionCalls
MCCallers ==
  {Native(rss) : rss \in BOOLEAN}
  \cup {[Native(rss) EXCEPT !.kind = "shell"] : rss \in BOOLEAN}
  \cup {Hap(atomic, system, perms) : atomic \in BOOLEAN, system \in BOOLEAN,
                                     perms \in SUBSET {"BGMODE", "GET_INFO", "SET_STATE"}}

Problems == {"number", "context", "info", "token", "mode", "range", "agentType", "agentNull", "suspended",
             "taskModes", "taskSubmodes", "taskAgent", "requestTaskId", "progressObject", "title", "fileName",
             "progressRange", "modes", "taskId", "callback", "requestId", "illegalId", "object", "userId",
             "appIndex", "bundleName", "authResult", "progress"}
Call(api, form, bad, throw) == [api |-> api, form |-> form, bad |-> bad, throw |-> throw]
Wrong == {{}} \cup {{p} : p \in Problems}
MCCalls ==
  {Call(api, form, bad, throw) :
     api \in {"StartBackgroundRunning", "StopBackgroundRunning"}, form \in Forms, bad \in Wrong, throw \in BOOLEAN}
  \cup {Call(api, form, bad, TRUE) : api \in {"UpdateBackgroundRunning"}, form \in {"promise", "request"}, bad \in Wrong}
  \cup {Call(api, "promise", bad, TRUE) :
          api \in {"GetAllContinuousTasks", "CheckSpecialScenarioAuth", "GetAllContinuousTasksBySystem",
                   "IsModeSupported", "SetBackgroundTaskState", "GetBackgroundTaskState",
                   "UpdateDataTransferProgress", "GetRemainingDelayTime", "GetAllTransientTasks",
                   "GetAllEfficiencyResources"}, bad \in Wrong}

\* What is wrong with a call is found before the service matters: such calls
\* are made before it starts.  Two calls of one behaviour are told apart by
\* what they ask, not by the worker that carries them.
GoodCalls ==
  {Call(api, "promise", {}, TRUE) : api \in {"StartBackgroundRunning", "GetAllContinuousTasksBySystem",
                                             "IsModeSupported", "GetBackgroundTaskState"}}
SecondCalls == {c \in GoodCalls : c.api \in {"GetAllContinuousTasksBySystem", "GetBackgroundTaskState"}}
FirstCalls == IF svc.gen = 0 THEN Calls ELSE GoodCalls
IsGood(k) == k.at \notin {"none", "refused"} /\ k.err \notin Problems \cup {"request"} /\ \E c \in GoodCalls : c.api = k.api /\ c.form = k.form

MCInit ==
  /\ Init
  /\ scene \in Scenes
  /\ scene # "subs" => proxy.app.system

\* Outside the scene of the natives the managers become ready in one order.
ReadyInOrder ==
  \/ scene = "natives"
  \/ /\ svc'.ready \in {{}, {"TRANSIENT"}, {"TRANSIENT", "EFFICIENCY"}, Managers}
     /\ svc'.ready = Managers => svc'.published

MCCallNext ==
  \/ \E c \in FirstCalls : IssueCall("w1", c)
  \/ \E c \in SecondCalls : IsGood(call["w1"]) /\ IssueCall("w2", c)
  \/ \E w \in Workers :
    \/ Execute(w)
    \/ Executed(w)
    \/ CompletedCB(w)
    \/ SyncReturns(w)

MCNext ==
  /\ \/ LifeNext /\ ReadyInOrder /\ (scene = "gates" => svc'.alive)
     \/ scene = "natives" /\ NativeNext /\ UNCHANGED clientVars
     \/ scene = "gates" /\ last.op = "none" /\ OperationNext /\ UNCHANGED clientVars
     \/ scene \in {"subs", "calls", "delays"} /\ ProxyNext
     \/ scene = "subs" /\ SubNext
     \/ scene = "calls" /\ MCCallNext
     \/ scene = "delays" /\ DelayNext
  /\ UNCHANGED scene

(***************************************************************************)
(* Fairness: as long as a thread of the application has something to do,   *)
(* one of them does it: the mutex is handed on, the notices of binder are  *)
(* delivered, the JavaScript thread returns to its event loop.  New calls  *)
(* of the application and the life of the service are owed nothing.        *)
(***************************************************************************)
SystemNext ==
  \/ \E t \in Threads : ThreadNext(t)
  \/ \E w \in Workers : Execute(w) \/ Executed(w) \/ SyncReturns(w) \/ CompletedCB(w)
  \/ RegisterCallback \/ ForgetCallback
  \/ \E k \in 1..MaxDelays : OnExpired(k) \/ RunExpired(k)

MCSpec == MCInit /\ [][MCNext]_<<vars, scene>> /\ WF_<<vars, scene>>(SystemNext /\ UNCHANGED scene)
=============================================================================
