----------------------------- MODULE TaskService -----------------------------
(***************************************************************************)
(* The system ability itself: how a service process becomes ready and is   *)
(* published, what every operation asks of its caller before a manager     *)
(* sees it, and how a subscription is spread over the registries of the    *)
(* three managers.  The managers' own state machines are TransientTask,    *)
(* ContinuousTask, ContinuousAuth and EfficiencyResources.                 *)
(***************************************************************************)
EXTENDS Naturals, FiniteSets

CONSTANTS Natives,   \* processes of other system services that subscribe
          Objects,   \* numbers of the remote objects of the application
          MaxGen     \* bound on the service processes of a behaviour

\* Remote objects are numbered in the order they are made.
ASSUME SubscribersAssumption ==
  /\ Natives \cap Objects = {}
  /\ Cardinality(Objects) \in Nat /\ Objects = 1 .. Cardinality(Objects)
  /\ MaxGen \in Nat

(***************************************************************************)
(* A caller is [kind, rss, atomic, system, perms]: the type of its token,  *)
(* whether its uid is the scheduler's, whether it is an atomic service, a  *)
(* system application, and the permissions it holds.                       *)
(***************************************************************************)
Native(rss) == [kind |-> "native", rss |-> rss, atomic |-> FALSE, system |-> FALSE, perms |-> {}]
Hap(atomic, system, perms) ==
  [kind |-> "hap", rss |-> FALSE, atomic |-> atomic, system |-> system, perms |-> perms]

Flags == {"CANCEL", "SUSPEND", "ACTIVE", "STATE"}
Managers == {"TRANSIENT", "EFFICIENCY", "CONTINUOUS"}
Subscribers == Natives \cup Objects

VARIABLES svc,      \* [gen, alive, ready, published, running]: the service process
          cont,     \* bgTaskSubscribers_ of the continuous manager: flags per subscriber
          tran,     \* subscriberList_ of the transient manager
          eff,      \* subscriberList_ of the resource manager
          watch,    \* <<manager, native>>: death recipients the managers registered
          dying,    \* <<manager, native>>: death notices on their way
          nat,      \* the subscription call of each native, [alive, at, op, ans, late]
          last      \* the latest gated call of a native, [op, caller, ans, scope]

serviceVars == <<svc, cont, tran, eff, watch, dying, nat, last>>

NoProcess == [gen |-> 0, alive |-> FALSE, ready |-> {}, published |-> FALSE, running |-> FALSE]

ServiceInit ==
  /\ svc = NoProcess
  /\ cont = [s \in Subscribers |-> {}]
  /\ tran = {}
  /\ eff = {}
  /\ watch = {}
  /\ dying = {}
  /\ nat = [n \in Natives |-> [alive |-> TRUE, at |-> "idle", op |-> "none", ans |-> "none", late |-> FALSE]]
  /\ last = [op |-> "none", caller |-> Native(FALSE), ans |-> "none", scope |-> "none"]

------------------------------------------------------------------------------
(* What an operation asks of its caller: "none" lets the call through.     *)

CheckCallingToken(c) == c.kind \in {"native", "shell"}
CheckCallingProcess(c) == c.rss
CheckAtomicService(c) == c.atomic
CheckHapCalling(c, flags) == c.kind = "hap" /\ (flags = {"STATE"} \/ "BGMODE" \in c.perms)

Denied == "denied"
NotSystem == "not_system"
NotConnected == "not_connected"
NotReady == "not_ready"

\* Applying for and reading delays: atomic services may not apply.
TransientGate(op, c) == IF op = "RequestSuspendDelay" /\ CheckAtomicService(c) THEN Denied ELSE "none"

\* Start and update: an atomic service is limited to three modes.
RunningGate(c, modes) ==
  IF CheckAtomicService(c) /\ ~(modes \subseteq {"AUDIO_PLAYBACK", "MULTI_DEVICE_CONNECTION", "LOCATION"})
  THEN Denied ELSE "none"

\* The tasks of a uid: any service, or the uid itself.
InnerQueryGate(c, own) == IF ~CheckCallingToken(c) /\ ~own THEN Denied ELSE "none"

\* Stop and the two listings of one's own tasks are open to everybody.
OwnGate(c) == "none"

ProgressGate(c) == IF CheckAtomicService(c) THEN Denied ELSE "none"
TransientAppsGate(c) == IF ~CheckCallingToken(c) THEN Denied ELSE "none"
ResourceInfosGate(c) == IF ~CheckCallingToken(c) THEN Denied ELSE "none"

\* A caller without a service's token is answered about its own uid only.
ContinuousAppsScope(op, c) == IF op # "GetContinuousTaskApps" THEN "none" ELSE IF CheckCallingToken(c) THEN "all" ELSE "own"

SchedulerGate(c) == IF ~CheckCallingToken(c) \/ ~CheckCallingProcess(c) THEN Denied ELSE "none"
SessionGate(c) == IF ~CheckCallingToken(c) THEN Denied ELSE "none"
AudioGate(c) == SchedulerGate(c)
ModeGate(c) == IF CheckAtomicService(c) THEN Denied ELSE "none"
ConfigGate(c) == SchedulerGate(c)
BgTaskConfigGate(c) == IF ~CheckCallingToken(c) THEN Denied ELSE "none"

\* Asking the user: applications only, with a known interface version.
AuthRequestGate(c, version) ==
  CASE CheckAtomicService(c) \/ c.kind # "hap" -> Denied
    [] ~(version \in {"banner", "dialog"}) -> "api_version"
    [] OTHER -> "none"

AuthCheckGate(c) == SchedulerGate(c)

\* Reading and writing the user's decision, and the listing for Settings.
StateGate(c, perm) ==
  CASE CheckAtomicService(c) \/ c.kind # "hap" \/ ~(perm \in c.perms) -> Denied
    [] ~c.system -> NotSystem
    [] OTHER -> "none"
TaskStateGate(c) == StateGate(c, "SET_STATE")
SystemListGate(c) == StateGate(c, "GET_INFO")

MutReportGateAnyService(c) == IF ~CheckCallingToken(c) THEN Denied ELSE "none"

ReportGate(c) == SchedulerGate(c)

RemoveAuthGate(c) == IF c.kind # "hap" THEN Denied ELSE "none"

SchedulerOps == {"StopContinuousTask", "SuspendContinuousTask", "ActiveContinuousTask"}
ReportOps == {"SetSpecialExemptedProcess", "GetAllContinuousTaskApps", "SendNotificationByDeteTask"}
ConfigOps == {"SetSupportedTaskKeepingProcesses", "SetMaliciousAppConfig"}
AuthOps == {"RequestAuthFromUser", "CheckSpecialScenarioAuth"}
StateOps == {"SetBackgroundTaskState", "GetBackgroundTaskState"}

\* The answer of operation op to caller c before a manager is involved.
Gate(op, c) ==
  CASE op \in {"RequestSuspendDelay", "CancelSuspendDelay", "GetRemainingDelayTime",
               "GetAllTransientTasks"} -> TransientGate(op, c)
    [] op \in {"StartBackgroundRunning", "UpdateBackgroundRunning"} -> RunningGate(c, {"LOCATION", "VOIP"})
    [] op \in {"StopBackgroundRunning", "GetAllContinuousTasks"} -> OwnGate(c)
    [] op = "GetContinuousTasksByUid" -> InnerQueryGate(c, FALSE)
    [] op = "UpdateDataTransferProgress" -> ProgressGate(c)
    [] op = "GetTransientTaskApps" -> TransientAppsGate(c)
    [] op = "GetEfficiencyResourcesInfos" -> ResourceInfosGate(c)
    [] op \in SchedulerOps -> SchedulerGate(c)
    [] op = "AVSessionNotifyUpdateNotification" -> SessionGate(c)
    [] op = "SuspendContinuousAudioTask" -> AudioGate(c)
    [] op = "IsModeSupported" -> ModeGate(c)
    [] op \in ConfigOps -> ConfigGate(c)
    [] op = "SetBgTaskConfig" -> BgTaskConfigGate(c)
    [] op \in AuthOps -> AuthRequestGate(c, "dialog")
    [] op \in {"CheckTaskAuthResult", "EnableContinuousTaskRequest"} -> AuthCheckGate(c)
    [] op \in StateOps -> TaskStateGate(c)
    [] op = "GetAllContinuousTasksBySystem" -> SystemListGate(c)
    [] op \in ReportOps -> ReportGate(c)
    [] op = "RemoveAuthRecord" -> RemoveAuthGate(c)
    [] OTHER -> "none"

\* What SubscribeBackgroundTask and UnsubscribeBackgroundTask ask.
SubscribeGate(c, flags) ==
  CASE ~CheckCallingToken(c) /\ ~CheckHapCalling(c, flags) -> Denied
    [] c.kind = "hap" /\ flags = {"STATE"} /\ CheckAtomicService(c) -> Denied
    [] c.kind = "hap" /\ flags = {"STATE"} /\ ~c.system -> NotSystem
    [] c.kind = "hap" /\ flags = {"STATE"} /\ ~("GET_INFO" \in c.perms) -> Denied
    [] OTHER -> "none"
UnsubscribeGate(c, flags) == SubscribeGate(c, flags)

------------------------------------------------------------------------------
(* The life of a service process.                                           *)

\* A process is started and OnStart sets its managers up.
OnStart ==
  /\ ~svc.alive
  /\ svc.gen < MaxGen
  /\ svc' = [NoProcess EXCEPT !.gen = svc.gen + 1, !.alive = TRUE]
  /\ UNCHANGED <<cont, tran, eff, watch, dying, nat, last>>

\* Manager m has found the services it depends on.  The last one publishes
\* the ability; a refused publication is not tried again.
SetReady(m, accepted) ==
  LET ready == svc.ready \cup {m}
      all == svc.ready # Managers /\ ready = Managers
  IN /\ svc.alive
     /\ svc' = [svc EXCEPT !.ready = ready,
                           !.published = @ \/ (all /\ accepted),
                           !.running = @ \/ (all /\ accepted)]
     /\ UNCHANGED <<cont, tran, eff, watch, dying, nat, last>>

\* The process dies: its registries and its death recipients go with it, and
\* the calls it was serving fail.
ServiceDies ==
  /\ svc.alive
  /\ svc' = [NoProcess EXCEPT !.gen = svc.gen]
  /\ cont' = [s \in Subscribers |-> {}]
  /\ tran' = {}
  /\ eff' = {}
  /\ watch' = {}
  /\ dying' = {}
  /\ nat' = [n \in Natives |-> [nat[n] EXCEPT !.at = "idle", !.op = "none", !.ans = "none",
                                                   !.late = FALSE]]
  /\ UNCHANGED last

------------------------------------------------------------------------------
(* Subscriptions of other system services.                                  *)

Watched(m, n) == IF nat[n].alive THEN watch \cup {<<m, n>>} ELSE watch

\* A native asks to be told, or not to be told any more.
NativeCalls(n, op) ==
  /\ svc.published
  /\ nat[n].alive
  /\ nat[n].at = "idle"
  /\ SubscribeGate(Native(FALSE), {}) = "none"
  /\ nat' = [nat EXCEPT ![n] = [@ EXCEPT !.at = "cont", !.op = op, !.ans = "none"]]
  /\ UNCHANGED <<svc, cont, tran, eff, watch, dying, last>>

\* The continuous manager: the flag of a service is not looked at.
AddSubscriber(n) ==
  /\ nat[n].at = "cont" /\ nat[n].op = "subscribe"
  /\ IF cont[n] = {}
     THEN cont' = [cont EXCEPT ![n] = {"SA"}] /\ watch' = Watched("cont", n)
     ELSE UNCHANGED <<cont, watch>>
  /\ nat' = [nat EXCEPT ![n].at = "tran"]
  /\ UNCHANGED <<svc, tran, eff, dying, last>>

RemoveSubscriber(n) ==
  /\ nat[n].at = "cont" /\ nat[n].op = "unsubscribe"
  /\ cont' = [cont EXCEPT ![n] = {}]
  /\ watch' = watch \ {<<"cont", n>>}
  /\ nat' = [nat EXCEPT ![n].at = "tran"]
  /\ UNCHANGED <<svc, tran, eff, dying, last>>

MutTransientSubscribeUnwatched(n) ==
  /\ nat[n].at = "tran" /\ nat[n].op = "subscribe"
  /\ tran' = tran \cup {n}
  /\ nat' = [nat EXCEPT ![n].at = "eff"]
  /\ UNCHANGED <<svc, cont, eff, watch, dying, last>>

\* The transient manager ignores a subscriber it knows and one it does not.
TransientSubscribe(n) ==
  /\ nat[n].at = "tran" /\ nat[n].op = "subscribe"
  /\ tran' = tran \cup {n}
  /\ watch' = IF n \in tran THEN watch ELSE Watched("tran", n)
  /\ nat' = [nat EXCEPT ![n].at = "eff"]
  /\ UNCHANGED <<svc, cont, eff, dying, last>>

TransientUnsubscribe(n) ==
  /\ nat[n].at = "tran" /\ nat[n].op = "unsubscribe"
  /\ tran' = tran \ {n}
  /\ watch' = watch \ {<<"tran", n>>}
  /\ nat' = [nat EXCEPT ![n].at = "eff"]
  /\ UNCHANGED <<svc, cont, eff, dying, last>>

\* The resource manager reports only the removal of an unknown subscriber,
\* which the service turns into "not ready".
EfficiencyAddSubscriber(n) ==
  /\ nat[n].at = "eff" /\ nat[n].op = "subscribe"
  /\ eff' = eff \cup {n}
  /\ watch' = IF n \in eff THEN watch ELSE Watched("eff", n)
  /\ nat' = [nat EXCEPT ![n] = [@ EXCEPT !.at = "idle", !.ans = "ok"]]
  /\ UNCHANGED <<svc, cont, tran, dying, last>>

EfficiencyRemoveSubscriber(n) ==
  /\ nat[n].at = "eff" /\ nat[n].op = "unsubscribe"
  /\ eff' = eff \ {n}
  /\ watch' = watch \ {<<"eff", n>>}
  /\ nat' = [nat EXCEPT ![n] = [@ EXCEPT !.at = "idle", !.ans = IF n \in eff THEN "ok" ELSE NotReady]]
  /\ UNCHANGED <<svc, cont, tran, dying, last>>

\* A native dies: each manager that watches it is told on its own.  late
\* marks one that died while the service worked on its call.
NativeDies(n) ==
  /\ nat[n].alive
  /\ nat' = [nat EXCEPT ![n] = [@ EXCEPT !.alive = FALSE, !.late = nat[n].at # "idle"]]
  /\ dying' = dying \cup {w \in watch : w[2] = n}
  /\ watch' = {w \in watch : w[2] # n}
  /\ UNCHANGED <<svc, cont, tran, eff, last>>

OnRemoteSubscriberDied(n) ==
  /\ <<"cont", n>> \in dying
  /\ dying' = dying \ {<<"cont", n>>}
  /\ cont' = [cont EXCEPT ![n] = {}]
  /\ UNCHANGED <<svc, tran, eff, watch, nat, last>>

HandleSubscriberDeath(n) ==
  /\ <<"tran", n>> \in dying
  /\ dying' = dying \ {<<"tran", n>>}
  /\ tran' = tran \ {n}
  /\ UNCHANGED <<svc, cont, eff, watch, nat, last>>

EfficiencySubscriberDied(n) ==
  /\ <<"eff", n>> \in dying
  /\ dying' = dying \ {<<"eff", n>>}
  /\ eff' = eff \ {n}
  /\ UNCHANGED <<svc, cont, tran, watch, nat, last>>

\* Any other operation, called by a process that is not the application.
NativeOperation(op, c) ==
  /\ svc.published
  /\ last' = [op |-> op, caller |-> c, ans |-> Gate(op, c), scope |-> ContinuousAppsScope(op, c)]
  /\ UNCHANGED <<svc, cont, tran, eff, watch, dying, nat>>

NativeNext ==
  \E n \in Natives :
    \/ \E op \in {"subscribe", "unsubscribe"} : NativeCalls(n, op)
    \/ AddSubscriber(n)
    \/ RemoveSubscriber(n)
    \/ TransientSubscribe(n)
    \/ TransientUnsubscribe(n)
    \/ EfficiencyAddSubscriber(n)
    \/ EfficiencyRemoveSubscriber(n)
    \/ NativeDies(n)
    \/ OnRemoteSubscriberDied(n)
    \/ HandleSubscriberDeath(n)
    \/ EfficiencySubscriberDied(n)

------------------------------------------------------------------------------
\* Applications are known to the continuous manager only.  One stays in its
\* list, here as the mark "HAP", for as long as it has a flag left.
AddHap(r, o, flags) == [r EXCEPT ![o] = @ \cup flags \cup {"HAP"}]
RemoveHap(r, o, flags) == [r EXCEPT ![o] = IF @ \ flags \subseteq {"HAP"} THEN {} ELSE @ \ flags]
==============================================================================
