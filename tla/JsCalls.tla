------------------------------- MODULE JsCalls -------------------------------
(***************************************************************************)
(* What the JavaScript bindings do with a call before it reaches the       *)
(* service: the order in which each entry point looks at its arguments,    *)
(* which of them it refuses, whether the refusal is thrown, and what       *)
(* becomes of the block of memory that carries the call to its worker.     *)
(*                                                                         *)
(* The arguments of a call are abstracted to the set "bad" of what is      *)
(* wrong with them; "throw" tells the module of today, whose refusals are  *)
(* exceptions, from the old one.                                           *)
(***************************************************************************)
EXTENDS Naturals, Sequences, FiniteSetsExt

\* The first thing of order that is wrong, "none" when nothing is.
First(bad, order) ==
  LET hits == {i \in DOMAIN order : order[i] \in bad}
  IN IF hits = {} THEN "none" ELSE order[Min(hits)]

(***************************************************************************)
(* The outcome of an entry point: the call is queued for a worker, with    *)
(* the error it already has, or it is refused.  A refused call is thrown   *)
(* or silent, and its block is freed or forgotten.                         *)
(***************************************************************************)
Queue(err) == [queued |-> TRUE, err |-> err, thrown |-> FALSE, block |-> "worker"]
Refuse(err, thrown, block) == [queued |-> FALSE, err |-> err, thrown |-> thrown, block |-> block]

\* Parameter errors are thrown by the module of today only.
HandleParamErr(err, throw) == throw
\* Errors of the service and of a request object are thrown by both.
HandleErrCode(err) == TRUE

------------------------------------------------------------------------------
(* The checks, each the order of its function.                              *)

GetAbilityContext(bad) == First(bad, <<"context">>)
CheckBackgroundMode(bad) == First(bad, <<"range">>)
StartBackgroundRunningCheckParam(bad) == First(bad, <<"info", "token", "range">>)
GetBackgroundMode(bad) == First(bad, <<"mode">>)
GetWantAgent(bad) == First(bad, <<"agentType", "agentNull">>)
GetIncludeSuspended(bad) == First(bad, <<"suspended">>)
GetAllContinuousTasksCheckParamBeforeSubmit(bad) == First(bad, <<"number", "context", "suspended">>)
StartBackgroundRunningCheckParamBeforeSubmit(bad) ==
  First(bad, <<"context", "mode", "agentType", "agentNull">>)

\* The parts of a request object.  Lists must be arrays of numbers from 0 up,
\* a progress is optional and its value must be in range.
GetBackgroundTaskModesProperty(bad) == ~("taskModes" \in bad)
GetBackgroundTaskSubmodesProperty(bad) == ~("taskSubmodes" \in bad)
GetWantAgentProperty(bad) == ~("taskAgent" \in bad)
GetprogressInfo(bad) == First(bad, <<"progressObject", "title", "fileName", "progressRange">>) = "none"
GetContinuousTaskRequest(bad) ==
  /\ GetBackgroundTaskModesProperty(bad)
  /\ GetBackgroundTaskSubmodesProperty(bad)
  /\ GetWantAgentProperty(bad)
  /\ ~("requestTaskId" \in bad)
  /\ GetprogressInfo(bad)

StartBackgroundRunningCheckRequest(bad) ==
  LET asked == IF GetContinuousTaskRequest(bad) THEN bad ELSE bad \cup {"request"}
  IN First(asked, <<"context", "info", "request", "modes">>)
UpdateBackgroundRunningCheckParam(bad) == First(bad, <<"context", "mode">>)
StopBackgroundRunningCheckParam(bad) == First(bad, <<"info", "token">>)

\* What is thrown by the old module too: the type of a mode, of a want agent
\* and of a flag, and everything about a request object.
ThrownAnyway == {"mode", "agentType", "suspended", "request", "modes", "taskId"}
Thrown(err, throw) == err \in ThrownAnyway \/ HandleParamErr(err, throw)

------------------------------------------------------------------------------
(* The entry points.                                                        *)

\* A callback receives what the old module found wrong after it was known.
StartBackgroundRunningAsync(bad, throw) ==
  LET err == StartBackgroundRunningCheckParam(bad)
  IN CASE "callback" \in bad -> Refuse("callback", Thrown("callback", throw), "freed")
       [] err # "none" /\ throw -> Refuse(err, TRUE, "freed")
       [] OTHER -> Queue(err)

StartBackgroundRunningPromise(bad, throw) ==
  LET err == StartBackgroundRunningCheckParam(bad)
  IN IF err # "none" THEN Refuse(err, Thrown(err, throw), "freed") ELSE Queue("none")

\* A refused request object is answered with a value, not with nothing: the
\* caller takes the block for queued and forgets it.
StartBackgroundRunningSubmit(bad, throw) ==
  LET err == StartBackgroundRunningCheckRequest(bad)
  IN IF err # "none" THEN Refuse(err, Thrown(err, throw), "forgotten") ELSE Queue("none")

StartBackgroundRunning(form, bad, throw) ==
  LET err == StartBackgroundRunningCheckParamBeforeSubmit(bad)
  IN CASE "number" \in bad -> Refuse("number", Thrown("number", throw), "freed")
       [] form = "request" /\ ~("number" \in bad) -> StartBackgroundRunningSubmit(bad, throw)
       [] form # "request" /\ ~("number" \in bad) /\ err # "none" -> Refuse(err, Thrown(err, throw), "freed")
       [] form = "callback" /\ ~("number" \in bad) /\ err = "none" -> StartBackgroundRunningAsync(bad, throw)
       [] OTHER -> StartBackgroundRunningPromise(bad, throw)

MutUpdatePromiseForgets(bad, throw) ==
  LET err == CheckBackgroundMode(bad)
  IN IF err # "none" THEN Refuse(err, Thrown(err, throw), "forgotten") ELSE Queue("none")

UpdateBackgroundRunningPromise(bad, throw) ==
  LET err == CheckBackgroundMode(bad)
  IN IF err # "none" THEN Refuse(err, Thrown(err, throw), "freed") ELSE Queue("none")

UpdateBackgroundRunningByRequestPromise(bad) ==
  IF "taskId" \in bad THEN Refuse("taskId", HandleErrCode("taskId"), "freed") ELSE Queue("none")

UpdateBackgroundRunning(form, bad, throw) ==
  LET err == IF form = "request" THEN StartBackgroundRunningCheckRequest(bad)
                                 ELSE UpdateBackgroundRunningCheckParam(bad)
  IN CASE "number" \in bad -> Refuse("number", Thrown("number", throw), "freed")
       [] ~("number" \in bad) /\ err # "none" -> Refuse(err, Thrown(err, throw), "freed")
       [] ~("number" \in bad) /\ form = "request" /\ err = "none" -> UpdateBackgroundRunningByRequestPromise(bad)
       [] OTHER -> UpdateBackgroundRunningPromise(bad, throw)

StopBackgroundRunningAsync(bad, throw) ==
  LET err == StopBackgroundRunningCheckParam(bad)
  IN CASE "callback" \in bad -> Refuse("callback", Thrown("callback", throw), "freed")
       [] err # "none" /\ throw -> Refuse(err, TRUE, "freed")
       [] OTHER -> Queue(err)

StopBackgroundRunningPromise(bad, throw) ==
  LET err == StopBackgroundRunningCheckParam(bad)
  IN IF err # "none" THEN Refuse(err, Thrown(err, throw), "freed") ELSE Queue("none")

StopBackgroundRunningByTaskIdPromise(bad, throw) ==
  LET err == StopBackgroundRunningCheckParam(bad)
  IN IF err # "none" THEN Refuse(err, Thrown(err, throw), "freed") ELSE Queue("none")

StopBackgroundRunningBySubmit(form, bad, throw) ==
  CASE form = "request" /\ "taskId" \in bad -> Refuse("taskId", HandleErrCode("taskId"), "freed")
    [] form = "request" /\ ~("taskId" \in bad) -> StopBackgroundRunningByTaskIdPromise(bad, throw)
    [] OTHER -> StopBackgroundRunningAsync(bad, throw)

StopBackgroundRunning(form, bad, throw) ==
  LET err == GetAbilityContext(bad)
  IN CASE "number" \in bad -> Refuse("number", Thrown("number", throw), "freed")
       [] ~("number" \in bad) /\ err # "none" -> Refuse(err, Thrown(err, throw), "freed")
       [] ~("number" \in bad) /\ err = "none" /\ form = "promise" -> StopBackgroundRunningPromise(bad, throw)
       [] OTHER -> StopBackgroundRunningBySubmit(form, bad, throw)

GetAllContinuousTasks(bad, throw) ==
  LET err == GetAllContinuousTasksCheckParamBeforeSubmit(bad)
  IN IF err # "none" THEN Refuse(err, Thrown(err, throw), "freed") ELSE Queue("none")

\* The answer about special scenarios; always of the module of today.
CheckSpecialScenarioUserAuth(bad) ==
  LET err == First(bad, <<"number", "context", "info">>)
  IN IF err # "none" THEN Refuse(err, HandleParamErr(err, TRUE), "freed") ELSE Queue("none")

\* The remaining time is parsed before there is a block.
GetRemainingDelayTime(bad, throw) ==
  LET err == First(bad, <<"number", "requestId", "callback", "illegalId">>)
  IN IF err # "none" THEN Refuse(err, HandleParamErr(err, throw), "freed") ELSE Queue("none")

\* Three listings have no arguments to look at.
ObtainAllContinuousTasks == Queue("none")
GetAllTransientTasks == Queue("none")
GetAllEfficiencyResources == Queue("none")

------------------------------------------------------------------------------
(* The entry points that wait for the service on the JavaScript thread: a   *)
(* call that is "queued" here is made at once.                              *)

\* Special scenarios are asked about one at a time and alone.
CheckSpecialModeSupported(bad) == First(bad, <<"modes">>)

\* An object without a list of modes is refused without a word.
IsModeSupported(bad) ==
  LET err == CheckSpecialModeSupported(bad)
  IN CASE "object" \in bad -> Refuse("object", FALSE, "freed")
       [] ~("object" \in bad) /\ err # "none" -> Refuse(err, HandleErrCode(err), "freed")
       [] OTHER -> Queue("none")

\* The application a decision is about; the decision only where one is set.
GetBackgroundTaskStateParam(bad, includeAuth) ==
  First(bad, <<"userId", "appIndex", "bundleName">> \o IF includeAuth THEN <<"authResult">> ELSE <<>>)

SetBackgroundTaskState(bad) ==
  LET shape == First(bad, <<"number", "object">>)
      err == IF shape # "none" THEN shape ELSE GetBackgroundTaskStateParam(bad, TRUE)
  IN IF err # "none" THEN Refuse(err, HandleErrCode(err), "freed") ELSE Queue("none")

GetBackgroundTaskState(bad) ==
  LET shape == First(bad, <<"number", "object">>)
      err == IF shape # "none" THEN shape ELSE GetBackgroundTaskStateParam(bad, FALSE)
  IN IF err # "none" THEN Refuse(err, HandleErrCode(err), "freed") ELSE Queue("none")

GetDataTransferProgress(bad) == First(bad, <<"object", "taskId", "progress">>)

UpdateDataTransferProgress(bad) ==
  LET err == First(bad, <<"number", "context">>)
      data == GetDataTransferProgress(bad)
  IN CASE err # "none" -> Refuse(err, HandleParamErr(err, TRUE), "freed")
       [] err = "none" /\ data # "none" -> Refuse(data, HandleParamErr(data, TRUE), "freed")
       [] OTHER -> Queue("none")

(***************************************************************************)
(* A call is [api, form, bad, throw]; Issue is what its entry point does.  *)
(***************************************************************************)
Issue(c) ==
  CASE c.api = "StartBackgroundRunning" -> StartBackgroundRunning(c.form, c.bad, c.throw)
    [] c.api = "UpdateBackgroundRunning" -> UpdateBackgroundRunning(c.form, c.bad, c.throw)
    [] c.api = "StopBackgroundRunning" -> StopBackgroundRunning(c.form, c.bad, c.throw)
    [] c.api = "GetAllContinuousTasks" -> GetAllContinuousTasks(c.bad, c.throw)
    [] c.api = "CheckSpecialScenarioAuth" -> CheckSpecialScenarioUserAuth(c.bad)
    [] c.api = "GetAllContinuousTasksBySystem" -> ObtainAllContinuousTasks
    [] c.api = "IsModeSupported" -> IsModeSupported(c.bad)
    [] c.api = "SetBackgroundTaskState" -> SetBackgroundTaskState(c.bad)
    [] c.api = "GetBackgroundTaskState" -> GetBackgroundTaskState(c.bad)
    [] c.api = "UpdateDataTransferProgress" -> UpdateDataTransferProgress(c.bad)
    [] c.api = "GetRemainingDelayTime" -> GetRemainingDelayTime(c.bad, c.throw)
    [] c.api = "GetAllTransientTasks" -> GetAllTransientTasks
    [] OTHER -> GetAllEfficiencyResources
==============================================================================
