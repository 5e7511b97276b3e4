----------------------------- MODULE TaskEvents -----------------------------
(***************************************************************************)
(* How an event of a continuous task travels from the manager to the       *)
(* functions of an application: the manager picks the subscribers, a       *)
(* one-way call carries the event to a binder thread of the application,   *)
(* that thread schedules a task for the JavaScript thread, and the task    *)
(* looks up the functions that are registered when it runs.  Meanwhile the *)
(* application registers functions and takes them back.  What becomes of   *)
(* the registration when the service restarts is the matter of TaskClient. *)
(***************************************************************************)
EXTENDS Naturals, Sequences, FiniteSets

CONSTANTS MaxEvents,   \* bound on the events of a behaviour
          MaxTurns     \* bound on its on() and off()

Types == {"CANCEL", "SUSPEND", "ACTIVE", "STATE"}

(***************************************************************************)
(* An event is [trigger, own, reason, component, standby]: whether it is   *)
(* of a task of the application itself, why a task was cancelled, whether  *)
(* the user did so from the task panel, and whether a suspension is only   *)
(* one of the power check.                                                 *)
(***************************************************************************)
EventsOf(triggers, reasons, component, standby) ==
  [trigger : triggers, own : BOOLEAN, reason : reasons, component : component, standby : standby]
Events ==
  EventsOf({"START", "UPDATE"}, {""}, {FALSE}, {FALSE})
  \cup EventsOf({"CANCEL"}, {"REMOVE", "FREEZE", "OTHER"}, {FALSE}, {FALSE})
  \cup EventsOf({"CANCEL"}, {"REMOVE"}, {TRUE}, {FALSE})
  \cup EventsOf({"SUSPEND", "ACTIVE"}, {""}, {FALSE}, BOOLEAN)

VARIABLES flags,    \* flag_ of the application's entry in bgTaskSubscribers_
          obs,      \* the types of jsObserverObjectMap_
          live,     \* whether the application has its subscriber object
          js,       \* the on() or off() the JavaScript thread is in, [op, type]
          wire,     \* one-way calls to the subscriber, <<handler, event number>>
          tasks,    \* tasks scheduled for the JavaScript thread, in any order
          calls,    \* functions called, <<type, event number>>
          sent,     \* the events so far, [event, flags, kept]: with the flags the manager
                    \* saw, and the types whose functions stayed registered since
          turns     \* on() and off() so far

eventVars == <<flags, obs, live, js, wire, tasks, calls, sent, turns>>

Free == [op |-> "", type |-> ""]

EventsInit ==
  /\ flags = {} /\ obs = {} /\ live = FALSE /\ js = Free
  /\ wire = <<>> /\ tasks = {} /\ calls = <<>> /\ sent = <<>> /\ turns = 0

------------------------------------------------------------------------------
(* The manager: the calls one event makes to an application with flags f.   *)

\* The application's own task, removed by the user or frozen.
CanNotifyHap(e) ==
  /\ e.own
  /\ ~(e.reason = "REMOVE" /\ e.component)
  /\ e.reason \in {"REMOVE", "FREEZE"}

NotifySubscribersTaskStart(e, f) == IF "STATE" \in f THEN <<"Start">> ELSE <<>>

NotifySubscribersTaskUpdate(e, f) == IF "STATE" \in f THEN <<"Update">> ELSE <<>>

NotifySubscribersTaskCancel(e, f) == IF CanNotifyHap(e) \/ "STATE" \in f THEN <<"Stop">> ELSE <<>>

MutNotifySuspendEverybody(e, f) ==
  (IF "STATE" \in f /\ ~e.standby THEN <<"Stop">> ELSE <<>>) \o <<"Suspend">>

\* A suspension of the power check is not a stop.
NotifySubscribersTaskSuspend(e, f) ==
  (IF "STATE" \in f /\ ~e.standby THEN <<"Stop">> ELSE <<>>) \o (IF e.own THEN <<"Suspend">> ELSE <<>>)

NotifySubscribersTaskActive(e, f) ==
  (IF "STATE" \in f /\ ~e.standby THEN <<"Start">> ELSE <<>>) \o (IF e.own THEN <<"Active">> ELSE <<>>)

Notified(e, f) ==
  CASE f = {} -> <<>>
    [] f # {} /\ e.trigger = "START" -> NotifySubscribersTaskStart(e, f)
    [] f # {} /\ e.trigger = "UPDATE" -> NotifySubscribersTaskUpdate(e, f)
    [] f # {} /\ e.trigger = "CANCEL" -> NotifySubscribersTaskCancel(e, f)
    [] f # {} /\ e.trigger = "SUSPEND" -> NotifySubscribersTaskSuspend(e, f)
    [] OTHER -> NotifySubscribersTaskActive(e, f)

NotifySubscribers(e) ==
  LET n == Len(sent) + 1
      out == Notified(e, flags)
  IN /\ n <= MaxEvents
     /\ sent' = Append(sent, [event |-> e, flags |-> flags, kept |-> obs])
     /\ wire' = wire \o [i \in DOMAIN out |-> <<out[i], n>>]
     /\ UNCHANGED <<flags, obs, live, js, tasks, calls, turns>>

------------------------------------------------------------------------------
(* The application.                                                         *)

\* on(T, f): the service is asked first, the function entered afterwards.
On(T) ==
  /\ js = Free /\ turns < MaxTurns
  /\ js' = [op |-> "on", type |-> T]
  /\ live' = TRUE
  /\ flags' = flags \cup {T}
  /\ turns' = turns + 1
  /\ UNCHANGED <<obs, wire, tasks, calls, sent>>

OnReturns ==
  /\ js.op = "on"
  /\ obs' = obs \cup {js.type}
  /\ js' = Free
  /\ UNCHANGED <<flags, live, wire, tasks, calls, sent, turns>>

\* off(T): the function goes first; without any function left the
\* subscriber object goes too.
Off(T) ==
  /\ js = Free /\ live /\ turns < MaxTurns
  /\ js' = [op |-> "off", type |-> T]
  /\ obs' = obs \ {T}
  /\ sent' = [n \in DOMAIN sent |-> [sent[n] EXCEPT !.kept = @ \ {T}]]
  /\ turns' = turns + 1
  /\ UNCHANGED <<flags, live, wire, tasks, calls>>

OffReturns ==
  /\ js.op = "off"
  /\ flags' = flags \ {js.type}
  /\ live' = (obs # {})
  /\ js' = Free
  /\ UNCHANGED <<obs, wire, tasks, calls, sent, turns>>

\* The binder thread: OnContinuousTaskStart, Update, Stop, Suspend and Active
\* schedule a task each.  A call that finds the subscriber object gone has
\* nobody to hand the event to.
Schedule ==
  /\ wire # <<>>
  /\ wire' = Tail(wire)
  /\ tasks' = IF live THEN tasks \cup {Head(wire)} ELSE tasks
  /\ UNCHANGED <<flags, obs, live, js, calls, sent, turns>>

HandleOnContinuousTaskStart(n) == IF "STATE" \in obs THEN <<<<"STATE", n>>>> ELSE <<>>
HandleOnContinuousTaskUpdate(n) == IF "STATE" \in obs THEN <<<<"STATE", n>>>> ELSE <<>>
HandleSubscribeOnContinuousTaskStop(n) == IF "STATE" \in obs THEN <<<<"STATE", n>>>> ELSE <<>>

\* A stop is told to the functions of both types, whoever it is about.
HandleOnContinuousTaskStop(n) ==
  HandleSubscribeOnContinuousTaskStop(n) \o (IF "CANCEL" \in obs THEN <<<<"CANCEL", n>>>> ELSE <<>>)

HandleOnContinuousTaskSuspend(n) == IF "SUSPEND" \in obs THEN <<<<"SUSPEND", n>>>> ELSE <<>>

MutHandleActiveForSuspend(n) == IF {"SUSPEND", "ACTIVE"} \subseteq obs THEN <<<<"ACTIVE", n>>>> ELSE <<>>

HandleOnContinuousTaskActive(n) == IF "ACTIVE" \in obs THEN <<<<"ACTIVE", n>>>> ELSE <<>>

Handled(t) ==
  CASE t[1] = "Start" -> HandleOnContinuousTaskStart(t[2])
    [] t[1] = "Update" -> HandleOnContinuousTaskUpdate(t[2])
    [] t[1] = "Stop" -> HandleOnContinuousTaskStop(t[2])
    [] t[1] = "Suspend" -> HandleOnContinuousTaskSuspend(t[2])
    [] OTHER -> HandleOnContinuousTaskActive(t[2])

\* The JavaScript thread runs a task; a task whose subscriber is gone, or was
\* replaced and holds no function yet, calls nothing.
Run(t) ==
  /\ js = Free
  /\ t \in tasks
  /\ tasks' = tasks \ {t}
  /\ calls' = IF live THEN calls \o Handled(t) ELSE calls
  /\ UNCHANGED <<flags, obs, live, js, wire, sent, turns>>

EventsNext ==
  \/ \E e \in Events : NotifySubscribers(e)
  \/ \E T \in Types : On(T) \/ Off(T)
  \/ OnReturns
  \/ OffReturns
  \/ Schedule
  \/ \E t \in tasks : Run(t)

EventsSpec == EventsInit /\ [][EventsNext]_eventVars

------------------------------------------------------------------------------
(* Properties.                                                              *)

(***************************************************************************)
(* A function is called only for the events its type is about.  Functions  *)
(* for suspension and activation hear of the application's own tasks only; *)
(* those for states never of a mere power check; those for cancellation of *)
(* the user's removals and of freezes, unless the application also watches *)
(* the states of all tasks: then every stop reaches them.  No function is  *)
(* called twice for one event, although a stop can reach the application   *)
(* as the owner of the task and as a watcher of states.                    *)
(* (bg_continuous_task_mgr.cpp:2980-3131,                                  *)
(* js_backgroundtask_subscriber.cpp:160-483)                               *)
(***************************************************************************)
CallsMatchEvents ==
  /\ \A i, k \in DOMAIN calls : calls[i] = calls[k] => i = k
  /\ \A i \in DOMAIN calls :
    LET T == calls[i][1]
        e == sent[calls[i][2]].event
        watched == "STATE" \in sent[calls[i][2]].flags
    IN CASE T = "SUSPEND" -> e.trigger = "SUSPEND" /\ e.own
         [] T = "ACTIVE" -> e.trigger = "ACTIVE" /\ e.own
         [] T = "CANCEL" -> watched \/ (e.trigger = "CANCEL" /\ CanNotifyHap(e))
         [] OTHER -> ~e.standby /\ (watched \/ (e.trigger = "CANCEL" /\ CanNotifyHap(e)))

\* What an event owes to the functions of type T that stay registered.
Owes(s, T) ==
  /\ T \in s.kept
  /\ CASE T = "SUSPEND" -> s.event.trigger = "SUSPEND" /\ s.event.own
       [] T = "ACTIVE" -> s.event.trigger = "ACTIVE" /\ s.event.own
       [] T = "CANCEL" -> s.event.trigger = "CANCEL" /\ CanNotifyHap(s.event)
       [] OTHER -> s.event.trigger \in {"START", "UPDATE", "CANCEL"} \/ ~s.event.standby

(***************************************************************************)
(* An event reaches every function that was registered for it when it      *)
(* happened and is not taken back meanwhile: again and again there comes a *)
(* moment at which nothing is owed.                                        *)
(* (js_backgroundtask_subscriber.cpp:134-483)                              *)
(***************************************************************************)
EventReaches ==
  []<>(\A n \in DOMAIN sent, T \in Types : Owes(sent[n], T) => \E i \in DOMAIN calls : calls[i] = <<T, n>>)
=============================================================================
