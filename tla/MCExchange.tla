------------------------------ MODULE MCExchange ------------------------------
(***************************************************************************)
(* What passes between an application and the service, in three scenes:    *)
(* the modes of a request, the parcels of the interface, and the events of *)
(* tasks on their way back.                                                *)
(***************************************************************************)
EXTENDS TaskEvents, TaskModes, Parcels

CONSTANT Rooms   \* how many items a parcel has room for

VARIABLE scene

vars == <<scene, eventVars, modeVars, parcelVars>>

UpToTwo(S) == UNION {[1 .. n -> S] : n \in 0 .. 2}
Requests ==
  [modes : UpToTwo(BackgroundTaskMode \cup {"OUT"}), subs : UpToTwo(BackgroundTaskSubmode \cup {"OUT"}),
   combined : BOOLEAN]
NoRequest == [modes |-> <<>>, subs |-> <<>>, combined |-> FALSE]

NoParcel == what = "" /\ given = NoObject /\ packed = Unsent /\ taken = Null

Init ==
  /\ EventsInit
  /\ \/ scene = "events" /\ ModesInit({NoRequest}) /\ NoParcel
     \/ scene = "modes" /\ ModesInit(Requests) /\ NoParcel
     \/ scene = "parcels" /\ ModesInit({NoRequest}) /\ ParcelsInit

\* After the first event, one of each way to reach an application.
Event(trigger, own, reason, component, standby) ==
  [trigger |-> trigger, own |-> own, reason |-> reason, component |-> component, standby |-> standby]
LaterEvents == {Event("START", FALSE, "", FALSE, FALSE), Event("CANCEL", TRUE, "REMOVE", FALSE, FALSE),
                Event("SUSPEND", TRUE, "", FALSE, FALSE)}
AnEvent == \E e \in IF sent = <<>> THEN Events ELSE LaterEvents : flags # {} /\ NotifySubscribers(e)

\* The steps of the binder threads and of the JavaScript thread.
Delivery == OnReturns \/ OffReturns \/ Schedule \/ \E t \in tasks : Run(t)

Next ==
  \/ /\ scene = "events"
     /\ AnEvent \/ (\E T \in Types : On(T) \/ Off(T)) \/ Delivery
     /\ UNCHANGED <<scene, modeVars, parcelVars>>
  \/ scene = "modes" /\ Convert /\ UNCHANGED <<scene, eventVars, parcelVars>>
  \/ /\ scene = "parcels"
     /\ (\E room \in Rooms : Marshal(room)) \/ Unmarshalling
     /\ UNCHANGED <<scene, eventVars, modeVars>>

Spec == Init /\ [][Next]_vars /\ WF_vars(scene = "events" /\ Delivery /\ UNCHANGED <<scene, modeVars, parcelVars>>)
=============================================================================
