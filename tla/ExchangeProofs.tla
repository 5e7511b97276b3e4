---------------------------- MODULE ExchangeProofs ----------------------------
(***************************************************************************)
(* Proofs about what passes between an application and the service: the    *)
(* events of tasks reach the functions they are meant for, and the modes   *)
(* of a request are converted to the ones it asks for.                     *)
(***************************************************************************)
EXTENDS TaskEvents, TaskModes, FiniteSetTheorems, WellFoundedInduction, TLAPS

-----------------------------------------------------------------------------
(* Events.                                                                 *)

Handlers == {"Start", "Update", "Stop", "Suspend", "Active"}
Sent == [event : Events, flags : SUBSET Types, kept : SUBSET Types]

\* The calls the manager makes for an event to an application with these flags.
Sends(e, f, h) ==
  \/ h = "Start" /\ e.trigger \in {"START", "ACTIVE"} /\ "STATE" \in f /\ ~e.standby
  \/ h = "Update" /\ e.trigger = "UPDATE" /\ "STATE" \in f /\ ~e.standby
  \/ h = "Stop" /\ e.trigger = "CANCEL" /\ (CanNotifyHap(e) \/ "STATE" \in f) /\ ~e.standby
  \/ h = "Stop" /\ e.trigger = "SUSPEND" /\ "STATE" \in f /\ ~e.standby
  \/ h = "Suspend" /\ e.trigger = "SUSPEND" /\ e.own
  \/ h = "Active" /\ e.trigger = "ACTIVE" /\ e.own

\* The functions a call of the subscriber can lead to.
Reaches(h, T) ==
  \/ h \in {"Start", "Update", "Stop"} /\ T = "STATE"
  \/ h = "Stop" /\ T = "CANCEL"
  \/ h = "Suspend" /\ T = "SUSPEND"
  \/ h = "Active" /\ T = "ACTIVE"

Distinct(s) == \A i, k \in DOMAIN s : s[i] = s[k] => i = k
Apart(s, t) == \A i \in DOMAIN s, k \in DOMAIN t : s[i] # t[k]

LEMMA Joined ==
  ASSUME NEW S, NEW s \in Seq(S), NEW t \in Seq(S), Distinct(s), Distinct(t), Apart(s, t)
  PROVE  /\ s \o t \in Seq(S) /\ Distinct(s \o t)
         /\ \A i \in DOMAIN (s \o t) : \/ i \in DOMAIN s /\ (s \o t)[i] = s[i]
                                       \/ \E k \in DOMAIN t : (s \o t)[i] = t[k]
<1>1. s \o t \in Seq(S) /\ Len(s \o t) = Len(s) + Len(t)
  OBVIOUS
<1>2. \A i \in 1 .. Len(s) + Len(t) : /\ i <= Len(s) => (s \o t)[i] = s[i]
                                      /\ i > Len(s) => i - Len(s) \in DOMAIN t /\ (s \o t)[i] = t[i - Len(s)]
  OBVIOUS
<1>3. DOMAIN (s \o t) = 1 .. Len(s) + Len(t) /\ DOMAIN s = 1 .. Len(s) /\ DOMAIN t = 1 .. Len(t)
  OBVIOUS
<1>4. Distinct(s \o t)
  <2> SUFFICES ASSUME NEW i \in 1 .. Len(s) + Len(t), NEW k \in 1 .. Len(s) + Len(t), (s \o t)[i] = (s \o t)[k]
               PROVE  i = k
    BY <1>3, Zenon DEF Distinct
  <2>1. CASE i <= Len(s) /\ k <= Len(s)
    BY <1>2, <1>3, <2>1 DEF Distinct
  <2>2. CASE i > Len(s) /\ k > Len(s)
    BY <1>2, <1>3, <2>2 DEF Distinct
  <2>3. CASE i <= Len(s) /\ k > Len(s)
    BY <1>2, <1>3, <2>3, SMTT(30) DEF Apart
  <2>4. CASE i > Len(s) /\ k <= Len(s)
    BY <1>2, <1>3, <2>4, SMTT(30) DEF Apart
  <2> QED
    BY <2>1, <2>2, <2>3, <2>4
<1> QED
  BY <1>1, <1>2, <1>3, <1>4

LEMMA Short ==
  ASSUME NEW S
  PROVE  /\ <<>> \in Seq(S) /\ Distinct(<<>>)
         /\ \A a \in S : <<a>> \in Seq(S) /\ Distinct(<<a>>) /\ DOMAIN <<a>> = {1} /\ <<a>>[1] = a
         /\ \A a, b \in S : a # b => /\ <<a>> \o <<b>> \in Seq(S) /\ Distinct(<<a>> \o <<b>>)
                                     /\ \A i \in DOMAIN (<<a>> \o <<b>>) : (<<a>> \o <<b>>)[i] \in {a, b}
<1>1. <<>> \in Seq(S) /\ Distinct(<<>>)
  BY DEF Distinct
<1>2. ASSUME NEW a \in S
      PROVE  <<a>> \in Seq(S) /\ Distinct(<<a>>) /\ DOMAIN <<a>> = {1} /\ <<a>>[1] = a
  BY DEF Distinct
<1>3. ASSUME NEW a \in S, NEW b \in S, a # b
      PROVE  /\ <<a>> \o <<b>> \in Seq(S) /\ Distinct(<<a>> \o <<b>>)
             /\ \A i \in DOMAIN (<<a>> \o <<b>>) : (<<a>> \o <<b>>)[i] \in {a, b}
  <2> DEFINE s == <<a>>
             t == <<b>>
  <2>1. s \in Seq(S) /\ Distinct(s) /\ DOMAIN s = {1} /\ s[1] = a
    BY <1>2, Zenon
  <2>2. t \in Seq(S) /\ Distinct(t) /\ DOMAIN t = {1} /\ t[1] = b
    BY <1>2, Zenon
  <2> HIDE DEF s, t
  <2>3. Apart(s, t)
    BY <1>3, <2>1, <2>2, Zenon DEF Apart
  <2>4. /\ s \o t \in Seq(S) /\ Distinct(s \o t)
        /\ \A i \in DOMAIN (s \o t) : \/ i \in DOMAIN s /\ (s \o t)[i] = s[i]
                                      \/ \E k \in DOMAIN t : (s \o t)[i] = t[k]
    BY <2>1, <2>2, <2>3, Joined
  <2>5. \A i \in DOMAIN (s \o t) : (s \o t)[i] \in {a, b}
    BY <2>1, <2>2, <2>4, Zenon
  <2> QED
    BY <2>4, <2>5, Zenon DEF s, t
<1> QED
  BY <1>1, <1>2, <1>3, Zenon

LEMMA EventFacts ==
  ASSUME NEW e \in Events
  PROVE  /\ e.trigger \in {"START", "UPDATE", "CANCEL", "SUSPEND", "ACTIVE"}
         /\ e.own \in BOOLEAN /\ e.standby \in BOOLEAN
         /\ e.trigger \in {"START", "UPDATE", "CANCEL"} => ~e.standby
  BY Zenon DEF Events, EventsOf

LEMMA NotifiedFacts ==
  ASSUME NEW e \in Events, NEW f \in SUBSET Types
  PROVE  /\ Notified(e, f) \in Seq(Handlers) /\ Distinct(Notified(e, f))
         /\ \A i \in DOMAIN Notified(e, f) : Sends(e, f, Notified(e, f)[i])
<1>0. "Start" \in Handlers /\ "Update" \in Handlers /\ "Stop" \in Handlers /\ "Suspend" \in Handlers /\ "Active" \in Handlers
  BY Zenon DEF Handlers
<1> DEFINE Good(s) == s \in Seq(Handlers) /\ Distinct(s) /\ \A i \in DOMAIN s : Sends(e, f, s[i])
<1>1. Good(<<>>)
  BY Short
<1>2. ASSUME NEW h \in Handlers, Sends(e, f, h)
      PROVE  Good(<<h>>)
  BY <1>2, Short, Zenon
<1>3. ASSUME NEW h \in Handlers, NEW g \in Handlers, h # g, Sends(e, f, h), Sends(e, f, g)
      PROVE  Good(<<h>> \o <<g>>)
  <2> DEFINE s == <<h>> \o <<g>>
  <2>1. s \in Seq(Handlers) /\ Distinct(s) /\ \A i \in DOMAIN s : s[i] \in {h, g}
    BY <1>3, Short, Zenon
  <2> HIDE DEF s
  <2>2. Good(s)
    BY <1>3, <2>1, Zenon
  <2> QED
    BY <2>2, Zenon DEF s
<1>4. \A s \in Seq(Handlers) : <<>> \o s = s /\ s \o <<>> = s
  OBVIOUS
<1>5. CASE f # {} /\ e.trigger = "START"
  <2>1. Notified(e, f) = IF "STATE" \in f THEN <<"Start">> ELSE <<>>
    BY <1>5, Zenon DEF Notified, NotifySubscribersTaskStart
  <2> QED
    BY <1>0, <1>1, <1>2, <1>5, <2>1, EventFacts, Zenon DEF Sends
<1>6. CASE f # {} /\ e.trigger = "UPDATE"
  <2>1. Notified(e, f) = IF "STATE" \in f THEN <<"Update">> ELSE <<>>
    BY <1>6, Zenon DEF Notified, NotifySubscribersTaskUpdate
  <2> QED
    BY <1>0, <1>1, <1>2, <1>6, <2>1, EventFacts, Zenon DEF Sends
<1>7. CASE f # {} /\ e.trigger = "CANCEL"
  <2>1. Notified(e, f) = IF CanNotifyHap(e) \/ "STATE" \in f THEN <<"Stop">> ELSE <<>>
    BY <1>7, Zenon DEF Notified, NotifySubscribersTaskCancel
  <2> QED
    BY <1>0, <1>1, <1>2, <1>7, <2>1, EventFacts, Zenon DEF Sends
<1>8. CASE f # {} /\ e.trigger = "SUSPEND"
  <2> DEFINE a == "STATE" \in f /\ ~e.standby
  <2>1. Notified(e, f) = (IF a THEN <<"Stop">> ELSE <<>>) \o (IF e.own THEN <<"Suspend">> ELSE <<>>)
    BY <1>8, Zenon DEF Notified, NotifySubscribersTaskSuspend
  <2>2. \/ Notified(e, f) = <<"Stop">> \o <<"Suspend">> /\ a /\ e.own
        \/ Notified(e, f) = <<"Stop">> \o <<>> /\ a
        \/ Notified(e, f) = <<>> \o <<"Suspend">> /\ e.own
        \/ Notified(e, f) = <<>> \o <<>>
    BY <2>1, Zenon
  <2>3. <<"Stop">> \in Seq(Handlers) /\ <<"Suspend">> \in Seq(Handlers) /\ <<>> \in Seq(Handlers)
    BY <1>0, Short, Zenon
  <2>4. \/ Notified(e, f) = <<"Stop">> \o <<"Suspend">> /\ a /\ e.own
        \/ Notified(e, f) = <<"Stop">> /\ a
        \/ Notified(e, f) = <<"Suspend">> /\ e.own
        \/ Notified(e, f) = <<>>
    BY <1>4, <2>2, <2>3, Zenon
  <2>5. /\ a => Sends(e, f, "Stop")
        /\ e.own => Sends(e, f, "Suspend")
    BY <1>8, Zenon DEF Sends
  <2> QED
    BY <1>0, <1>1, <1>2, <1>3, <2>4, <2>5, Zenon
<1>9. CASE f # {} /\ e.trigger = "ACTIVE"
  <2> DEFINE a == "STATE" \in f /\ ~e.standby
  <2>1. Notified(e, f) = (IF a THEN <<"Start">> ELSE <<>>) \o (IF e.own THEN <<"Active">> ELSE <<>>)
    BY <1>9, Zenon DEF Notified, NotifySubscribersTaskActive
  <2>2. \/ Notified(e, f) = <<"Start">> \o <<"Active">> /\ a /\ e.own
        \/ Notified(e, f) = <<"Start">> \o <<>> /\ a
        \/ Notified(e, f) = <<>> \o <<"Active">> /\ e.own
        \/ Notified(e, f) = <<>> \o <<>>
    BY <2>1, Zenon
  <2>3. <<"Start">> \in Seq(Handlers) /\ <<"Active">> \in Seq(Handlers) /\ <<>> \in Seq(Handlers)
    BY <1>0, Short, Zenon
  <2>4. \/ Notified(e, f) = <<"Start">> \o <<"Active">> /\ a /\ e.own
        \/ Notified(e, f) = <<"Start">> /\ a
        \/ Notified(e, f) = <<"Active">> /\ e.own
        \/ Notified(e, f) = <<>>
    BY <1>4, <2>2, <2>3, Zenon
  <2>5. /\ a => Sends(e, f, "Start")
        /\ e.own => Sends(e, f, "Active")
    BY <1>9, Zenon DEF Sends
  <2> QED
    BY <1>0, <1>1, <1>2, <1>3, <2>4, <2>5, Zenon
<1>10. CASE f = {}
  <2>1. Notified(e, f) = <<>>
    BY <1>10, Zenon DEF Notified
  <2> QED
    BY <1>1, <2>1, Zenon
<1> QED
  BY <1>5, <1>6, <1>7, <1>8, <1>9, <1>10, EventFacts, Zenon

LEMMA HandledFacts ==
  ASSUME NEW h \in Handlers, NEW n \in Nat
  PROVE  /\ Handled(<<h, n>>) \in Seq(Types \X Nat) /\ Distinct(Handled(<<h, n>>))
         /\ \A i \in DOMAIN Handled(<<h, n>>) :
              \E T \in Types : Handled(<<h, n>>)[i] = <<T, n>> /\ Reaches(h, T)
<1>0. /\ <<"STATE", n>> \in Types \X Nat /\ <<"CANCEL", n>> \in Types \X Nat
      /\ <<"SUSPEND", n>> \in Types \X Nat /\ <<"ACTIVE", n>> \in Types \X Nat
      /\ <<"STATE", n>> # <<"CANCEL", n>>
      /\ "STATE" \in Types /\ "CANCEL" \in Types /\ "SUSPEND" \in Types /\ "ACTIVE" \in Types
  BY Zenon DEF Types
<1> DEFINE Good(s) == /\ s \in Seq(Types \X Nat) /\ Distinct(s)
                      /\ \A i \in DOMAIN s : \E T \in Types : s[i] = <<T, n>> /\ Reaches(h, T)
<1>1. Good(<<>>)
  BY Short
<1>2. ASSUME NEW T \in Types, Reaches(h, T)
      PROVE  Good(<<<<T, n>>>>)
  <2>1. PICK p \in Types \X Nat : p = <<T, n>>
    BY Zenon
  <2> DEFINE s == <<p>>
  <2>2. s \in Seq(Types \X Nat) /\ Distinct(s) /\ DOMAIN s = {1} /\ s[1] = p
    BY Short, Zenon
  <2> HIDE DEF s
  <2>3. Good(s)
    BY <1>2, <2>1, <2>2, Zenon
  <2> QED
    BY <2>1, <2>3, Zenon DEF s
<1>3. \A s \in Seq(Types \X Nat) : <<>> \o s = s /\ s \o <<>> = s
  OBVIOUS
<1>4. CASE h = "Stop"
  <2> DEFINE a == "STATE" \in obs
             b == "CANCEL" \in obs
  <2>1. Handled(<<h, n>>) = HandleOnContinuousTaskStop(n)
    BY <1>4, Zenon DEF Handled
  <2>2. Handled(<<h, n>>) = (IF a THEN <<<<"STATE", n>>>> ELSE <<>>) \o (IF b THEN <<<<"CANCEL", n>>>> ELSE <<>>)
    BY <2>1, Zenon DEF HandleOnContinuousTaskStop, HandleSubscribeOnContinuousTaskStop
  <2>3. PICK p \in Types \X Nat, q \in Types \X Nat : p = <<"STATE", n>> /\ q = <<"CANCEL", n>> /\ p # q
    BY <1>0, Zenon
  <2>4. <<p>> \in Seq(Types \X Nat) /\ <<q>> \in Seq(Types \X Nat)
    BY Short, Zenon
  <2>5. \/ Handled(<<h, n>>) = <<p>> \o <<q>> \/ Handled(<<h, n>>) = <<p>> \o <<>>
        \/ Handled(<<h, n>>) = <<>> \o <<q>> \/ Handled(<<h, n>>) = <<>>
    <3>1. \/ Handled(<<h, n>>) = <<p>> \o <<q>> \/ Handled(<<h, n>>) = <<p>> \o <<>>
          \/ Handled(<<h, n>>) = <<>> \o <<q>> \/ Handled(<<h, n>>) = <<>> \o <<>>
      BY <2>2, <2>3, Zenon
    <3>2. <<>> \in Seq(Types \X Nat)
      OBVIOUS
    <3>3. <<>> \o <<>> = <<>>
      BY <1>3, <3>2, Zenon
    <3> QED
      BY <3>1, <3>3, Zenon
  <2>6. Reaches(h, "STATE") /\ Reaches(h, "CANCEL")
    BY <1>4, Zenon DEF Reaches
  <2>7. Good(<<p>>) /\ Good(<<q>>)
    BY <1>0, <1>2, <2>3, <2>6, Zenon
  <2>8. Good(<<p>> \o <<q>>)
    <3> DEFINE s == <<p>> \o <<q>>
    <3>1. s \in Seq(Types \X Nat) /\ Distinct(s) /\ \A i \in DOMAIN s : s[i] \in {p, q}
      BY <2>3, Short, Zenon
    <3> HIDE DEF s
    <3>2. Good(s)
      BY <1>0, <2>3, <2>6, <3>1, Zenon
    <3> QED
      BY <3>2, Zenon DEF s
  <2> QED
    <3>1. <<p>> \o <<>> = <<p>> /\ <<>> \o <<q>> = <<q>>
      BY <1>3, <2>4, Zenon
    <3> HIDE DEF Good
    <3>2. Good(Handled(<<h, n>>))
      BY <1>1, <2>5, <2>7, <2>8, <3>1, Zenon
    <3> QED
      BY <3>2, Zenon DEF Good
<1>5. CASE h = "Start"
  <2>1. Handled(<<h, n>>) = IF "STATE" \in obs THEN <<<<"STATE", n>>>> ELSE <<>>
    BY <1>5, Zenon DEF Handled, HandleOnContinuousTaskStart
  <2>2. "STATE" \in Types /\ Reaches(h, "STATE")
    BY <1>0, <1>5, Zenon DEF Reaches
  <2>3. Good(<<<<"STATE", n>>>>)
    BY <1>2, <2>2, Zenon
  <2> HIDE DEF Good
  <2>4. Good(Handled(<<h, n>>))
    BY <1>1, <2>1, <2>3, Zenon
  <2> QED
    BY <2>4, Zenon DEF Good
<1>6. CASE h = "Update"
  <2>1. Handled(<<h, n>>) = IF "STATE" \in obs THEN <<<<"STATE", n>>>> ELSE <<>>
    BY <1>6, Zenon DEF Handled, HandleOnContinuousTaskUpdate
  <2>2. "STATE" \in Types /\ Reaches(h, "STATE")
    BY <1>0, <1>6, Zenon DEF Reaches
  <2>3. Good(<<<<"STATE", n>>>>)
    BY <1>2, <2>2, Zenon
  <2> HIDE DEF Good
  <2>4. Good(Handled(<<h, n>>))
    BY <1>1, <2>1, <2>3, Zenon
  <2> QED
    BY <2>4, Zenon DEF Good
<1>7. CASE h = "Suspend"
  <2>1. Handled(<<h, n>>) = IF "SUSPEND" \in obs THEN <<<<"SUSPEND", n>>>> ELSE <<>>
    BY <1>7, Zenon DEF Handled, HandleOnContinuousTaskSuspend
  <2>2. "SUSPEND" \in Types /\ Reaches(h, "SUSPEND")
    BY <1>0, <1>7, Zenon DEF Reaches
  <2>3. Good(<<<<"SUSPEND", n>>>>)
    BY <1>2, <2>2, Zenon
  <2> HIDE DEF Good
  <2>4. Good(Handled(<<h, n>>))
    BY <1>1, <2>1, <2>3, Zenon
  <2> QED
    BY <2>4, Zenon DEF Good
<1>8. CASE h = "Active"
  <2>1. Handled(<<h, n>>) = IF "ACTIVE" \in obs THEN <<<<"ACTIVE", n>>>> ELSE <<>>
    BY <1>8, Zenon DEF Handled, HandleOnContinuousTaskActive
  <2>2. "ACTIVE" \in Types /\ Reaches(h, "ACTIVE")
    BY <1>0, <1>8, Zenon DEF Reaches
  <2>3. Good(<<<<"ACTIVE", n>>>>)
    BY <1>2, <2>2, Zenon
  <2> HIDE DEF Good
  <2>4. Good(Handled(<<h, n>>))
    BY <1>1, <2>1, <2>3, Zenon
  <2> QED
    BY <2>4, Zenon DEF Good
<1> QED
  BY <1>4, <1>5, <1>6, <1>7, <1>8, Zenon DEF Handlers

\* The calls for one event lead to functions of different types.
LEMMA OneCallEach ==
  ASSUME NEW e \in Events, NEW f, NEW g \in Handlers, NEW h \in Handlers, NEW T,
         Sends(e, f, g), Sends(e, f, h), Reaches(g, T), Reaches(h, T)
  PROVE  g = h
  BY Zenon DEF Sends, Reaches, Handlers

-----------------------------------------------------------------------------
(* The inductive invariant.  A call of the manager is on the wire, waits   *)
(* for the JavaScript thread, or is used up: it is never in two places.    *)

EventTypes ==
  /\ flags \in SUBSET Types /\ obs \in SUBSET Types /\ sent \in Seq(Sent)
  /\ js.op = "on" => js.type \in Types
  /\ wire \in Seq(Handlers \X Nat) /\ tasks \in SUBSET (Handlers \X Nat) /\ calls \in Seq(Types \X Nat)

\* The call m was made for an event that was sent.
CausedBy(S, m) == m[2] \in DOMAIN S /\ Sends(S[m[2]].event, S[m[2]].flags, m[1])
Caused(m) == CausedBy(sent, m)

Under(m) == m \in tasks \/ \E i \in DOMAIN wire : wire[i] = m

EventInv ==
  /\ EventTypes
  /\ Distinct(wire) /\ Distinct(calls)
  /\ \A i \in DOMAIN wire : Caused(wire[i]) /\ wire[i] \notin tasks
  /\ \A m \in tasks : Caused(m)
  /\ \A i \in DOMAIN calls : \E h \in Handlers :
       Reaches(h, calls[i][1]) /\ Caused(<<h, calls[i][2]>>) /\ ~Under(<<h, calls[i][2]>>)

LEMMA EventsMatch == EventInv => CallsMatchEvents
<1> SUFFICES ASSUME EventInv PROVE CallsMatchEvents
  BY Zenon
<1>1. ASSUME NEW i \in DOMAIN calls
      PROVE  LET T == calls[i][1]
                 e == sent[calls[i][2]].event
                 watched == "STATE" \in sent[calls[i][2]].flags
             IN /\ T = "SUSPEND" => e.trigger = "SUSPEND" /\ e.own
                /\ T = "ACTIVE" => e.trigger = "ACTIVE" /\ e.own
                /\ T = "CANCEL" => watched \/ (e.trigger = "CANCEL" /\ CanNotifyHap(e))
                /\ T = "STATE" => ~e.standby /\ (watched \/ (e.trigger = "CANCEL" /\ CanNotifyHap(e)))
                /\ T \in {"SUSPEND", "ACTIVE", "CANCEL", "STATE"}
  <2>1. PICK h \in Handlers : Reaches(h, calls[i][1]) /\ Caused(<<h, calls[i][2]>>)
    BY Zenon DEF EventInv
  <2>2. Sends(sent[calls[i][2]].event, sent[calls[i][2]].flags, h)
    BY <2>1, Zenon DEF Caused, CausedBy
  <2> QED
    BY <2>1, <2>2, Zenon DEF Reaches, Sends
<1>2. \A i, k \in DOMAIN calls : calls[i] = calls[k] => i = k
  BY Zenon DEF EventInv, Distinct
<1> QED
  BY <1>1, <1>2, Zenon DEF CallsMatchEvents

LEMMA EventFrame ==
  ASSUME EventInv, EventTypes', UNCHANGED <<wire, tasks, calls>>,
         \A n \in DOMAIN sent : n \in DOMAIN sent' /\ sent'[n].event = sent[n].event /\ sent'[n].flags = sent[n].flags
  PROVE  EventInv'
<1>1. \A m : Caused(m) => CausedBy(sent', m)
  BY Zenon DEF Caused, CausedBy
<1>2. \A m : Under(m)' <=> Under(m)
  BY Zenon DEF Under
<1>3. Distinct(wire)' /\ Distinct(calls)'
  BY Zenon DEF EventInv, Distinct
<1>4. (\A i \in DOMAIN wire : Caused(wire[i]) /\ wire[i] \notin tasks)'
  BY <1>1, Zenon DEF EventInv, Caused
<1>5. (\A m \in tasks : Caused(m))'
  BY <1>1, Zenon DEF EventInv, Caused
<1>6. (\A i \in DOMAIN calls : \E h \in Handlers :
         Reaches(h, calls[i][1]) /\ Caused(<<h, calls[i][2]>>) /\ ~Under(<<h, calls[i][2]>>))'
  BY <1>1, <1>2, Zenon DEF EventInv, Caused
<1> QED
  BY <1>3, <1>4, <1>5, <1>6, Zenon DEF EventInv

LEMMA EventNotify ==
  ASSUME EventInv, NEW e \in Events, NotifySubscribers(e)
  PROVE  EventInv'
<1> DEFINE n == Len(sent) + 1
           out == Notified(e, flags)
           new == [i \in DOMAIN out |-> <<out[i], n>>]
           s == [event |-> e, flags |-> flags, kept |-> obs]
<1>0. /\ sent' = Append(sent, s) /\ wire' = wire \o new
      /\ UNCHANGED <<flags, obs, live, js, tasks, calls, turns>>
  BY Zenon DEF NotifySubscribers
<1>1. /\ flags \in SUBSET Types /\ sent \in Seq(Sent) /\ n \in Nat /\ DOMAIN sent = 1 .. Len(sent)
      /\ wire \in Seq(Handlers \X Nat) /\ Distinct(wire)
  BY DEF EventInv, EventTypes
<1>2. out \in Seq(Handlers) /\ Distinct(out) /\ \A i \in DOMAIN out : Sends(e, flags, out[i])
  BY <1>1, NotifiedFacts, Zenon
<1>3. s \in Sent /\ s.event = e /\ s.flags = flags
  BY <1>1, Zenon DEF Sent, EventInv, EventTypes
<1> HIDE DEF out, s
<1>4. new \in Seq(Handlers \X Nat) /\ DOMAIN new = DOMAIN out /\ \A i \in DOMAIN new : new[i] = <<out[i], n>>
  <2>1. DOMAIN out = 1 .. Len(out) /\ Len(out) \in Nat /\ \A i \in 1 .. Len(out) : <<out[i], n>> \in Handlers \X Nat
    BY <1>1, <1>2
  <2>2. new \in [1 .. Len(out) -> Handlers \X Nat]
    BY <2>1, Zenon
  <2> QED
    BY <2>1, <2>2
<1> HIDE DEF new
<1>5. sent' \in Seq(Sent) /\ sent'[n] = s /\ n \in DOMAIN sent' /\ n \notin DOMAIN sent
      /\ \A k \in DOMAIN sent : k \in DOMAIN sent' /\ sent'[k] = sent[k]
  BY <1>0, <1>1, <1>3
<1> HIDE DEF n
<1>6. Distinct(new)
  BY <1>2, <1>4 DEF Distinct
<1>7. \A i \in DOMAIN wire : wire[i][2] # n
  BY <1>5, Zenon DEF EventInv, Caused, CausedBy
<1>8. Apart(wire, new)
  BY <1>4, <1>7 DEF Apart
<1>9. /\ wire' \in Seq(Handlers \X Nat) /\ Distinct(wire')
      /\ \A i \in DOMAIN wire' : (i \in DOMAIN wire /\ wire'[i] = wire[i]) \/ \E k \in DOMAIN new : wire'[i] = new[k]
  BY <1>0, <1>1, <1>4, <1>6, <1>8, Joined
<1>10. \A m : Caused(m) => CausedBy(sent', m)
  BY <1>5, Zenon DEF Caused, CausedBy
<1>11. \A k \in DOMAIN new : CausedBy(sent', new[k]) /\ new[k] \notin tasks
  <2>1. \A m \in tasks : m[2] # n
    BY <1>5, Zenon DEF EventInv, Caused, CausedBy
  <2> QED
    <3> SUFFICES ASSUME NEW k \in DOMAIN new PROVE CausedBy(sent', new[k]) /\ new[k] \notin tasks
      BY Zenon
    <3>1. new[k] = <<out[k], n>> /\ new[k][1] = out[k] /\ new[k][2] = n /\ Sends(e, flags, out[k])
      BY <1>2, <1>4
    <3>2. sent'[n].event = e /\ sent'[n].flags = flags /\ n \in DOMAIN sent'
      BY <1>3, <1>5, Zenon
    <3> QED
      BY <2>1, <3>1, <3>2, Zenon DEF CausedBy
<1>12. (\A i \in DOMAIN wire : Caused(wire[i]) /\ wire[i] \notin tasks)'
  <2> SUFFICES ASSUME NEW i \in DOMAIN wire' PROVE CausedBy(sent', wire'[i]) /\ wire'[i] \notin tasks'
    BY Zenon DEF Caused
  <2> QED
    BY <1>0, <1>9, <1>10, <1>11, Zenon DEF EventInv, Caused
<1>13. (\A m \in tasks : Caused(m))'
  BY <1>0, <1>10, Zenon DEF EventInv, Caused
<1>14. ASSUME NEW i \in DOMAIN calls'
       PROVE  (\E h \in Handlers :
                 Reaches(h, calls[i][1]) /\ Caused(<<h, calls[i][2]>>) /\ ~Under(<<h, calls[i][2]>>))'
  <2>1. PICK h \in Handlers : Reaches(h, calls[i][1]) /\ Caused(<<h, calls[i][2]>>) /\ ~Under(<<h, calls[i][2]>>)
    BY <1>0, <1>14, Zenon DEF EventInv
  <2>2. calls[i][2] # n
    BY <1>5, <2>1, Zenon DEF Caused, CausedBy
  <2>3. \A k \in DOMAIN new : new[k] # <<h, calls[i][2]>>
    BY <1>4, <2>2
  <2>4. ~Under(<<h, calls[i][2]>>)'
    BY <1>0, <1>9, <2>1, <2>3, Zenon DEF Under
  <2> QED
    BY <1>0, <1>10, <2>1, <2>4, Zenon DEF Caused
<1>15. EventTypes' /\ Distinct(calls)'
  BY <1>0, <1>5, <1>9, Zenon DEF EventInv, EventTypes, Distinct
<1> QED
  BY <1>9, <1>12, <1>13, <1>14, <1>15, Zenon DEF EventInv

LEMMA EventSchedule ==
  ASSUME EventInv, Schedule
  PROVE  EventInv'
<1>0. /\ wire # <<>> /\ wire' = Tail(wire) /\ (tasks' = tasks \cup {Head(wire)} \/ tasks' = tasks)
      /\ UNCHANGED <<flags, obs, live, js, calls, sent, turns>>
  BY Zenon DEF Schedule
<1>1. wire \in Seq(Handlers \X Nat) /\ Distinct(wire)
  BY Zenon DEF EventInv, EventTypes
<1>2. /\ 1 \in DOMAIN wire /\ Head(wire) = wire[1] /\ wire' \in Seq(Handlers \X Nat)
      /\ wire[1] \in Handlers \X Nat
      /\ \A i \in DOMAIN wire' : i \in Nat /\ i + 1 # 1 /\ i + 1 \in DOMAIN wire /\ wire'[i] = wire[i + 1]
  BY <1>0, <1>1
<1>3. Distinct(wire)'
  BY <1>1, <1>2, SMTT(30) DEF Distinct
<1>4. \A m : (Caused(m) <=> Caused(m)') /\ (Under(m)' => Under(m))
  BY <1>0, <1>2, Zenon DEF Caused, Under
<1>5. (\A i \in DOMAIN wire : Caused(wire[i]) /\ wire[i] \notin tasks)'
  <2> SUFFICES ASSUME NEW i \in DOMAIN wire' PROVE CausedBy(sent', wire'[i]) /\ wire'[i] \notin tasks'
    BY Zenon DEF Caused
  <2>1. i + 1 # 1 /\ i + 1 \in DOMAIN wire /\ wire'[i] = wire[i + 1]
    BY <1>2, Zenon
  <2>2. wire[i + 1] # wire[1]
    BY <1>1, <1>2, <2>1, Zenon DEF Distinct
  <2> QED
    BY <1>0, <1>2, <2>1, <2>2, Zenon DEF EventInv, Caused
<1>6. (\A m \in tasks : Caused(m))'
  BY <1>0, <1>2, <1>4 DEF EventInv
<1>7. ASSUME NEW i \in DOMAIN calls'
      PROVE  (\E h \in Handlers :
                Reaches(h, calls[i][1]) /\ Caused(<<h, calls[i][2]>>) /\ ~Under(<<h, calls[i][2]>>))'
  <2>1. PICK h \in Handlers : Reaches(h, calls[i][1]) /\ Caused(<<h, calls[i][2]>>) /\ ~Under(<<h, calls[i][2]>>)
    BY <1>0, <1>7, Zenon DEF EventInv
  <2> QED
    BY <1>0, <1>4, <2>1, Zenon
<1>8. EventTypes' /\ Distinct(calls)'
  BY <1>0, <1>2, Zenon DEF EventInv, EventTypes, Distinct
<1> QED
  BY <1>3, <1>5, <1>6, <1>7, <1>8, Zenon DEF EventInv

LEMMA EventRun ==
  ASSUME EventInv, NEW t \in tasks, Run(t)
  PROVE  EventInv'
<1>0. /\ tasks' = tasks \ {t} /\ (calls' = calls \o Handled(t) \/ calls' = calls)
      /\ UNCHANGED <<flags, obs, live, js, wire, sent, turns>>
  BY Zenon DEF Run
<1>1. PICK h \in Handlers, n \in Nat : t = <<h, n>>
  BY DEF EventInv, EventTypes
<1>2. Caused(<<h, n>>) /\ Under(t)
  BY <1>1, Zenon DEF EventInv, Under
<1>3. \A m : (Caused(m) <=> Caused(m)') /\ (Under(m)' => Under(m))
  BY <1>0, Zenon DEF Caused, Under
<1>4. ~Under(t)'
  BY <1>0, Zenon DEF Under, EventInv
<1>5. EventTypes' /\ Distinct(calls')
      /\ \A i \in DOMAIN calls' : \/ i \in DOMAIN calls /\ calls'[i] = calls[i]
                                  \/ \E T \in Types : calls'[i] = <<T, n>> /\ Reaches(h, T)
  <2>1. CASE calls' = calls
    BY <1>0, <2>1, Zenon DEF EventInv, EventTypes, Distinct
  <2>2. CASE calls' = calls \o Handled(t)
    <3> DEFINE x == Handled(t)
    <3>1. x \in Seq(Types \X Nat) /\ Distinct(x) /\ \A i \in DOMAIN x : \E T \in Types : x[i] = <<T, n>> /\ Reaches(h, T)
      BY <1>1, HandledFacts, Zenon
    <3> HIDE DEF x
    <3>2. ASSUME NEW i \in DOMAIN calls, NEW k \in DOMAIN x, calls[i] = x[k]
          PROVE  FALSE
      <4>1. PICK T \in Types : x[k] = <<T, n>> /\ Reaches(h, T)
        BY <3>1, Zenon
      <4>2. PICK g \in Handlers : Reaches(g, calls[i][1]) /\ Caused(<<g, calls[i][2]>>) /\ ~Under(<<g, calls[i][2]>>)
        BY Zenon DEF EventInv
      <4>3. calls[i][1] = T /\ calls[i][2] = n
        BY <3>2, <4>1
      <4>4. n \in DOMAIN sent /\ sent[n].event \in Events /\ Sends(sent[n].event, sent[n].flags, h)
            /\ Sends(sent[n].event, sent[n].flags, g)
        <5>1. CausedBy(sent, <<h, n>>) /\ CausedBy(sent, <<g, n>>)
          BY <1>2, <4>2, <4>3, Zenon DEF Caused
        <5>2. n \in DOMAIN sent /\ Sends(sent[n].event, sent[n].flags, h) /\ Sends(sent[n].event, sent[n].flags, g)
          BY <5>1, Zenon DEF CausedBy
        <5>3. sent[n] \in Sent
          BY <5>2 DEF EventInv, EventTypes
        <5> QED
          BY <5>2, <5>3, Zenon DEF Sent
      <4>5. g = h
        BY <4>1, <4>2, <4>3, <4>4, OneCallEach, Zenon
      <4> QED
        BY <1>1, <1>2, <4>2, <4>3, <4>5, Zenon
    <3>3. Apart(calls, x)
      BY <3>2, Zenon DEF Apart
    <3>4. calls \in Seq(Types \X Nat) /\ Distinct(calls) /\ calls' = calls \o x
      BY <2>2, Zenon DEF EventInv, EventTypes, x
    <3>5. /\ calls' \in Seq(Types \X Nat) /\ Distinct(calls')
          /\ \A i \in DOMAIN calls' : \/ i \in DOMAIN calls /\ calls'[i] = calls[i]
                                      \/ \E k \in DOMAIN x : calls'[i] = x[k]
      BY <3>1, <3>3, <3>4, Joined
    <3>6. EventTypes'
      BY <1>0, <3>5, Zenon DEF EventInv, EventTypes
    <3> QED
      BY <3>1, <3>5, <3>6, Zenon
  <2> QED
    BY <1>0, <2>1, <2>2, Zenon
<1>6. (\A i \in DOMAIN wire : Caused(wire[i]) /\ wire[i] \notin tasks)'
  BY <1>0, <1>3, Zenon DEF EventInv
<1>7. (\A m \in tasks : Caused(m))'
  BY <1>0, <1>3, Zenon DEF EventInv
<1>8. ASSUME NEW i \in DOMAIN calls'
      PROVE  (\E g \in Handlers :
                Reaches(g, calls[i][1]) /\ Caused(<<g, calls[i][2]>>) /\ ~Under(<<g, calls[i][2]>>))'
  <2>1. CASE i \in DOMAIN calls /\ calls'[i] = calls[i]
    <3>1. PICK g \in Handlers : Reaches(g, calls[i][1]) /\ Caused(<<g, calls[i][2]>>) /\ ~Under(<<g, calls[i][2]>>)
      BY <2>1, Zenon DEF EventInv
    <3> QED
      BY <1>3, <2>1, <3>1, Zenon
  <2>2. CASE \E T \in Types : calls'[i] = <<T, n>> /\ Reaches(h, T)
    <3>1. PICK T \in Types : calls'[i] = <<T, n>> /\ Reaches(h, T)
      BY <2>2, Zenon
    <3>2. calls'[i][1] = T /\ calls'[i][2] = n
      BY <3>1
    <3>3. Caused(<<h, n>>)' /\ ~Under(<<h, n>>)'
      BY <1>1, <1>2, <1>3, <1>4, Zenon
    <3> QED
      BY <3>1, <3>2, <3>3, Zenon
  <2> QED
    BY <1>5, <1>8, <2>1, <2>2, Zenon
<1>9. Distinct(wire)'
  BY <1>0, Zenon DEF EventInv, Distinct
<1> QED
  BY <1>5, <1>6, <1>7, <1>8, <1>9, Zenon DEF EventInv

(***************************************************************************)
(* A function is called only for the events its type is about, and once    *)
(* for each: for any number of events and of on() and off(), in every      *)
(* order of delivery.                                                      *)
(***************************************************************************)
THEOREM CallsAlwaysMatchEvents == EventsSpec => []CallsMatchEvents
<1>1. EventsInit => EventInv
  <2> SUFFICES ASSUME EventsInit PROVE EventInv
    BY Zenon
  <2>1. wire = <<>> /\ calls = <<>> /\ sent = <<>> /\ tasks = {} /\ flags = {} /\ obs = {} /\ js = Free
    BY Zenon DEF EventsInit
  <2>2. EventTypes
    <3>1. js.op # "on"
      BY <2>1, Zenon DEF Free
    <3>2. wire \in Seq(Handlers \X Nat) /\ calls \in Seq(Types \X Nat) /\ sent \in Seq(Sent)
      BY <2>1
    <3> QED
      BY <2>1, <3>1, <3>2, Zenon DEF EventTypes
  <2> QED
    BY <2>1, <2>2 DEF EventInv, Distinct
<1>2. ASSUME EventInv, [EventsNext]_eventVars
      PROVE  EventInv'
  <2>1. CASE UNCHANGED eventVars
    BY <1>2, <2>1, EventFrame, Zenon DEF eventVars, EventInv, EventTypes
  <2>2. ASSUME NEW e \in Events, NotifySubscribers(e)
        PROVE  EventInv'
    BY <1>2, <2>2, EventNotify, Zenon
  <2>3. ASSUME NEW T \in Types, On(T)
        PROVE  EventInv'
    <3>1. js' = [op |-> "on", type |-> T] /\ flags' = flags \cup {T} /\ UNCHANGED <<obs, wire, tasks, calls, sent>>
      BY <2>3, Zenon DEF On
    <3>2. EventTypes'
      BY <1>2, <3>1, Zenon DEF EventInv, EventTypes
    <3> QED
      BY <1>2, <3>1, <3>2, EventFrame, Zenon
  <2>4. ASSUME NEW T \in Types, Off(T)
        PROVE  EventInv'
    <3>1. /\ js' = [op |-> "off", type |-> T] /\ obs' = obs \ {T} /\ UNCHANGED <<flags, wire, tasks, calls>>
          /\ sent' = [n \in DOMAIN sent |-> [sent[n] EXCEPT !.kept = @ \ {T}]]
      BY <2>4, Zenon DEF Off
    <3>2. sent \in Seq(Sent) /\ DOMAIN sent = 1 .. Len(sent) /\ Len(sent) \in Nat
      BY <1>2 DEF EventInv, EventTypes
    <3>3. \A n \in DOMAIN sent : LET x == [sent[n] EXCEPT !.kept = @ \ {T}]
                                 IN x \in Sent /\ x.event = sent[n].event /\ x.flags = sent[n].flags
      <4> SUFFICES ASSUME NEW r \in Sent
                   PROVE  LET x == [r EXCEPT !.kept = @ \ {T}]
                          IN x \in Sent /\ x.event = r.event /\ x.flags = r.flags
        BY <3>2
      <4>1. PICK K \in SUBSET Types : K = r.kept \ {T}
        BY Zenon DEF Sent
      <4>2. [r EXCEPT !.kept = K] \in Sent /\ [r EXCEPT !.kept = K].event = r.event /\ [r EXCEPT !.kept = K].flags = r.flags
        BY Zenon DEF Sent
      <4> QED
        BY <4>1, <4>2, Zenon
    <3>4. sent' \in [1 .. Len(sent) -> Sent]
      BY <3>1, <3>2, <3>3, Zenon
    <3>5. sent' \in Seq(Sent)
      BY <3>2, <3>4
    <3>6. \A n \in DOMAIN sent : n \in DOMAIN sent' /\ sent'[n].event = sent[n].event /\ sent'[n].flags = sent[n].flags
      BY <3>1, <3>3, Zenon
    <3>7. EventTypes'
      BY <1>2, <3>1, <3>5, Zenon DEF EventInv, EventTypes
    <3> QED
      BY <1>2, <3>1, <3>6, <3>7, EventFrame, Zenon
  <2>5. CASE OnReturns
    <3>1. obs' = obs \cup {js.type} /\ js.op = "on" /\ js' = Free /\ UNCHANGED <<flags, wire, tasks, calls, sent>>
      BY <2>5, Zenon DEF OnReturns
    <3>2. EventTypes'
      BY <1>2, <3>1, Zenon DEF EventInv, EventTypes, Free
    <3> QED
      BY <1>2, <3>1, <3>2, EventFrame, Zenon
  <2>6. CASE OffReturns
    <3>1. flags' = flags \ {js.type} /\ js' = Free /\ UNCHANGED <<obs, wire, tasks, calls, sent>>
      BY <2>6, Zenon DEF OffReturns
    <3>2. EventTypes'
      BY <1>2, <3>1, Zenon DEF EventInv, EventTypes, Free
    <3> QED
      BY <1>2, <3>1, <3>2, EventFrame, Zenon
  <2>7. CASE Schedule
    BY <1>2, <2>7, EventSchedule, Zenon
  <2>8. ASSUME NEW t \in tasks, Run(t)
        PROVE  EventInv'
    BY <1>2, <2>8, EventRun, Zenon
  <2> QED
    BY <1>2, <2>1, <2>2, <2>3, <2>4, <2>5, <2>6, <2>7, <2>8, Zenon DEF EventsNext
<1> QED
  BY <1>1, <1>2, EventsMatch, PTL DEF EventsSpec

-----------------------------------------------------------------------------
(* Modes.                                                                  *)

\* The mode a pair is converted to.
Converted(mode, sub) ==
  IF sub = "NORMAL" THEN GetV9BackgroundModeByMode(mode) ELSE GetV9BackgroundModeBySubMode(sub)

LEMMA PlainPair ==
  ASSUME NEW mode, PairError(mode, "NORMAL") = ""
  PROVE  /\ mode \in PlainModes
         /\ mode = "ALLOW_WIFI_AWARE" => GetV9BackgroundModeByMode(mode) = "WIFI_INTERACTION"
         /\ mode # "ALLOW_WIFI_AWARE" => GetV9BackgroundModeByMode(mode) = mode
<1>0. "NORMAL" \in BackgroundTaskSubmode
  BY Zenon DEF BackgroundTaskSubmode
<1>1. mode \in PlainModes
  <2> SUFFICES ASSUME mode \notin PlainModes PROVE FALSE
    BY Zenon
  <2>1. PairError(mode, "NORMAL") = "type_mismatch"
    BY <1>0, Zenon DEF PairError, IsModeTypeMatching
  <2> QED
    BY <2>1, Zenon
<1>2. ASSUME mode = "ALLOW_WIFI_AWARE"
      PROVE  GetV9BackgroundModeByMode(mode) = "WIFI_INTERACTION"
  BY <1>2, Zenon DEF GetV9BackgroundModeByMode
<1>3. ASSUME mode # "ALLOW_WIFI_AWARE"
      PROVE  GetV9BackgroundModeByMode(mode) = mode
  <2>1. mode \in (PlainModes \ {"ALLOW_WIFI_AWARE"}) \cup {"SPECIAL_SCENARIO_PROCESSING"}
    BY <1>1, <1>3, Zenon
  <2> QED
    BY <1>3, <2>1, Zenon DEF GetV9BackgroundModeByMode
<1> QED
  BY <1>1, <1>2, <1>3, Zenon

LEMMA SubPair ==
  ASSUME NEW mode, NEW sub, sub # "NORMAL", PairError(mode, sub) = ""
  PROVE  LET old == GetV9BackgroundModeBySubMode(sub)
         IN \/ sub = "LIVE_VIEW" /\ mode = "DATA_TRANSFER" /\ old = "DATA_TRANSFER"
            \/ sub = "CAR_KEY_NORMAL" /\ mode = "BLUETOOTH_INTERACTION" /\ old = "BLUETOOTH_INTERACTION"
            \/ /\ sub \in {"AUDIO_PLAYBACK_NORMAL", "AVSESSION_AUDIO_PLAYBACK"}
               /\ mode = "AV_PLAYBACK_AND_RECORD" /\ old = "AUDIO_PLAYBACK"
            \/ sub \in Recording /\ mode = "AV_PLAYBACK_AND_RECORD" /\ old = "AUDIO_RECORDING"
            \/ sub = "VOICE_CHAT_NORMAL" /\ mode = "AV_PLAYBACK_AND_RECORD" /\ old = "VOIP"
            \/ /\ sub \in SpecialSubmodes
               /\ mode = "SPECIAL_SCENARIO_PROCESSING" /\ old = "SPECIAL_SCENARIO_PROCESSING"
<1>1. sub \in BackgroundTaskSubmode
  <2> SUFFICES ASSUME sub \notin BackgroundTaskSubmode PROVE FALSE
    BY Zenon
  <2>1. PairError(mode, sub) = "cross_border"
    <3>1. "NORMAL" \in BackgroundTaskSubmode
      BY Zenon DEF BackgroundTaskSubmode
    <3> QED
      BY <3>1, Zenon DEF PairError
  <2> QED
    BY <2>1, Zenon
<1>2. GetSubModeTypeMatching(sub) = mode
  <2> SUFFICES ASSUME GetSubModeTypeMatching(sub) # mode PROVE FALSE
    BY Zenon
  <2>1. PairError(mode, sub) = "type_mismatch"
    BY <1>1, Zenon DEF PairError
  <2> QED
    BY <2>1, Zenon
<1>3. CASE sub = "LIVE_VIEW"
  BY <1>2, <1>3, Zenon
     DEF GetSubModeTypeMatching, GetV9BackgroundModeBySubMode, AvSubmodes, SpecialSubmodes
<1>4. CASE sub = "CAR_KEY_NORMAL"
  BY <1>2, <1>4, Zenon
     DEF GetSubModeTypeMatching, GetV9BackgroundModeBySubMode, AvSubmodes, SpecialSubmodes
<1>5. CASE sub \in {"AUDIO_PLAYBACK_NORMAL", "AVSESSION_AUDIO_PLAYBACK"}
  BY <1>2, <1>5, Zenon
     DEF GetSubModeTypeMatching, GetV9BackgroundModeBySubMode, AvSubmodes, SpecialSubmodes
<1>6. CASE sub \in Recording
  BY <1>2, <1>6, Zenon
     DEF GetSubModeTypeMatching, GetV9BackgroundModeBySubMode, AvSubmodes, SpecialSubmodes,
     Recording
<1>7. CASE sub = "VOICE_CHAT_NORMAL"
  BY <1>2, <1>7, Zenon
     DEF GetSubModeTypeMatching, GetV9BackgroundModeBySubMode, AvSubmodes, SpecialSubmodes
<1>8. CASE sub \in SpecialSubmodes
  BY <1>2, <1>8, Zenon
     DEF GetSubModeTypeMatching, GetV9BackgroundModeBySubMode, AvSubmodes, SpecialSubmodes
<1> QED
  BY <1>1, <1>3, <1>4, <1>5, <1>6, <1>7, <1>8, Zenon
     DEF BackgroundTaskSubmode, AvSubmodes, SpecialSubmodes, Recording

LEMMA PairConverted ==
  ASSUME NEW mode, NEW sub, PairError(mode, sub) = ""
  PROVE  LET old == Converted(mode, sub)
         IN /\ old \in BackgroundMode /\ AsksFor(mode, sub, old)
            /\ old \in {"SPECIAL_SCENARIO_PROCESSING", "DATA_TRANSFER"} => mode = old
<1> DEFINE old == Converted(mode, sub)
<1>1. CASE sub = "NORMAL"
  <2>1. /\ mode \in PlainModes
        /\ mode = "ALLOW_WIFI_AWARE" => old = "WIFI_INTERACTION"
        /\ mode # "ALLOW_WIFI_AWARE" => old = mode
    BY <1>1, PlainPair, Zenon DEF Converted
  <2> HIDE DEF old
  <2>2. mode # "AV_PLAYBACK_AND_RECORD"
    BY <2>1, Zenon DEF PlainModes
  <2>3. AsksFor(mode, sub, old)
    BY <2>1, <2>2, Zenon DEF AsksFor
  <2>4. old \in BackgroundMode /\ (old \in {"SPECIAL_SCENARIO_PROCESSING", "DATA_TRANSFER"} => mode = old)
    BY <2>1, Zenon DEF PlainModes, BackgroundMode
  <2> QED
    BY <2>3, <2>4, Zenon DEF old
<1>2. CASE sub # "NORMAL"
  <2>1. \/ sub = "LIVE_VIEW" /\ mode = "DATA_TRANSFER" /\ old = "DATA_TRANSFER"
        \/ sub = "CAR_KEY_NORMAL" /\ mode = "BLUETOOTH_INTERACTION" /\ old = "BLUETOOTH_INTERACTION"
        \/ /\ sub \in {"AUDIO_PLAYBACK_NORMAL", "AVSESSION_AUDIO_PLAYBACK"}
           /\ mode = "AV_PLAYBACK_AND_RECORD" /\ old = "AUDIO_PLAYBACK"
        \/ sub \in Recording /\ mode = "AV_PLAYBACK_AND_RECORD" /\ old = "AUDIO_RECORDING"
        \/ sub = "VOICE_CHAT_NORMAL" /\ mode = "AV_PLAYBACK_AND_RECORD" /\ old = "VOIP"
        \/ /\ sub \in SpecialSubmodes
           /\ mode = "SPECIAL_SCENARIO_PROCESSING" /\ old = "SPECIAL_SCENARIO_PROCESSING"
    <3>1. old = GetV9BackgroundModeBySubMode(sub)
      BY <1>2, Zenon DEF Converted
    <3> HIDE DEF old
    <3> QED
      BY <1>2, <3>1, SubPair, Zenon
  <2> HIDE DEF old
  <2>2. old \in BackgroundMode /\ (old \in {"SPECIAL_SCENARIO_PROCESSING", "DATA_TRANSFER"} => mode = old)
    BY <2>1, Zenon DEF BackgroundMode
  <2>3. CASE mode = "AV_PLAYBACK_AND_RECORD"
    <3>1. /\ old \in {"AUDIO_PLAYBACK", "AUDIO_RECORDING", "VOIP"}
          /\ (old = "AUDIO_RECORDING") <=> (sub \in Recording)
          /\ (old = "VOIP") <=> (sub = "VOICE_CHAT_NORMAL")
      BY <2>1, <2>3, Zenon DEF Recording
    <3>2. AsksFor(mode, sub, old)
      BY <2>3, <3>1, Zenon DEF AsksFor
    <3> QED
      BY <2>2, <3>2, Zenon DEF old
  <2>4. CASE mode # "AV_PLAYBACK_AND_RECORD"
    <3>1. mode # "ALLOW_WIFI_AWARE" /\ old = mode
      BY <2>1, <2>4, Zenon
    <3>2. AsksFor(mode, sub, old)
      BY <2>4, <3>1, Zenon DEF AsksFor
    <3> QED
      BY <2>2, <3>2, Zenon DEF old
  <2> QED
    BY <2>3, <2>4, Zenon
<1> QED
  BY <1>1, <1>2, Zenon

\* A set of positions has a first one.
LEMMA FirstOf ==
  ASSUME NEW S \in SUBSET Nat, S # {}
  PROVE  \E i \in S : \A k \in S : i <= k
<1>1. PICK i \in S : \A k \in S : ~(<<k, i>> \in OpToRel(<, Nat))
  BY NatLessThanWellFounded, WFMin, Zenon
<1>2. \A k \in S : ~(k < i)
  BY <1>1, Zenon DEF OpToRel
<1> QED
  BY <1>2

LEMMA Counted ==
  ASSUME NEW M, NEW modes \in Seq(M), NEW x
  PROVE  /\ Count(modes, x) \in Nat
         /\ \A i \in DOMAIN modes : modes[i] = x => Count(modes, x) > 0
<1> DEFINE S == {i \in DOMAIN modes : modes[i] = x}
<1>1. IsFiniteSet(1 .. Len(modes))
  BY FS_Interval
<1>2. IsFiniteSet(S)
  <2>1. S \subseteq 1 .. Len(modes)
    OBVIOUS
  <2> QED
    BY <1>1, <2>1, FS_Subset, Zenon
<1>3. Cardinality(S) \in Nat /\ (S # {} => Cardinality(S) # 0)
  BY <1>2, FS_CardinalityType, FS_EmptySet, Zenon
<1>4. Count(modes, x) = Cardinality(S)
  BY Zenon DEF Count
<1>5. \A i \in DOMAIN modes : modes[i] = x => S # {}
  BY Zenon
<1> HIDE DEF S
<1> QED
  BY <1>3, <1>4, <1>5

\* The answer to a request without an error.
NoError == ""

LEMMA NoErrorFacts ==
  /\ NoError # "empty" /\ NoError # "length_mismatch" /\ NoError # "special_combined" /\ NoError # "transfer_combined"
  /\ NoError # "special_twice" /\ NoError # "special_with_others"
  BY Zenon DEF NoError

\* What a request without an error is like.
LEMMA Accepted ==
  ASSUME NEW M, NEW N, NEW modes \in Seq(M), NEW subs \in Seq(N), NEW combined,
         StartBackgroundRunningCheckModes(modes, subs, combined) = NoError
  PROVE  /\ Len(modes) = Len(subs)
         /\ CheckSpecialModeParma(modes, combined) = NoError
         /\ \A i \in DOMAIN subs : PairError(modes[i], subs[i]) = NoError
<1> DEFINE special == CheckSpecialModeParma(modes, combined)
           wrong == {i \in DOMAIN subs : i \in DOMAIN modes /\ PairError(modes[i], subs[i]) # NoError}
           err == StartBackgroundRunningCheckModes(modes, subs, combined)
           first == CHOOSE i \in wrong : \A k \in wrong : i <= k
<1>1. modes # <<>> /\ subs # <<>>
  <2>1. modes # <<>> /\ subs = <<>> => Len(modes) # Len(subs)
    OBVIOUS
  <2>2. modes = <<>> \/ subs = <<>> => err = "empty"
    BY <2>1, Zenon DEF StartBackgroundRunningCheckModes
  <2> QED
    BY <2>2, NoErrorFacts, Zenon
<1>2. Len(modes) = Len(subs)
  <2>1. Len(modes) # Len(subs) => err = "length_mismatch"
    BY <1>1, Zenon DEF StartBackgroundRunningCheckModes
  <2> QED
    BY <2>1, NoErrorFacts, Zenon
<1>3. special = NoError
  <2>1. special # NoError => err = special
    BY <1>1, <1>2, Zenon DEF StartBackgroundRunningCheckModes, NoError
  <2> QED
    BY <2>1, Zenon
<1>4. wrong = {}
  <2> SUFFICES ASSUME wrong # {} PROVE FALSE
    BY Zenon
  <2>1. err = PairError(modes[first], subs[first])
    BY <1>1, <1>2, <1>3, Zenon DEF StartBackgroundRunningCheckModes, NoError
  <2>2. wrong \in SUBSET Nat
    OBVIOUS
  <2> HIDE DEF wrong
  <2>3. first \in wrong
    BY <2>2, FirstOf, Zenon
  <2> HIDE DEF first
  <2>4. PairError(modes[first], subs[first]) # NoError
    BY <2>3, Zenon DEF wrong
  <2> QED
    BY <2>1, <2>4, Zenon
<1>5. DOMAIN modes = DOMAIN subs
  BY <1>2
<1> QED
  BY <1>2, <1>3, <1>4, <1>5, Zenon

\* A special scenario alone, and none of the two in a shared notification.
LEMMA SpecialAlone ==
  ASSUME NEW M, NEW modes \in Seq(M), NEW combined, CheckSpecialModeParma(modes, combined) = NoError,
         NEW i \in DOMAIN modes
  PROVE  /\ modes[i] = "SPECIAL_SCENARIO_PROCESSING" => Len(modes) = 1 /\ ~combined
         /\ modes[i] = "DATA_TRANSFER" => ~combined
<1> DEFINE special == Count(modes, "SPECIAL_SCENARIO_PROCESSING")
           transfer == Count(modes, "DATA_TRANSFER")
           err == CheckSpecialModeParma(modes, combined)
<1>1. special \in Nat /\ transfer \in Nat /\ Len(modes) \in Nat /\ Len(modes) > 0
      /\ (modes[i] = "SPECIAL_SCENARIO_PROCESSING" => special > 0)
      /\ (modes[i] = "DATA_TRANSFER" => transfer > 0)
  BY Counted
<1>2. /\ combined /\ special > 0 => err = "special_combined"
      /\ combined /\ special = 0 /\ transfer > 0 => err = "transfer_combined"
      /\ ~combined /\ special > 1 => err = "special_twice"
      /\ ~combined /\ special = 1 /\ Len(modes) > 1 => err = "special_with_others"
  <2>1. special = 1 => ~(special > 1)
    OBVIOUS
  <2>2. special = 0 => ~(special > 0)
    OBVIOUS
  <2> QED
    BY <2>1, <2>2, Zenon DEF CheckSpecialModeParma
<1> HIDE DEF special, transfer
<1>3. /\ special > 0 => ~combined /\ ~(special > 1) /\ ~(special = 1 /\ Len(modes) > 1)
      /\ special = 0 /\ transfer > 0 => ~combined
  BY <1>2, NoErrorFacts, Zenon
<1>4. (special > 0 \/ special = 0) /\ (special > 0 /\ ~(special > 1) => special = 1)
      /\ (~(Len(modes) > 1) => Len(modes) = 1)
  <2>1. special \in Nat /\ Len(modes) \in Nat /\ Len(modes) > 0
    BY <1>1, Zenon
  <2>2. \A n \in Nat : (n > 0 \/ n = 0) /\ (n > 0 /\ ~(n > 1) => n = 1)
    OBVIOUS
  <2> QED
    BY <2>1, <2>2, Zenon
<1> QED
  BY <1>1, <1>3, <1>4, Zenon

(***************************************************************************)
(* Whatever modes, submodes and number of them a request has: if it is     *)
(* accepted, it is converted to modes the manager knows, each the one its  *)
(* pair asks for, and the rules on special scenarios and shared            *)
(* notifications hold of the converted modes too.                          *)
(***************************************************************************)
THEOREM ModesAlwaysConvert ==
  ASSUME NEW M, NEW N, NEW Requests \in SUBSET [modes : Seq(M), subs : Seq(N), combined : BOOLEAN]
  PROVE  ModesSpec(Requests) => []ModesConvert
<1> DEFINE Inv == /\ req \in [modes : Seq(M), subs : Seq(N), combined : BOOLEAN]
                  /\ ModesConvert
<1>1. ModesInit(Requests) => Inv
  <2>1. Pending.err # ""
    BY Zenon DEF Pending
  <2> QED
    BY <2>1, Zenon DEF ModesInit, ModesConvert
<1>2. ASSUME Inv, Convert
      PROVE  Inv'
  <2> DEFINE combined == req.combined
             err == StartBackgroundRunningCheckModes(req.modes, req.subs, req.combined)
             old == TaskModeTypeConversion(req.modes, req.subs)
  <2>1. PICK modes \in Seq(M), subs \in Seq(N) :
           /\ modes = req.modes /\ subs = req.subs
           /\ res' = [err |-> err, old |-> IF err = NoError THEN old ELSE <<>>] /\ req' = req
    BY <1>2, Zenon DEF Convert, NoError
  <2>0. /\ modes = req.modes /\ subs = req.subs /\ combined = req.combined
        /\ err = StartBackgroundRunningCheckModes(modes, subs, combined)
        /\ old = TaskModeTypeConversion(modes, subs)
        /\ res' = [err |-> err, old |-> IF err = NoError THEN old ELSE <<>>] /\ req' = req
    BY <2>1, Zenon
  <2> HIDE DEF combined, err, old
  <2>2. CASE err # NoError
    BY <1>2, <2>0, <2>2, Zenon DEF ModesConvert, NoError
  <2>3. CASE err = NoError
    <3>1. Len(modes) = Len(subs) /\ CheckSpecialModeParma(modes, combined) = NoError
          /\ \A i \in DOMAIN subs : PairError(modes[i], subs[i]) = NoError
      <4>1. StartBackgroundRunningCheckModes(modes, subs, combined) = NoError
        BY <2>0, <2>3, Zenon
      <4> QED
        BY <4>1, Accepted, ZenonT(30)
    <3>2. res'.old = old
      BY <2>0, <2>3, Zenon
    <3>3. DOMAIN old = DOMAIN subs /\ DOMAIN subs = DOMAIN modes /\ Len(old) = Len(modes)
          /\ \A i \in DOMAIN old : old[i] = Converted(modes[i], subs[i])
      BY <2>0, <3>1 DEF TaskModeTypeConversion, Converted
    <3>4. ASSUME NEW i \in DOMAIN old
          PROVE  /\ old[i] \in BackgroundMode /\ AsksFor(modes[i], subs[i], old[i])
                 /\ old[i] \in {"SPECIAL_SCENARIO_PROCESSING", "DATA_TRANSFER"} => modes[i] = old[i]
      <4>1. PairError(modes[i], subs[i]) = NoError /\ old[i] = Converted(modes[i], subs[i])
        BY <3>1, <3>3, Zenon
      <4> QED
        BY <4>1, PairConverted, Zenon DEF NoError
    <3>5. ASSUME NEW i \in DOMAIN old
          PROVE  /\ old[i] = "SPECIAL_SCENARIO_PROCESSING" => Len(old) = 1 /\ ~combined
                 /\ old[i] = "DATA_TRANSFER" => ~combined
      BY <3>1, <3>3, <3>4, SpecialAlone, Zenon
    <3>6. ModesConvert'
      <4>1. Len(res'.old) = Len(req'.modes)
        BY <2>0, <3>2, <3>3, Zenon
      <4>2. \A i \in DOMAIN res'.old : res'.old[i] \in BackgroundMode /\ AsksFor(req'.modes[i], req'.subs[i], res'.old[i])
        BY <2>0, <3>2, <3>4, Zenon
      <4>3. "SPECIAL_SCENARIO_PROCESSING" \in {res'.old[i] : i \in DOMAIN res'.old} => Len(res'.old) = 1 /\ ~req'.combined
        BY <2>0, <3>2, <3>5, Zenon
      <4>4. "DATA_TRANSFER" \in {res'.old[i] : i \in DOMAIN res'.old} => ~req'.combined
        BY <2>0, <3>2, <3>5, Zenon
      <4> QED
        BY <4>1, <4>2, <4>3, <4>4, Zenon DEF ModesConvert
    <3> QED
      BY <1>2, <2>0, <3>6, Zenon
  <2> QED
    BY <2>2, <2>3, Zenon
<1>3. ASSUME Inv, UNCHANGED modeVars
      PROVE  Inv'
  BY <1>3, Zenon DEF modeVars, ModesConvert, AsksFor
<1> QED
  BY <1>1, <1>2, <1>3, PTL DEF ModesSpec
=============================================================================
