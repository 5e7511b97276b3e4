------------------------ MODULE TransientEventProofs ------------------------
(***************************************************************************)
(* What the events that TransientTask handles late may find: the time in   *)
(* the background, the warning before a forced cancellation, and the       *)
(* process and screen events that decide what is counted.                  *)
(***************************************************************************)
EXTENDS TransientTaskProofs

-----------------------------------------------------------------------------
(* The window in which a request is allowed.                               *)

\* While the uptime fits 32 bits, the time in the background is what it should be.
WindowInv == BootTime <= clock /\ clock <= MaxTime /\ bgTime = bgSince

LEMMA BackgroundKinds ==
  ASSUME [Next]_vars
  PROVE  \/ UNCHANGED <<clock, bgTime, bgSince>>
         \/ Tick /\ UNCHANGED <<bgTime, bgSince>>
         \/ clock' = clock /\ \E a : HandleForeground(a) \/ HandleBackground(a)
<1>1. CASE AppNext
  BY <1>1, Zenon DEF AppNext, RequestSuspendDelay, CancelSuspendDelay, GetQuota,
     HandleExpiredCallbackDeath, decision
<1>2. CASE TimerNext
  BY <1>2, Zenon DEF TimerNext, TakeTimer, TakeWatchdog, HandleRequestExpired,
     ForceCancelSuspendDelay, decision
<1>3. CASE ScreenNext \/ BatteryNext
  BY <1>3, Zenon DEF ScreenNext, BatteryNext, ScreenEvent, HandleScreenOn, HandleScreenOff,
     BatteryEvent, SetDump, decision
<1>4. CASE CacheNext
  BY <1>4, ZenonT(30) DEF CacheNext, OnAppCacheStateChanged, CancelCached, decision
<1>5. CASE InnerNext
  BY <1>5, Zenon DEF InnerNext, PauseTransientTaskTimeForInner, PauseStop, PauseInsert,
     StartTransientTaskTimeForInner, StartTry, StartErase, DieCheck, DieStart,
     HandleSuspendManagerDie, DieEnd, decision
<1>6. CASE ProcessNext
  <2>1. CASE HandleStateChange
    BY <2>1, Zenon DEF HandleStateChange, HandleDied
  <2>2. CASE ~HandleStateChange
    BY <1>6, <2>2, Zenon DEF ProcessNext, ProcessChanges, UpdateForegroundUidPidMap, decision
  <2> QED
    BY <2>1, <2>2, Zenon
<1>7. CASE Tick \/ UNCHANGED vars
  BY <1>7, Zenon DEF Tick, vars, decision
<1> QED
  BY <1>1, <1>2, <1>3, <1>4, <1>5, <1>6, <1>7, Zenon DEF Next

\* Decide refuses an application for its time in the background only when it is there
\* and that time is over ALLOW_REQUEST_TIME_BG.
THEOREM RefusedAlwaysAfterWindow ==
  ASSUME MaxRequests + 1 < IntMax, BootTime <= MaxTime, MaxTime < Int32Half
  PROVE  Spec => []RefusedOnlyAfterWindow
<1>1. Init => WindowInv
  BY TransientAssumption DEF Init, WindowInv
<1>2. IInv /\ WindowInv /\ [Next]_vars => WindowInv'
  <2> SUFFICES ASSUME IInv, WindowInv, [Next]_vars
               PROVE  WindowInv'
    BY Zenon
  <2>0. clock \in Nat
    BY Zenon DEF IInv, TypeOK
  <2>1. ToInt32(clock) = clock
    BY <2>0, Int32Small, TransientAssumption, AccountingAssumption DEF WindowInv
  <2>2. CASE Tick /\ UNCHANGED <<bgTime, bgSince>>
    BY <2>0, <2>2, TransientAssumption DEF Tick, WindowInv
  <2>3. ASSUME NEW a, HandleForeground(a) \/ HandleBackground(a), clock' = clock
        PROVE  WindowInv'
    BY <2>1, <2>3, Zenon DEF HandleForeground, HandleBackground, WindowInv
  <2> QED
    BY <2>2, <2>3, BackgroundKinds, Zenon DEF WindowInv
<1>3. WindowInv => RefusedOnlyAfterWindow
  BY Zenon DEF WindowInv, RefusedOnlyAfterWindow, NotInPresetTime
<1> QED
  BY <1>1, <1>2, <1>3, InvariantHolds, PTL DEF Spec

-----------------------------------------------------------------------------
(* The warning before a forced cancellation.                               *)

\* The time a request has left, without the clamp of GetRemainDelayTime.
TimeLeft(r, now) == r.actual - SpendTime(r, now)

\* A request has spent no more time than the service has run.
SpentWell(r, now) ==
    /\ r.base = 0 => r.spent <= now - BootTime
    /\ r.base # 0 => BootTime <= r.base /\ r.base <= now /\ r.spent <= r.base - BootTime

\* The timer of a request is due once no more than the advance time is left, its
\* watchdog once it was warned for long enough.
Fine(i) ==
    /\ SpentWell(info[i], clock)
    /\ \A t \in timer[i] : TimeLeft(info[i], t) <= AdvanceTime
    /\ \A t \in watchdog[i] : expiredAt[i] # 0 /\ t >= expiredAt[i] + WATCHDOG_DELAY_TIME
    /\ expiredAt[i] <= clock

\* An event that was taken was due, whatever happened to its request since.
TakenWasDue ==
    LET i == runner.id IN
    /\ runner.op \in {"expired", "force"} => i < requestId
    /\ runner.op = "expired" /\ keyInfo[i] # NoApp =>
         TimeLeft(info[i], clock) <= AdvanceTime
    /\ runner.op = "force" /\ keyInfo[i] # NoApp =>
         expiredAt[i] # 0 /\ clock >= expiredAt[i] + WATCHDOG_DELAY_TIME

WarnInv == TakenWasDue /\ \A i \in Ids : Fine(i)

LEMMA TimeLeftType ==
  ASSUME NEW r \in Request, NEW t \in Nat
  PROVE  TimeLeft(r, t) \in Int /\ SpendTime(r, t) \in Int
         /\ r.base \in Nat /\ r.spent \in Nat /\ r.actual \in Nat
         /\ TimeLeft(r, t) = r.actual - SpendTime(r, t)
         /\ SpendTime(r, t) = (IF r.base = 0 THEN r.spent ELSE r.spent + (t - r.base))
<1>1. r.base \in Nat /\ r.spent \in Nat /\ r.actual \in Nat
  BY Zenon DEF Request
<1> QED
  BY <1>1 DEF TimeLeft, SpendTime

LEMMA StartStopLeft ==
  ASSUME NEW r \in Request, NEW now \in Nat \ {0}, InService(now), SpentWell(r, now)
  PROVE  /\ SpentWell(StartRequest(r, now), now)
         /\ SpentWell(StopRequest(r, now), now)
         /\ TimeLeft(StartRequest(r, now), now) = TimeLeft(r, now)
         /\ TimeLeft(StopRequest(r, now), now) = TimeLeft(r, now)
<1>0. now \in Nat /\ BootTime \in Nat \ {0} /\ BootTime <= now /\ 0 \in Nat
  BY TransientAssumption, Zenon DEF InService
<1>1. r.base \in Nat /\ r.spent \in Nat /\ r.actual \in Nat
  BY TimeLeftType, Zenon
<1>2. r.base <= now
  BY <1>0, <1>1 DEF SpentWell
<1>3. StartRequest(r, now) \in Request /\ StopRequest(r, now) \in Request
  BY <1>2, RequestFacts, Zenon
<1>4. ASSUME r.base = 0
      PROVE  /\ StopRequest(r, now) = r
             /\ StartRequest(r, now).base = now
             /\ StartRequest(r, now).spent = r.spent
             /\ StartRequest(r, now).actual = r.actual
  BY <1>4, Zenon DEF StopRequest, StartRequest, Request
<1>5. ASSUME r.base # 0
      PROVE  /\ StartRequest(r, now) = r
             /\ StopRequest(r, now).base = 0
             /\ StopRequest(r, now).spent = r.spent + (now - r.base)
             /\ StopRequest(r, now).actual = r.actual
  <2> DEFINE more == r.spent + (now - r.base)
  <2>1. StopRequest(r, now) = [r EXCEPT !.spent = more, !.base = 0]
    BY <1>5, Zenon DEF StopRequest
  <2> HIDE DEF more
  <2>2. /\ StopRequest(r, now).base = 0
        /\ StopRequest(r, now).spent = more
        /\ StopRequest(r, now).actual = r.actual
    BY <2>1, Zenon DEF Request
  <2> QED
    BY <1>5, <2>2, Zenon DEF StartRequest, more
<1>6. CASE r.base = 0
  BY <1>0, <1>1, <1>3, <1>4, <1>6, TimeLeftType, SMTT(30) DEF SpentWell
<1>7. CASE r.base # 0
  <2> DEFINE q == StopRequest(r, now)
  <2>1. /\ StartRequest(r, now) = r
        /\ q.base = 0 /\ q.spent = r.spent + (now - r.base) /\ q.actual = r.actual
        /\ q \in Request
    BY <1>3, <1>5, <1>7, Zenon
  <2> HIDE DEF q
  <2>2. SpentWell(q, now)
    BY <1>0, <1>1, <1>2, <1>7, <2>1 DEF SpentWell
  <2>3. TimeLeft(q, now) = q.actual - q.spent
    BY <1>0, <2>1, TimeLeftType, Zenon
  <2>4. TimeLeft(r, now) = r.actual - (r.spent + (now - r.base))
    BY <1>0, <1>7, TimeLeftType, Zenon
  <2>5. TimeLeft(q, now) = TimeLeft(r, now)
    BY <2>1, <2>3, <2>4, Zenon
  <2> QED
    BY <2>1, <2>2, <2>5, Zenon DEF q
<1> QED
  BY <1>6, <1>7, Zenon

\* GetRemainDelayTime does not suffer from its 32-bit cast.
LEMMA RemainIsTimeLeft ==
  ASSUME NEW r \in Request, NEW now, InService(now), SpentWell(r, now)
  PROVE  GetRemainDelayTime(r, now) = NonNegative(TimeLeft(r, now))
<1>0. now \in Nat /\ BootTime \in Nat \ {0} /\ now < BootTime + Int32Half
      /\ Int32Half \in Nat \ {0}
  BY TransientAssumption, AccountingAssumption, Zenon DEF InService
<1>1. 0 <= SpendTime(r, now) /\ SpendTime(r, now) < Int32Half /\ SpendTime(r, now) \in Int
  BY <1>0, TimeLeftType DEF SpentWell
<1>2. ToInt32(SpendTime(r, now)) = SpendTime(r, now)
  BY <1>0, <1>1, Int32Small
<1> QED
  BY <1>2, Zenon DEF GetRemainDelayTime, TimeLeft

LEMMA LaterLeft ==
  ASSUME NEW r \in Request, NEW now \in Nat, NEW t \in Nat, t <= now
  PROVE  /\ TimeLeft(r, now) <= TimeLeft(r, t)
         /\ SpentWell(r, t) => SpentWell(r, now)
  BY TimeLeftType, TransientAssumption DEF SpentWell

LEMMA NewTimerIsDue ==
  ASSUME NEW r \in Request, NEW now \in Nat \ {0}, InService(now), SpentWell(r, now),
         r.base = 0
  PROVE  /\ GetAdvanceCallbackTime(r, now) \in Nat
         /\ TimeLeft(StartRequest(r, now), now + GetAdvanceCallbackTime(r, now)) <= AdvanceTime
<1> DEFINE d == GetAdvanceCallbackTime(r, now)
           s == StartRequest(r, now)
<1>0. now \in Nat /\ AdvanceTime \in Nat
  BY AccountingAssumption, Zenon
<1>1. d \in Nat /\ s \in Request /\ now + d \in Nat
  BY <1>0, RequestFacts
<1>2. s.base = now /\ s.spent = r.spent /\ s.actual = r.actual
  BY Zenon DEF StartRequest, Request
<1>3. d = NonNegative(NonNegative(TimeLeft(r, now)) - AdvanceTime)
  BY RemainIsTimeLeft, Zenon DEF GetAdvanceCallbackTime
<1>4. TimeLeft(r, now) = r.actual - r.spent /\ r.actual \in Nat /\ r.spent \in Nat
  BY <1>0, TimeLeftType, Zenon
<1> HIDE DEF d, s
<1>5. d >= r.actual - r.spent - AdvanceTime
  BY <1>0, <1>1, <1>3, <1>4 DEF NonNegative
<1>6. TimeLeft(s, now + d) = r.actual - (r.spent + d)
  BY <1>0, <1>1, <1>2, <1>4, TimeLeftType, SMTT(30)
<1> QED
  BY <1>0, <1>1, <1>4, <1>5, <1>6 DEF d, s

-----------------------------------------------------------------------------

\* A step that takes no event: time may pass, requests lose no time left.
LEMMA WarnKept ==
  ASSUME IInv, WarnInv, NothingTaken, clock' >= clock, clock' \in Nat,
         requestId' \in Nat, requestId' >= requestId,
         \A i \in Ids : Fine(i)',
         \A i \in Ids : keyInfo'[i] # NoApp /\ i < requestId =>
           /\ keyInfo[i] # NoApp
           /\ TimeLeft(info'[i], clock') <= TimeLeft(info[i], clock)
           /\ info'[i] \in Request
           /\ expiredAt'[i] = expiredAt[i]
  PROVE  WarnInv'
<1>0. /\ clock \in Nat /\ requestId \in Nat /\ info \in [Ids -> Request]
      /\ expiredAt \in [Ids -> Nat] /\ TakenIsId
  BY AccountingAssumption DEF IInv, TypeOK
<1> SUFFICES ASSUME runner'.op \in {"expired", "force"}
             PROVE  TakenWasDue'
  BY Zenon DEF WarnInv, TakenWasDue
<1>1. runner' = runner /\ runner.id \in Ids
  BY <1>0, Zenon DEF NothingTaken, TakenIsId
<1> DEFINE i == runner.id
<1>2. i < requestId
  BY <1>1, Zenon DEF WarnInv, TakenWasDue
<1>3. i < requestId'
  BY <1>0, <1>1, <1>2 DEF Ids
<1>4. keyInfo'[i] # NoApp =>
        /\ keyInfo[i] # NoApp
        /\ TimeLeft(info'[i], clock') <= TimeLeft(info[i], clock)
        /\ info'[i] \in Request
        /\ expiredAt'[i] = expiredAt[i]
  BY <1>1, <1>2, Zenon
<1>5. info'[i] \in Request => TimeLeft(info'[i], clock') \in Int
  BY TimeLeftType, Zenon
<1>6. TimeLeft(info[i], clock) \in Int /\ expiredAt[i] \in Nat
  BY <1>0, <1>1, TimeLeftType, Zenon
<1>7. /\ runner.op = "expired" /\ keyInfo[i] # NoApp =>
           TimeLeft(info[i], clock) <= AdvanceTime
      /\ runner.op = "force" /\ keyInfo[i] # NoApp =>
           expiredAt[i] # 0 /\ clock >= expiredAt[i] + WATCHDOG_DELAY_TIME
  BY Zenon DEF WarnInv, TakenWasDue
<1> HIDE DEF i
<1>8. runner.op = "expired" /\ keyInfo'[i] # NoApp => TimeLeft(info'[i], clock') <= AdvanceTime
  BY <1>4, <1>5, <1>6, <1>7, AccountingAssumption, SMTT(30)
<1>9. runner.op = "force" /\ keyInfo'[i] # NoApp =>
        expiredAt'[i] # 0 /\ clock' >= expiredAt'[i] + WATCHDOG_DELAY_TIME
  BY <1>0, <1>4, <1>6, <1>7, AccountingAssumption, SMTT(30)
<1> QED
  BY <1>1, <1>3, <1>8, <1>9, Zenon DEF TakenWasDue, i

LEMMA WarnCancels ==
  ASSUME IInv, QuotaInv, WarnInv, Cancels
  PROVE  WarnInv'
<1>0. /\ UNCHANGED <<clock, requestId, expiredAt, used>> /\ NothingTaken
      /\ clock \in Nat /\ requestId \in Nat /\ info \in [Ids -> Request] /\ NoStrayEvents
      /\ InService(clock)
  BY AccountingAssumption DEF Cancels, IInv, TypeOK, Inv, QuotaInv
<1>1. PICK S \in SUBSET Ids : CancelLocked(S)
  BY Zenon DEF Cancels
<1> DEFINE gone == {i \in S : \E a \in App : keyInfo[i] = a /\ i \in reqs[a]}
<1>2. \A i \in Ids :
        /\ watchdog'[i] = IF i \in S THEN {} ELSE watchdog[i]
        /\ keyInfo'[i] = IF i \in S THEN NoApp ELSE keyInfo[i]
        /\ timer'[i] = IF i \in gone /\ Counted(info[i]) THEN {} ELSE timer[i]
        /\ info'[i] = IF i \in gone THEN NoRequest ELSE info[i]
  BY <1>1, Zenon DEF CancelLocked, StopTimer, ForgetInfo
<1>3. gone \subseteq S
  BY Zenon
<1> HIDE DEF gone
<1>4. SpentWell(NoRequest, clock)
  <2>1. NoRequest.base = 0 /\ NoRequest.spent = 0
    BY Zenon DEF NoRequest
  <2> QED
    BY <1>0, <2>1, TransientAssumption DEF SpentWell, InService
<1>5. ASSUME NEW i \in Ids
      PROVE  Fine(i)'
  <2>1. Fine(i)
    BY Zenon DEF WarnInv
  <2>2. CASE i \in gone
    <3>1. timer'[i] = {} /\ watchdog'[i] = {} /\ info'[i] = NoRequest
      BY <1>0, <1>2, <1>3, <2>2, Zenon DEF NoStrayEvents
    <3> QED
      BY <1>0, <1>4, <2>1, <3>1, Zenon DEF Fine
  <2>3. CASE i \notin gone
    <3>1. timer'[i] = timer[i] /\ info'[i] = info[i] /\ watchdog'[i] \subseteq watchdog[i]
      BY <1>2, <2>3, Zenon
    <3> QED
      BY <1>0, <2>1, <3>1, Zenon DEF Fine
  <2> QED
    BY <2>2, <2>3, Zenon
<1>6. ASSUME NEW i \in Ids, keyInfo'[i] # NoApp
      PROVE  keyInfo[i] # NoApp /\ info'[i] = info[i]
  BY <1>2, <1>3, <1>6, Zenon
<1>7. \A i \in Ids : TimeLeft(info[i], clock) \in Int
  BY <1>0, TimeLeftType, Zenon
<1> QED
  BY <1>0, <1>5, <1>6, <1>7, WarnKept, SMTT(30)

LEMMA WarnStarts ==
  ASSUME IInv, QuotaInv, WarnInv, Starts \/ Stops
  PROVE  WarnInv'
<1>0. /\ UNCHANGED <<clock, requestId, keyInfo, watchdog, expiredAt>> /\ NothingTaken
      /\ clock \in Nat \ {0} /\ requestId \in Nat /\ info \in [Ids -> Request]
      /\ NoStrayEvents /\ BaseInPast
      /\ InService(clock)
  BY AccountingAssumption DEF Starts, Stops, IInv, TypeOK, Inv, QuotaInv, registry
<1>1. ASSUME NEW i \in Ids
      PROVE  /\ Fine(i)'
             /\ TimeLeft(info'[i], clock) = TimeLeft(info[i], clock)
             /\ info'[i] \in Request
  <2>0. Fine(i) /\ info[i] \in Request /\ info[i].base <= clock
    BY <1>0, Zenon DEF WarnInv, BaseInPast
  <2>1. /\ StartRequest(info[i], clock) \in Request
        /\ StopRequest(info[i], clock) \in Request
    BY <1>0, <2>0, RequestFacts, Zenon
  <2>2. /\ SpentWell(StartRequest(info[i], clock), clock)
        /\ SpentWell(StopRequest(info[i], clock), clock)
        /\ TimeLeft(StartRequest(info[i], clock), clock) = TimeLeft(info[i], clock)
        /\ TimeLeft(StopRequest(info[i], clock), clock) = TimeLeft(info[i], clock)
    BY <1>0, <2>0, StartStopLeft, Zenon DEF Fine
  <2>3. CASE info'[i] = info[i] /\ timer'[i] \subseteq timer[i]
    BY <1>0, <2>0, <2>3, Zenon DEF Fine
  <2>4. CASE /\ ~Counted(info[i])
             /\ info'[i] = StartRequest(info[i], clock)
             /\ timer'[i] = {clock + GetAdvanceCallbackTime(info[i], clock)}
    <3>1. TimeLeft(info'[i], clock + GetAdvanceCallbackTime(info[i], clock)) <= AdvanceTime
      BY <1>0, <2>0, <2>4, NewTimerIsDue, Zenon DEF Counted, Fine
    <3> QED
      BY <1>0, <2>0, <2>1, <2>2, <2>4, <3>1, Zenon DEF Fine
  <2>5. CASE info'[i] = StopRequest(info[i], clock) /\ timer'[i] = {}
    BY <1>0, <2>0, <2>1, <2>2, <2>5, Zenon DEF Fine
  <2>6. CASE Starts
    <3>1. PICK A \in SUBSET App : StartAccounting(A)
      BY <2>6, Zenon DEF Starts
    <3>2. /\ info'[i] = IF i \in RequestsOf(A) THEN StartRequest(info[i], clock) ELSE info[i]
          /\ timer'[i] = IF i \in RequestsOf(A) /\ ~Counted(info[i])
                         THEN {clock + GetAdvanceCallbackTime(info[i], clock)} ELSE timer[i]
      BY <3>1, Zenon DEF StartAccounting, StartInfo, StartTimer
    <3>3. Counted(info[i]) => StartRequest(info[i], clock) = info[i]
      BY Zenon DEF Counted, StartRequest
    <3> QED
      BY <2>3, <2>4, <3>2, <3>3, Zenon
  <2>7. CASE Stops
    <3>1. PICK A \in SUBSET App : StopAccountingAll(A)
      BY <2>7, Zenon DEF Stops
    <3>2. /\ info'[i] = IF i \in RequestsOf(A) THEN StopRequest(info[i], clock) ELSE info[i]
          /\ timer'[i] = IF i \in RequestsOf(A) /\ Counted(info[i]) THEN {} ELSE timer[i]
      BY <3>1, Zenon DEF StopAccountingAll, StopInfo, StopTimer
    <3>3. ~Counted(info[i]) => StopRequest(info[i], clock) = info[i]
      BY Zenon DEF Counted, StopRequest
    <3> QED
      BY <2>3, <2>5, <3>2, <3>3, Zenon
  <2> QED
    BY <2>6, <2>7, Zenon
<1>2. \A i \in Ids : TimeLeft(info[i], clock) \in Int
  BY <1>0, TimeLeftType, Zenon
<1> QED
  BY <1>0, <1>1, <1>2, WarnKept, SMTT(30)

LEMMA WarnRequests ==
  ASSUME MaxRequests + 1 < IntMax, IInv, IInv', QuotaInv, WarnInv,
         NEW a \in App, NEW cb \in Callback, RequestSuspendDelay(a, cb)
  PROVE  WarnInv'
<1>0. /\ clock' = clock /\ runner' = runner /\ NothingTaken
      /\ clock \in Nat \ {0} /\ requestId \in Nat /\ info \in [Ids -> Request]
      /\ info' \in [Ids -> Request] /\ InService(clock)
      /\ expiredAt \in [Ids -> Nat] /\ keyInfo \in [Ids -> App \cup {NoApp}]
  <2>1. clock' = clock /\ runner' = runner /\ NothingTaken
    BY Zenon DEF RequestSuspendDelay, NothingTaken
  <2>2. TypeOK /\ TypeOK' /\ InService(clock)
    BY Zenon DEF IInv, QuotaInv
  <2>3. requestId \in 1 .. (MaxRequests + 1)
    BY <2>2, Zenon DEF TypeOK
  <2>4. requestId \in Nat
    BY <2>3, AccountingAssumption, SMTT(30)
  <2> QED
    BY <2>1, <2>2, <2>4, Zenon DEF TypeOK
<1>1. CASE ~Grant(a, cb)
  <2>1. UNCHANGED <<info, timer, requestId, keyInfo, watchdog, expiredAt>>
    BY <1>1, Zenon DEF RequestSuspendDelay, RefuseNotInPresetTime, RefuseExceedsThreshold,
       RefuseTimeInsufficient
  <2> QED
    BY <1>0, <2>1, Zenon DEF WarnInv, Fine, TakenWasDue
<1>2. CASE Grant(a, cb)
  <2>0. PICK id \in Ids : id = requestId /\ timer[id] = {} /\ watchdog[id] = {}
    BY <1>2, GrantFresh, Zenon DEF Grant
  <2> DEFINE g == GrantedTime(CurrentPackage(a), GetDelayTime,
                              CurrentPackage(a).quota < MIN_ALLOW_QUOTA_TIME, ExemptedQuota)
             r == [NoRequest EXCEPT !.actual = g]
             new == [info EXCEPT ![id] = r]
             S == IF CanStartAccounting(a) THEN {id} ELSE {}
  <2>1. /\ requestId' = id + 1
        /\ info' = StartInfo(new, S, clock)
        /\ timer' = StartTimer(timer, new, S, clock)
        /\ keyInfo' = [keyInfo EXCEPT ![id] = a]
        /\ expiredAt' = [expiredAt EXCEPT ![id] = 0]
        /\ watchdog' = watchdog
    BY <1>2, <2>0, GrantFresh, Zenon DEF Grant
  <2>2. r.base = 0 /\ r.spent = 0 /\ r.actual = g
    <3> HIDE DEF g
    <3> QED
      BY Zenon DEF NoRequest
  <2>3. new[id] = r /\ \A i \in Ids : i # id => new[i] = info[i]
    <3> HIDE DEF r
    <3> QED
      BY <1>0, <2>0, Zenon
  <2> HIDE DEF r, new, g
  <2>4. /\ \A i \in Ids : i # id => /\ info'[i] = info[i] /\ timer'[i] = timer[i]
                                    /\ keyInfo'[i] = keyInfo[i] /\ expiredAt'[i] = expiredAt[i]
        /\ expiredAt'[id] = 0
    BY <1>0, <2>0, <2>1, <2>3, Zenon DEF StartInfo, StartTimer
  <2>5. /\ info'[id] = IF CanStartAccounting(a) THEN StartRequest(r, clock) ELSE r
        /\ timer'[id] = IF CanStartAccounting(a)
                        THEN {clock + GetAdvanceCallbackTime(r, clock)} ELSE {}
    <3>1. ~Counted(new[id])
      BY <2>2, <2>3, Zenon DEF Counted
    <3>2. id \in S <=> CanStartAccounting(a)
      BY Zenon
    <3> HIDE DEF S
    <3> QED
      BY <2>0, <2>1, <2>3, <3>1, <3>2, Zenon DEF StartInfo, StartTimer
  <2>6. r \in Request
    <3>1. CASE CanStartAccounting(a)
      <4>1. StartRequest(r, clock) = [r EXCEPT !.base = clock]
        BY <2>2, Zenon DEF StartRequest
      <4>2. [r EXCEPT !.base = clock] \in Request
        BY <1>0, <2>0, <2>5, <3>1, <4>1
      <4>3. r.actual \in Nat
        <5>1. [r EXCEPT !.base = clock].actual = r.actual
          BY Zenon DEF r, NoRequest
        <5> QED
          BY <4>2, <5>1, Zenon DEF Request
      <4> QED
        BY <2>2, <4>3, Zenon DEF r, NoRequest, Request
    <3>2. CASE ~CanStartAccounting(a)
      BY <1>0, <2>0, <2>5, <3>2, SMTT(30)
    <3> QED
      BY <3>1, <3>2, Zenon
  <2>7. SpentWell(r, clock)
    BY <1>0, <2>2, TransientAssumption DEF SpentWell, InService
  <2>8. Fine(id)'
    <3>0. /\ clock' = clock /\ watchdog'[id] = {} /\ expiredAt'[id] <= clock
      BY <1>0, <2>0, <2>1, <2>4, SMTT(30)
    <3>1. CASE CanStartAccounting(a)
      <4>1. SpentWell(info'[id], clock)
        BY <1>0, <2>5, <2>6, <2>7, <3>1, StartStopLeft, ZenonT(30)
      <4>2. \A t \in timer'[id] : TimeLeft(info'[id], t) <= AdvanceTime
        BY <1>0, <2>2, <2>5, <2>6, <2>7, <3>1, NewTimerIsDue, Zenon
      <4> QED
        BY <3>0, <4>1, <4>2, <2>0, ZenonT(30) DEF Fine
    <3>2. CASE ~CanStartAccounting(a)
      BY <2>5, <2>7, <3>0, <3>2, Zenon DEF Fine
    <3> QED
      BY <3>1, <3>2, Zenon
  <2>9. \A i \in Ids : Fine(i)'
    BY <1>0, <2>1, <2>4, <2>8, ZenonT(30) DEF WarnInv, Fine
  <2>10. \A i \in Ids : keyInfo'[i] # NoApp /\ i < requestId =>
           /\ keyInfo[i] # NoApp
           /\ TimeLeft(info'[i], clock') <= TimeLeft(info[i], clock)
           /\ info'[i] \in Request
           /\ expiredAt'[i] = expiredAt[i]
    <3>1. \A i \in Ids : TimeLeft(info[i], clock) \in Int
      BY <1>0, TimeLeftType, Zenon
    <3>a. requestId \in Nat /\ id = requestId
      BY <1>0, <2>0, Zenon
    <3>2. \A i \in Ids : i < requestId => i # id
      BY <3>a DEF Ids
    <3> QED
      BY <1>0, <2>4, <3>1, <3>2, SMTT(30)
  <2>11. clock' \in Nat /\ clock' >= clock /\ requestId' \in Nat /\ requestId' >= requestId
    <3>1. /\ clock' = clock /\ clock \in Nat /\ requestId \in Nat
          /\ id = requestId /\ requestId' = id + 1
      BY <1>0, <2>0, <2>1, Zenon
    <3> QED
      BY <3>1
  <2> QED
    BY <1>0, <2>9, <2>10, <2>11, WarnKept, Zenon
<1> QED
  BY <1>1, <1>2, Zenon

LEMMA WarnTimers ==
  ASSUME IInv, QuotaInv, WarnInv, Timers
  PROVE  WarnInv'
<1>0. /\ clock \in Nat \ {0} /\ requestId \in Nat /\ info \in [Ids -> Request]
      /\ timer \in [Ids -> SUBSET Nat] /\ watchdog \in [Ids -> SUBSET Nat]
      /\ expiredAt \in [Ids -> Nat] /\ FreshIds /\ InService(clock)
      /\ \A i \in Ids : Fine(i)
  BY AccountingAssumption, SMTT(30) DEF IInv, TypeOK, Inv, QuotaInv, WarnInv
<1>1. ASSUME NEW i \in Ids, TakeTimer(i)
      PROVE  WarnInv'
  <2>0. UNCHANGED <<clock, requestId, info, keyInfo, watchdog, expiredAt>>
    BY <1>1, Zenon DEF TakeTimer, decision, registry
  <2>1. PICK t \in timer[i] : t <= clock
    BY <1>1, Zenon DEF TakeTimer, Due
  <2>2. runner'.op = "expired" /\ runner'.id = i
    BY <1>1, Zenon DEF TakeTimer, Idle
  <2>3. i < requestId
    BY <1>0, <2>1, SMTT(30) DEF FreshIds, Ids
  <2>4. TimeLeft(info[i], clock) <= AdvanceTime
    <3>1. t \in Nat /\ info[i] \in Request /\ TimeLeft(info[i], t) <= AdvanceTime
      BY <1>0, <2>1, Zenon DEF Fine
    <3>2. TimeLeft(info[i], clock) <= TimeLeft(info[i], t)
      BY <1>0, <2>1, <3>1, LaterLeft, Zenon
    <3> QED
      BY <1>0, <3>1, <3>2, TimeLeftType, AccountingAssumption, SMTT(30)
  <2>5. \A j \in Ids : timer'[j] \subseteq timer[j]
    BY <1>0, <1>1, Zenon DEF TakeTimer
  <2>6. \A j \in Ids : Fine(j)'
    BY <1>0, <2>0, <2>5, Zenon DEF Fine
  <2> QED
    BY <2>0, <2>2, <2>3, <2>4, <2>6, Zenon DEF WarnInv, TakenWasDue
<1>2. ASSUME NEW i \in Ids, TakeWatchdog(i)
      PROVE  WarnInv'
  <2>0. UNCHANGED <<clock, requestId, info, timer, keyInfo, expiredAt>>
    BY <1>2, Zenon DEF TakeWatchdog, decision, accounts
  <2>1. PICK t \in watchdog[i] : t <= clock
    BY <1>2, Zenon DEF TakeWatchdog, Due
  <2>2. runner'.op = "force" /\ runner'.id = i
    BY <1>2, Zenon DEF TakeWatchdog, Idle
  <2>3. i < requestId
    BY <1>0, <2>1 DEF FreshIds, Ids
  <2>4. expiredAt[i] # 0 /\ clock >= expiredAt[i] + WATCHDOG_DELAY_TIME
    <3>1. t \in Nat /\ expiredAt[i] # 0 /\ t >= expiredAt[i] + WATCHDOG_DELAY_TIME
      BY <1>0, <2>1, Zenon DEF Fine
    <3> QED
      BY <1>0, <2>1, <3>1, AccountingAssumption, SMTT(30)
  <2>5. \A j \in Ids : watchdog'[j] \subseteq watchdog[j]
    BY <1>0, <1>2, Zenon DEF TakeWatchdog
  <2>6. \A j \in Ids : Fine(j)'
    BY <1>0, <2>0, <2>5, Zenon DEF Fine
  <2> QED
    BY <2>0, <2>2, <2>3, <2>4, <2>6, Zenon DEF WarnInv, TakenWasDue
<1>3. CASE HandleRequestExpired
  <2>0. UNCHANGED <<clock, requestId, info, timer, keyInfo>> /\ runner' = Idle
    BY <1>3, Zenon DEF HandleRequestExpired, decision, accounts
  <2>1. PICK i \in Ids : i = runner.id
    BY <1>3, Zenon DEF HandleRequestExpired, IInv, TakenIsId
  <2>2. TakenWasDue'
    BY <2>0, RunnerFacts, Zenon DEF TakenWasDue
  <2>3. CASE callback[i] = NoCallback
    <3>1. UNCHANGED <<watchdog, expiredAt>>
      BY <1>3, <2>1, <2>3, Zenon DEF HandleRequestExpired
    <3> QED
      BY <1>0, <2>0, <2>2, <3>1, Zenon DEF WarnInv, Fine
  <2>4. CASE callback[i] # NoCallback
    <3>1. /\ expiredAt' = [expiredAt EXCEPT ![i] = IF @ = 0 THEN clock ELSE @]
          /\ watchdog' = IF keyInfo[i] = NoApp THEN watchdog
                         ELSE [watchdog EXCEPT ![i] = @ \cup {WatchdogTime}]
      BY <1>3, <2>1, <2>4, Zenon DEF HandleRequestExpired
    <3>2. \A j \in Ids : j # i => watchdog'[j] = watchdog[j] /\ expiredAt'[j] = expiredAt[j]
      BY <1>0, <3>1, Zenon
    <3>3. /\ watchdog'[i] \subseteq watchdog[i] \cup {WatchdogTime}
          /\ expiredAt'[i] = IF expiredAt[i] = 0 THEN clock ELSE expiredAt[i]
      BY <1>0, <2>1, <3>1, Zenon
    <3>4. WatchdogTime = clock + WATCHDOG_DELAY_TIME
      BY Zenon DEF WatchdogTime
    <3>5. expiredAt[i] \in Nat /\ expiredAt[i] <= clock
      BY <1>0, <2>1, Zenon DEF Fine
    <3>6. expiredAt'[i] # 0 /\ expiredAt'[i] <= clock /\ expiredAt'[i] \in Nat
      <4>1. clock \in Nat \ {0}
        BY <1>0, Zenon
      <4> QED
        BY <3>3, <3>5, <4>1
    <3>7. ASSUME NEW t \in watchdog'[i]
          PROVE  t >= expiredAt'[i] + WATCHDOG_DELAY_TIME
      <4>1. CASE t = WatchdogTime
        BY <1>0, <3>4, <3>6, <4>1, AccountingAssumption, SMTT(30)
      <4>2. CASE t \in watchdog[i]
        <5>1. expiredAt[i] # 0 /\ t >= expiredAt[i] + WATCHDOG_DELAY_TIME
          BY <1>0, <2>1, <4>2, Zenon DEF Fine
        <5> QED
          BY <3>3, <5>1, Zenon
      <4> QED
        BY <3>3, <4>1, <4>2, Zenon
    <3>8. Fine(i)'
      <4>1. SpentWell(info[i], clock) /\ \A t \in timer[i] : TimeLeft(info[i], t) <= AdvanceTime
        BY <1>0, <2>1, Zenon DEF Fine
      <4> QED
        BY <2>0, <3>6, <3>7, <4>1, Zenon DEF Fine
    <3>9. \A j \in Ids : Fine(j)'
      BY <1>0, <2>0, <3>2, <3>8, Zenon DEF Fine
    <3> QED
      BY <2>2, <3>9, Zenon DEF WarnInv
  <2> QED
    BY <2>3, <2>4, Zenon
<1> QED
  BY <1>1, <1>2, <1>3, Zenon DEF Timers

LEMMA WarnStep ==
  ASSUME MaxRequests + 1 < IntMax, IInv, IInv', QuotaInv, QuotaInv', WarnInv, [Next]_vars
  PROVE  WarnInv'
<1>0. /\ clock \in Nat /\ clock' \in Nat /\ requestId \in Nat /\ info \in [Ids -> Request]
      /\ expiredAt \in [Ids -> Nat]
  BY AccountingAssumption, SMTT(30) DEF IInv, TypeOK
<1>1. CASE Queries
  <2>1. UNCHANGED <<clock, requestId, info, timer, keyInfo, watchdog, expiredAt, runner>>
    BY <1>1, Zenon DEF Queries, GetQuota, decision, registry
  <2> QED
    BY <2>1, Zenon DEF WarnInv, Fine, TakenWasDue
<1>2. CASE Passes
  <2>1. /\ UNCHANGED <<requestId, info, timer, keyInfo, watchdog, expiredAt>> /\ NothingTaken
        /\ clock' >= clock
    BY <1>0, <1>2, SMTT(30) DEF Passes, Tick, accounts, registry
  <2>2. ASSUME NEW i \in Ids
        PROVE  Fine(i)' /\ TimeLeft(info'[i], clock') <= TimeLeft(info[i], clock)
    <3>1. Fine(i) /\ info[i] \in Request /\ expiredAt[i] \in Nat
      BY <1>0, Zenon DEF WarnInv
    <3>2. /\ TimeLeft(info[i], clock') <= TimeLeft(info[i], clock)
          /\ SpentWell(info[i], clock) => SpentWell(info[i], clock')
      BY <1>0, <2>1, <3>1, LaterLeft, Zenon
    <3>3. expiredAt[i] <= clock => expiredAt[i] <= clock'
      BY <1>0, <2>1, <3>1, SMTT(30)
    <3> QED
      BY <2>1, <3>1, <3>2, <3>3, Zenon DEF Fine
  <2> QED
    BY <1>0, <2>1, <2>2, WarnKept, SMTT(30)
<1> QED
  BY Zenon, <1>1, <1>2, NextKinds, WarnRequests, WarnCancels, WarnStarts, WarnTimers
     DEF StepKinds, Requests

\* What WarnedInTime says of one step.
LEMMA WarnedStep ==
  ASSUME MaxRequests + 1 < IntMax, IInv, QuotaInv, WarnInv, [Next]_vars
  PROVE  /\ \A i \in Ids : expiredAt[i] = 0 /\ expiredAt'[i] # 0 =>
              GetRemainDelayTime(info[i], clock) <= AdvanceTime
         /\ runner.op = "force" /\ runner' = Idle /\ keyInfo[runner.id] # NoApp =>
              /\ expiredAt[runner.id] # 0
              /\ clock >= expiredAt[runner.id] + WATCHDOG_DELAY_TIME
<1>0. /\ expiredAt \in [Ids -> Nat] /\ info \in [Ids -> Request] /\ RegistriesAgree
      /\ InService(clock) /\ clock \in Nat
      /\ callback \in [Ids -> Callback \cup {NoCallback}]
  BY Zenon DEF IInv, TypeOK, Inv, QuotaInv
<1>1. ASSUME NEW i \in Ids, expiredAt[i] = 0, expiredAt'[i] # 0
      PROVE  GetRemainDelayTime(info[i], clock) <= AdvanceTime
  <2>1. HandleRequestExpired
    <3>1. CASE Requests
      BY <1>0, <1>1, <3>1, SMTT(30) DEF Requests, RequestSuspendDelay, RefuseNotInPresetTime,
         RefuseExceedsThreshold, RefuseTimeInsufficient, Grant
    <3>2. CASE Cancels \/ Starts \/ Stops \/ Queries \/ Passes
      BY <1>1, <3>2, Zenon DEF Cancels, Starts, Stops, Queries, Passes, GetQuota, registry
    <3>3. CASE \E j \in Ids : TakeTimer(j) \/ TakeWatchdog(j)
      BY <1>1, <3>3, Zenon DEF TakeTimer, TakeWatchdog, registry
    <3> QED
      BY <3>1, <3>2, <3>3, NextKinds, Zenon DEF StepKinds, Timers
  <2>2. runner.op = "expired" /\ i = runner.id /\ callback[i] # NoCallback
    BY <1>0, <1>1, <2>1, ZenonT(30) DEF HandleRequestExpired
  <2>3. keyInfo[i] # NoApp
    BY <1>0, <2>2, Zenon DEF RegistriesAgree
  <2>4. TimeLeft(info[i], clock) <= AdvanceTime /\ SpentWell(info[i], clock)
    BY <2>2, <2>3, Zenon DEF WarnInv, TakenWasDue, Fine
  <2>5. GetRemainDelayTime(info[i], clock) = NonNegative(TimeLeft(info[i], clock))
    BY <1>0, <2>4, RemainIsTimeLeft, Zenon
  <2>6. TimeLeft(info[i], clock) \in Int
    BY <1>0, TimeLeftType, Zenon
  <2> QED
    BY <2>4, <2>5, <2>6, AccountingAssumption DEF NonNegative
<1> QED
  BY <1>1, Zenon DEF WarnInv, TakenWasDue

\* OnExpired comes when no more than the advance time is left, and a forced
\* cancellation at least WATCHDOG_DELAY_TIME after OnExpired, for every interleaving of
\* stops, restarts and cancellations with a timer or watchdog that was already taken.
THEOREM AlwaysWarnedInTime ==
  ASSUME MaxRequests + 1 < IntMax, MaxTime < BootTime + Int32Half
  PROVE  Spec => WarnedInTime
<1>1. Init => WarnInv
  <2> SUFFICES ASSUME Init
               PROVE  WarnInv
    BY Zenon
  <2>1. ASSUME NEW i \in Ids
        PROVE  Fine(i)
    <3>1. /\ info[i] = NoRequest /\ timer[i] = {} /\ watchdog[i] = {} /\ expiredAt[i] = 0
          /\ clock = BootTime
      BY Zenon DEF Init
    <3>2. NoRequest.base = 0 /\ NoRequest.spent = 0
      BY Zenon DEF NoRequest
    <3> QED
      BY <3>1, <3>2, TransientAssumption, SMTT(30) DEF Fine, SpentWell
  <2>2. TakenWasDue
    BY RunnerFacts, Zenon DEF Init, TakenWasDue
  <2> QED
    BY <2>1, <2>2, Zenon DEF WarnInv
<1>2. IInv /\ QuotaInv /\ [Next]_vars => QuotaInv'
  BY QuotaStep, Zenon
<1>3. IInv /\ IInv' /\ QuotaInv /\ QuotaInv' /\ WarnInv /\ [Next]_vars => WarnInv'
  BY WarnStep, Zenon
<1>4. IInv /\ QuotaInv /\ WarnInv /\ [Next]_vars =>
        [/\ \A i \in Ids : expiredAt[i] = 0 /\ expiredAt'[i] # 0 =>
              GetRemainDelayTime(info[i], clock) <= AdvanceTime
         /\ runner.op = "force" /\ runner' = Idle /\ keyInfo[runner.id] # NoApp =>
              /\ expiredAt[runner.id] # 0
              /\ clock >= expiredAt[runner.id] + WATCHDOG_DELAY_TIME]_vars
  BY WarnedStep, Zenon
<1> QED
  BY <1>1, <1>2, <1>3, <1>4, QuotaInitially, InvariantHolds, PTL DEF Spec, WarnedInTime

-----------------------------------------------------------------------------
(* Applications in the foreground.                                         *)

Leaves(e, p) == e = <<"background", p>> \/ e = <<"died", p>>

\* The event that p came to the foreground has not been handled.
Coming(p) ==
    \/ plugin = <<"foreground", p>>
    \/ \E k \in 1 .. Len(events) : events[k] = <<"foreground", p>>

\* The foreground map is what AppMgr sees once the events are handled: where they
\* differ for a process, the last event on its way is the one that makes them agree.
EventsReconcile ==
    \A p \in Pid :
      /\ p \in procs /\ p \notin foreground =>
           \E k \in 1 .. Len(events) : events[k] = <<"foreground", p>>
      /\ p \notin procs /\ p \in foreground =>
           \E k \in 1 .. Len(events) : Leaves(events[k], p)
      /\ p \in procs => \A j \in 1 .. Len(events) : Leaves(events[j], p) =>
           \E k \in (j + 1) .. Len(events) : events[k] = <<"foreground", p>>
      /\ p \notin procs => \A j \in 1 .. Len(events) : events[j] = <<"foreground", p>> =>
           \E k \in (j + 1) .. Len(events) : Leaves(events[k], p)

\* An application that is counted although a process of it is in the foreground will
\* be told so, by the event of the process or by the screen event being handled.
CountedIsTold ==
    screenOn /\ ~queryFailed /\ runner.op # "screenOn" =>
      \A p \in procs : AnyCounted(AppOf[p]) => Coming(p)

ForegroundInv == EventsReconcile /\ CountedIsTold

LEMMA EventShapes ==
  ASSUME IInv
  PROVE  /\ events \in Seq({"foreground", "background", "died"} \X Pid)
         /\ Len(events) \in Nat
         /\ \A k \in 1 .. Len(events) : \E p \in Pid :
              events[k] = <<"foreground", p>> \/ Leaves(events[k], p)
         /\ procs \in SUBSET Pid /\ foreground \in SUBSET Pid
<1>1. /\ events \in Seq({"foreground", "background", "died"} \X Pid)
      /\ procs \in SUBSET Pid /\ foreground \in SUBSET Pid
  BY Zenon DEF IInv, TypeOK
<1>2. \A k \in 1 .. Len(events) : events[k] \in {"foreground", "background", "died"} \X Pid
  BY <1>1, SMTT(30)
<1> QED
  BY <1>1, <1>2, SMTT(30) DEF Leaves

\* A process changes state and its event is sent.
LEMMA ReconcileSend ==
  ASSUME IInv, EventsReconcile, NEW p \in Pid,
         NEW kind \in {"foreground", "background", "died"}, ProcessChanges(p, kind)
  PROVE  EventsReconcile'
<1>0. /\ events \in Seq({"foreground", "background", "died"} \X Pid) /\ Len(events) \in Nat
      /\ foreground' = foreground
      /\ events' = Append(events, <<kind, p>>)
      /\ procs' = IF kind = "foreground" THEN procs \cup {p} ELSE procs \ {p}
  BY EventShapes, Zenon DEF ProcessChanges, decision
<1> DEFINE n == Len(events)
<1>1. /\ Len(events') = n + 1
      /\ events'[n + 1] = <<kind, p>>
      /\ \A k \in 1 .. n : events'[k] = events[k]
  BY <1>0
<1> HIDE DEF n
<1>2. n \in Nat /\ n = Len(events)
  BY <1>0, Zenon DEF n
<1>3. kind = "foreground" => events'[n + 1] = <<"foreground", p>> /\ p \in procs'
  BY <1>0, <1>1, Zenon
<1>4. kind # "foreground" => Leaves(events'[n + 1], p) /\ p \notin procs'
  BY <1>0, <1>1, Zenon DEF Leaves
<1>5. ASSUME NEW q \in Pid
      PROVE  /\ q \in procs' /\ q \notin foreground =>
                  \E k \in 1 .. (n + 1) : events'[k] = <<"foreground", q>>
             /\ q \notin procs' /\ q \in foreground =>
                  \E k \in 1 .. (n + 1) : Leaves(events'[k], q)
             /\ q \in procs' => \A j \in 1 .. (n + 1) : Leaves(events'[j], q) =>
                  \E k \in (j + 1) .. (n + 1) : events'[k] = <<"foreground", q>>
             /\ q \notin procs' => \A j \in 1 .. (n + 1) : events'[j] = <<"foreground", q>> =>
                  \E k \in (j + 1) .. (n + 1) : Leaves(events'[k], q)
  <2>0. /\ q \in procs /\ q \notin foreground =>
                  \E k \in 1 .. n : events[k] = <<"foreground", q>>
        /\ q \notin procs /\ q \in foreground =>
                  \E k \in 1 .. n : Leaves(events[k], q)
        /\ q \in procs => \A j \in 1 .. n : Leaves(events[j], q) =>
                  \E k \in (j + 1) .. n : events[k] = <<"foreground", q>>
        /\ q \notin procs => \A j \in 1 .. n : events[j] = <<"foreground", q>> =>
                  \E k \in (j + 1) .. n : Leaves(events[k], q)
    BY <1>2, Zenon DEF EventsReconcile
  <2>1. CASE q = p
    <3>1. q \in procs' => kind = "foreground" /\ events'[n + 1] = <<"foreground", q>>
      BY <1>3, <1>4, <2>1, Zenon
    <3>2. q \notin procs' => Leaves(events'[n + 1], q)
      BY <1>3, <1>4, <2>1, Zenon
    <3>3. q \in procs' => ~Leaves(events'[n + 1], q)
      BY <3>1 DEF Leaves
    <3>4. q \notin procs' => events'[n + 1] # <<"foreground", q>>
      BY <3>2 DEF Leaves
    <3>5. \A j \in 1 .. (n + 1) : j = n + 1 \/ (j \in 1 .. n /\ n + 1 \in (j + 1) .. (n + 1))
      BY <1>2
    <3>6. n + 1 \in 1 .. (n + 1)
      BY <1>2, SMTT(30)
    <3> QED
      BY <3>1, <3>2, <3>3, <3>4, <3>5, <3>6, ZenonT(30)
  <2>2. CASE q # p
    <3>1. q \in procs' <=> q \in procs
      BY <1>0, <2>2, Zenon
    <3>2. events'[n + 1] # <<"foreground", q>> /\ ~Leaves(events'[n + 1], q)
      BY <1>1, <2>2 DEF Leaves
    <3>3. \A j \in 1 .. (n + 1) : j = n + 1 \/ j \in 1 .. n
      BY <1>2
    <3>4. \A j \in 1 .. n : /\ j \in 1 .. (n + 1)
                            /\ \A k \in (j + 1) .. n : k \in (j + 1) .. (n + 1) /\ k \in 1 .. n
      BY <1>2, SMTT(30)
    <3>5. \A k \in 1 .. n : events'[k] = events[k]
      BY <1>1, Zenon
    <3>6. q \in procs /\ q \notin foreground =>
            \E k \in 1 .. (n + 1) : events'[k] = <<"foreground", q>>
      BY <2>0, <3>4, <3>5, Zenon
    <3>7. q \notin procs /\ q \in foreground =>
            \E k \in 1 .. (n + 1) : Leaves(events'[k], q)
      BY <2>0, <3>4, <3>5, Zenon
    <3>8. ASSUME q \in procs, NEW j \in 1 .. (n + 1), Leaves(events'[j], q)
          PROVE  \E k \in (j + 1) .. (n + 1) : events'[k] = <<"foreground", q>>
      <4>1. j \in 1 .. n /\ Leaves(events[j], q)
        BY <3>2, <3>3, <3>5, <3>8, Zenon
      <4>2. PICK k \in (j + 1) .. n : events[k] = <<"foreground", q>>
        BY <2>0, <3>8, <4>1, Zenon
      <4> QED
        BY <3>4, <3>5, <4>1, <4>2, Zenon
    <3>9. ASSUME q \notin procs, NEW j \in 1 .. (n + 1), events'[j] = <<"foreground", q>>
          PROVE  \E k \in (j + 1) .. (n + 1) : Leaves(events'[k], q)
      <4>1. j \in 1 .. n /\ events[j] = <<"foreground", q>>
        BY <3>2, <3>3, <3>5, <3>9, Zenon
      <4>2. PICK k \in (j + 1) .. n : Leaves(events[k], q)
        BY <2>0, <3>9, <4>1, Zenon
      <4> QED
        BY <3>4, <3>5, <4>1, <4>2, Zenon
    <3> QED
      BY <3>1, <3>6, <3>7, <3>8, <3>9, Zenon
  <2> QED
    BY <2>1, <2>2, Zenon
<1> QED
  BY <1>0, <1>1, <1>5, ZenonT(30) DEF EventsReconcile

\* The plugin takes the oldest event.
LEMMA ReconcileTake ==
  ASSUME IInv, EventsReconcile, UpdateForegroundUidPidMap
  PROVE  EventsReconcile'
<1>0. /\ events \in Seq({"foreground", "background", "died"} \X Pid) /\ Len(events) \in Nat
      /\ events # <<>> /\ events' = Tail(events) /\ procs' = procs
      /\ foreground' = IF Head(events)[1] = "foreground"
                       THEN foreground \cup {Head(events)[2]}
                       ELSE foreground \ {Head(events)[2]}
  BY EventShapes, Zenon DEF UpdateForegroundUidPidMap
<1>1. PICK n \in Nat : Len(events) = n + 1
  <2>1. Len(events) - 1 \in Nat /\ Len(events) = (Len(events) - 1) + 1
    BY <1>0, SMTT(30)
  <2> QED
    BY <2>1, Zenon
<1>2. /\ Len(events') = n
      /\ \A k \in 1 .. n : events'[k] = events[k + 1]
      /\ Head(events) = events[1]
  BY <1>0, <1>1, SMTT(30)
<1>3. PICK p \in Pid : events[1] = <<"foreground", p>> \/ Leaves(events[1], p)
  BY <1>1, EventShapes, SMTT(30)
<1>4. events[1] = <<"foreground", p>> =>
        foreground' = foreground \cup {p} /\ \A q \in Pid : ~Leaves(events[1], q)
  BY <1>0, <1>2, SMTT(30) DEF Leaves
<1>5. Leaves(events[1], p) =>
        /\ foreground' = foreground \ {p}
        /\ \A q \in Pid : /\ events[1] # <<"foreground", q>>
                          /\ Leaves(events[1], q) => q = p
  BY <1>0, <1>2 DEF Leaves
<1>6. \A q \in Pid : events[1] = <<"foreground", q>> /\ events[1] = <<"foreground", p>> => q = p
  OBVIOUS
<1>7. /\ \A k \in 1 .. n : k + 1 \in 1 .. (n + 1)
      /\ \A k \in 1 .. (n + 1) : k # 1 => k - 1 \in 1 .. n /\ events[k] = events'[k - 1]
      /\ 1 \in 1 .. (n + 1)
  BY <1>2, SMTT(30)
<1>8. ASSUME NEW q \in Pid
      PROVE  /\ q \in procs /\ q \notin foreground' =>
                  \E k \in 1 .. n : events'[k] = <<"foreground", q>>
             /\ q \notin procs /\ q \in foreground' =>
                  \E k \in 1 .. n : Leaves(events'[k], q)
             /\ q \in procs => \A j \in 1 .. n : Leaves(events'[j], q) =>
                  \E k \in (j + 1) .. n : events'[k] = <<"foreground", q>>
             /\ q \notin procs => \A j \in 1 .. n : events'[j] = <<"foreground", q>> =>
                  \E k \in (j + 1) .. n : Leaves(events'[k], q)
  <2>0. /\ q \in procs /\ q \notin foreground =>
                  \E k \in 1 .. (n + 1) : events[k] = <<"foreground", q>>
        /\ q \notin procs /\ q \in foreground =>
                  \E k \in 1 .. (n + 1) : Leaves(events[k], q)
        /\ q \in procs => \A j \in 1 .. (n + 1) : Leaves(events[j], q) =>
                  \E k \in (j + 1) .. (n + 1) : events[k] = <<"foreground", q>>
        /\ q \notin procs => \A j \in 1 .. (n + 1) : events[j] = <<"foreground", q>> =>
                  \E k \in (j + 1) .. (n + 1) : Leaves(events[k], q)
    BY <1>1, Zenon DEF EventsReconcile
  <2>1. ASSUME q \in procs, q \notin foreground'
        PROVE  \E k \in 1 .. n : events'[k] = <<"foreground", q>>
    <3>1. \E k \in 1 .. (n + 1) : k # 1 /\ events[k] = <<"foreground", q>>
      <4>1. CASE q \in foreground
        <5>1. Leaves(events[1], q)
          BY <1>3, <1>4, <1>5, <2>1, <4>1, Zenon
        <5>2. PICK k \in (1 + 1) .. (n + 1) : events[k] = <<"foreground", q>>
          BY <1>7, <2>0, <2>1, <5>1, Zenon
        <5> QED
          BY <5>2
      <4>2. CASE q \notin foreground
        <5>1. PICK k \in 1 .. (n + 1) : events[k] = <<"foreground", q>>
          BY <2>0, <2>1, <4>2, Zenon
        <5>2. k # 1
          BY <1>3, <1>4, <1>5, <1>6, <2>1, <5>1, SMTT(30)
        <5> QED
          BY <5>1, <5>2, Zenon
      <4> QED
        BY <4>1, <4>2, Zenon
    <3> QED
      BY <1>7, <3>1, Zenon
  <2>2. ASSUME q \notin procs, q \in foreground'
        PROVE  \E k \in 1 .. n : Leaves(events'[k], q)
    <3>1. \E k \in 1 .. (n + 1) : k # 1 /\ Leaves(events[k], q)
      <4>1. CASE q \notin foreground
        <5>1. events[1] = <<"foreground", q>>
          BY <1>3, <1>4, <1>5, <2>2, <4>1, Zenon
        <5>2. PICK k \in (1 + 1) .. (n + 1) : Leaves(events[k], q)
          BY <1>7, <2>0, <2>2, <5>1, Zenon
        <5> QED
          BY <5>2, SMTT(30)
      <4>2. CASE q \in foreground
        <5>1. PICK k \in 1 .. (n + 1) : Leaves(events[k], q)
          BY <2>0, <2>2, <4>2, Zenon
        <5>2. k # 1
          BY <1>3, <1>4, <1>5, <2>2, <5>1, Zenon
        <5> QED
          BY <5>1, <5>2, Zenon
      <4> QED
        BY <4>1, <4>2, Zenon
    <3> QED
      BY <1>7, <3>1, Zenon
  <2>3. ASSUME q \in procs, NEW j \in 1 .. n, Leaves(events'[j], q)
        PROVE  \E k \in (j + 1) .. n : events'[k] = <<"foreground", q>>
    <3>1. j + 1 \in 1 .. (n + 1) /\ Leaves(events[j + 1], q)
      BY <1>2, <1>7, <2>3, Zenon
    <3>2. PICK k \in (j + 1 + 1) .. (n + 1) : events[k] = <<"foreground", q>>
      BY <2>0, <2>3, <3>1, Zenon
    <3>3. k - 1 \in (j + 1) .. n /\ k \in 1 .. (n + 1) /\ k # 1
      BY <3>2, SMTT(30)
    <3> QED
      BY <1>7, <3>2, <3>3, Zenon
  <2>4. ASSUME q \notin procs, NEW j \in 1 .. n, events'[j] = <<"foreground", q>>
        PROVE  \E k \in (j + 1) .. n : Leaves(events'[k], q)
    <3>1. j + 1 \in 1 .. (n + 1) /\ events[j + 1] = <<"foreground", q>>
      BY <1>2, <1>7, <2>4, Zenon
    <3>2. PICK k \in (j + 1 + 1) .. (n + 1) : Leaves(events[k], q)
      BY <2>0, <2>4, <3>1, Zenon
    <3>3. k - 1 \in (j + 1) .. n /\ k \in 1 .. (n + 1) /\ k # 1
      BY <3>2
    <3> QED
      BY <1>7, <3>2, <3>3, Zenon
  <2> QED
    BY <2>1, <2>2, <2>3, <2>4, Zenon
<1> QED
  BY <1>0, <1>2, <1>8, Zenon DEF EventsReconcile

\* An application whose requests are counted from this step on may be counted.
LEMMA CountedFromStart ==
  ASSUME MaxRequests + 1 < IntMax, IInv, StepKinds, NEW a \in App, AnyCounted(a)'
  PROVE  AnyCounted(a) \/ CanStartAccounting(a)
<1>0. /\ reqs \in [App -> SUBSET Ids] /\ info \in [Ids -> Request]
      /\ \A b, c \in App : b # c => reqs[b] \cap reqs[c] = {}
  BY ListsDisjoint, Zenon DEF IInv, TypeOK, Inv
<1>k. PICK i \in Ids : i \in reqs'[a] /\ Counted(info'[i])
  <2>1. PICK i \in reqs'[a] : Counted(info'[i])
    BY Zenon DEF AnyCounted
  <2>2. reqs' \in [App -> SUBSET Ids]
    <3>1. CASE Requests
      BY <1>0, <3>1 DEF Requests, RequestSuspendDelay, RefuseNotInPresetTime,
        RefuseExceedsThreshold, RefuseTimeInsufficient, Grant
    <3>2. CASE Cancels
      <4>1. PICK S \in SUBSET Ids : CancelLocked(S)
        BY <3>2, Zenon DEF Cancels
      <4>2. reqs' = [b \in App |-> reqs[b] \ RemoveOf(b, S)]
        BY <4>1, Zenon DEF CancelLocked
      <4> QED
        BY <1>0, <4>2, Zenon
    <3> QED
      BY <1>0, <3>1, <3>2, ZenonT(30)
         DEF StepKinds, Starts, StartAccounting, Stops, StopAccountingAll,
        Queries, GetQuota, Timers, HandleRequestExpired, TakeTimer, TakeWatchdog, Passes,
        accounts
  <2> QED
    BY <2>1, <2>2, Zenon
<1>1. CASE Requests
  <2>1. PICK b \in App, cb \in Callback : RequestSuspendDelay(b, cb)
    BY <1>1, Zenon DEF Requests
  <2>2. CASE Grant(b, cb)
    <3> DEFINE S == IF CanStartAccounting(b) THEN {requestId} ELSE {}
    <3>1. /\ requestId \in Ids /\ NewDelaySuspendRequestId = requestId
          /\ \A c \in App : requestId \notin reqs[c]
          /\ reqs' = [reqs EXCEPT ![b] = @ \cup {requestId}]
      BY <2>2, GrantFresh, Zenon DEF Grant
    <3>2. PICK r : info' = StartInfo([info EXCEPT ![requestId] =
                                        [NoRequest EXCEPT !.actual = r]], S, clock)
      BY <2>2, <3>1, Zenon DEF Grant
    <3>3. CASE i = requestId
      <4>1. a = b
        BY <1>0, <1>k, <3>1, <3>3, Zenon
      <4>2. CASE ~CanStartAccounting(b)
        <5>1. info'[i] = [NoRequest EXCEPT !.actual = r]
          BY <1>0, <3>1, <3>2, <3>3, <4>2, Zenon DEF StartInfo
        <5>2. ~Counted(info'[i])
          BY <5>1, Zenon DEF Counted, NoRequest
        <5> QED
          BY <1>k, <5>2, Zenon
      <4> QED
        BY <4>1, <4>2, Zenon
    <3>4. CASE i # requestId
      <4>1. i \in reqs[a]
        BY <1>0, <1>k, <3>1, <3>4, Zenon
      <4>2. info'[i] = info[i]
        BY <1>0, <3>1, <3>2, <3>4, Zenon DEF StartInfo
      <4> QED
        BY <1>k, <4>1, <4>2, Zenon DEF AnyCounted
    <3> QED
      BY <3>3, <3>4, Zenon
  <2>3. CASE ~Grant(b, cb)
    <3>1. UNCHANGED <<reqs, info>>
      BY <2>1, <2>3, Zenon
         DEF RequestSuspendDelay, RefuseNotInPresetTime, RefuseExceedsThreshold,
        RefuseTimeInsufficient
    <3> QED
      BY <1>k, <3>1, Zenon DEF AnyCounted
  <2> QED
    BY <2>2, <2>3, Zenon
<1>2. CASE Cancels
  <2>1. PICK S \in SUBSET Ids : CancelLocked(S)
    BY <1>2, Zenon DEF Cancels
  <2> DEFINE gone == {j \in S : \E b \in App : keyInfo[j] = b /\ j \in reqs[b]}
  <2>2. info' = ForgetInfo(info, gone) /\ reqs'[a] = reqs[a] \ RemoveOf(a, S)
    BY <2>1, ZenonT(30) DEF CancelLocked
  <2> HIDE DEF gone
  <2>3. info'[i] = NoRequest \/ info'[i] = info[i]
    BY <2>2, Zenon DEF ForgetInfo
  <2>4. info'[i] # NoRequest
    <3>1. NoRequest.base = 0
      BY Zenon DEF NoRequest
    <3> QED
      BY <1>k, <3>1, Zenon DEF Counted
  <2> QED
    BY <1>k, <2>2, <2>3, <2>4, Zenon DEF AnyCounted
<1>3. CASE Starts
  <2>1. PICK A \in SUBSET App : StartAccounting(A) /\ \A b \in A : MayTryStart(b)
    BY <1>3, Zenon DEF Starts
  <2>2. CASE a \in A
    BY <2>1, <2>2, Zenon DEF MayTryStart
  <2>3. CASE a \notin A
    <3>1. i \in reqs[a]
      BY <1>k, <2>1, Zenon DEF StartAccounting
    <3>2. i \notin RequestsOf(A)
      BY <1>0, <2>3, <3>1, Zenon DEF RequestsOf
    <3>3. info'[i] = info[i]
      BY <2>1, <3>2, ZenonT(30) DEF StartAccounting, StartInfo
    <3> QED
      BY <1>k, <3>1, <3>3, Zenon DEF AnyCounted
  <2> QED
    BY <2>2, <2>3, Zenon
<1>4. CASE Stops
  <2>1. PICK A \in SUBSET App : StopAccountingAll(A)
    BY <1>4, Zenon DEF Stops
  <2>2. i \in reqs[a] /\ (info'[i] = info[i] \/ info'[i] = StopRequest(info[i], clock))
    BY <1>k, <2>1, Zenon DEF StopAccountingAll, StopInfo
  <2>3. ~Counted(StopRequest(info[i], clock))
    BY <1>0, Zenon DEF Counted, StopRequest, Request
  <2> QED
    BY <1>k, <2>2, <2>3, Zenon DEF AnyCounted
<1>5. CASE Queries \/ Timers \/ Passes
  <2>1. UNCHANGED <<reqs, info>>
    BY <1>5, Zenon DEF Queries, GetQuota, Timers, HandleRequestExpired, TakeTimer, TakeWatchdog,
      Passes, accounts
  <2> QED
    BY <1>k, <2>1, Zenon DEF AnyCounted
<1> QED
  BY <1>1, <1>2, <1>3, <1>4, <1>5, Zenon DEF StepKinds

\* HandleScreenOn and HandleStateChange leave nothing of what they stop counted.
LEMMA StoppedIsNotCounted ==
  ASSUME IInv, NEW A \in SUBSET App, StopAccountingAll(A), NEW a \in A
  PROVE  ~AnyCounted(a)'
<1>0. reqs' = reqs /\ reqs \in [App -> SUBSET Ids] /\ info \in [Ids -> Request]
  BY Zenon DEF StopAccountingAll, IInv, TypeOK
<1>1. ASSUME NEW i \in reqs[a]
      PROVE  ~Counted(info'[i])
  <2>1. i \in Ids /\ i \in RequestsOf(A)
    BY <1>0, Zenon DEF RequestsOf
  <2>2. info'[i] = StopRequest(info[i], clock)
    BY <2>1, Zenon DEF StopAccountingAll, StopInfo
  <2>3. info[i] \in Request
    BY <1>0, <2>1, Zenon
  <2> QED
    BY <2>2, <2>3, Zenon DEF Counted, StopRequest, Request
<1> QED
  BY <1>0, <1>1, Zenon DEF AnyCounted

LEMMA CountedIsPresent ==
  ASSUME IInv, NEW a \in App, AnyCounted(a)
  PROVE  pkg[a].present
  BY Zenon DEF IInv, Inv, ListedIsPresent, AnyCounted

\* Steps that neither send, handle nor take a process or screen event.
Calm ==
    /\ UNCHANGED <<procs, events, plugin, foreground, screenOn, queryFailed>>
    /\ runner.op = "screenOn" <=> runner'.op = "screenOn"

Sends == \E p \in Pid, kind \in {"foreground", "background", "died"} : ProcessChanges(p, kind)

LEMMA CalmOrEvent ==
  ASSUME IInv, [Next]_vars
  PROVE  \/ Calm \/ ScreenEvent \/ HandleScreenOn
         \/ Sends \/ UpdateForegroundUidPidMap \/ HandleStateChange
<1>0. runner \in RunnerStates /\ Idle.op = "idle"
  BY Zenon DEF IInv, TypeOK, Idle
<1>1. CASE AppNext
  BY <1>1, Zenon DEF AppNext, RequestSuspendDelay, CancelSuspendDelay, GetQuota,
    HandleExpiredCallbackDeath, Calm, decision, device, processes
<1>2. CASE TimerNext
  <2>1. UNCHANGED <<procs, events, plugin, foreground, screenOn, queryFailed>>
    BY <1>2, ZenonT(30) DEF TimerNext, TakeTimer, TakeWatchdog, HandleRequestExpired,
      ForceCancelSuspendDelay, decision, device, processes
  <2>2. runner.op # "screenOn" /\ runner'.op # "screenOn"
    BY <1>0, <1>2, ZenonT(30) DEF TimerNext, TakeTimer, TakeWatchdog, HandleRequestExpired,
      ForceCancelSuspendDelay, Idle
  <2> QED
    BY <2>1, <2>2, Zenon DEF Calm
<1>3. CASE HandleScreenOff
  BY <1>0, <1>3, Zenon DEF HandleScreenOff, Calm, decision, device, processes
<1>4. CASE BatteryNext
  BY <1>4, Zenon DEF BatteryNext, BatteryEvent, SetDump, Calm, decision, device, processes
<1>5. ASSUME NEW a \in App, OnAppCacheStateChanged(a)
      PROVE  Calm
  <2>1. runner.op # "screenOn" /\ runner'.op # "screenOn"
    BY <1>5, Zenon DEF OnAppCacheStateChanged, Idle
  <2> QED
    BY <1>5, <2>1, Zenon DEF OnAppCacheStateChanged, Calm, decision, device, processes
<1>6. ASSUME NEW i \in Ids, CancelCached(i)
      PROVE  Calm
  <2>1. runner.op # "screenOn" /\ runner'.op # "screenOn"
    BY <1>0, <1>6, Zenon DEF CancelCached, RunnerStates
  <2> QED
    BY <1>6, <2>1, Zenon DEF CancelCached, Calm, decision, device, processes
<1>7. CASE InnerNext
  <2>1. UNCHANGED <<procs, events, plugin, foreground, screenOn, queryFailed>>
    BY <1>7, ZenonT(30) DEF InnerNext, PauseTransientTaskTimeForInner, PauseStop, PauseInsert,
      StartTransientTaskTimeForInner, StartTry, StartErase, DieCheck, DieStart,
      HandleSuspendManagerDie, DieEnd, decision, device, processes
  <2>2. runner.op = "screenOn" <=> runner'.op = "screenOn"
    <3>1. ASSUME NEW a \in App, DieCheck(a) \/ DieStart(a)
          PROVE  runner.op = "screenOn" <=> runner'.op = "screenOn"
      BY <1>0, <3>1, Zenon DEF DieCheck, DieStart, RunnerStates
    <3>2. CASE HandleSuspendManagerDie \/ DieEnd
      BY <1>0, <3>2, Zenon DEF HandleSuspendManagerDie, DieEnd, Idle
    <3> QED
      BY <1>7, <3>1, <3>2, Zenon DEF InnerNext, PauseTransientTaskTimeForInner, PauseStop,
        PauseInsert, StartTransientTaskTimeForInner, StartTry, StartErase
  <2> QED
    BY <2>1, <2>2, Zenon DEF Calm
<1>8. CASE Tick
  BY <1>8, Zenon DEF Tick, Calm, decision, device, processes
<1>9. CASE UNCHANGED vars
  BY <1>9, Zenon DEF vars, Calm, decision, device, processes
<1> QED
  BY SMTT(30), <1>1, <1>2, <1>3, <1>4, <1>5, <1>6, <1>7, <1>8, <1>9
  DEF Next, ScreenNext, CacheNext, ProcessNext, Sends

LEMMA ReconcileStep ==
  ASSUME IInv, EventsReconcile, [Next]_vars
  PROVE  EventsReconcile'
<1>1. CASE Sends
  BY <1>1, ReconcileSend, Zenon DEF Sends
<1>2. CASE UpdateForegroundUidPidMap
  BY <1>2, ReconcileTake, Zenon
<1>3. CASE Calm \/ ScreenEvent \/ HandleScreenOn \/ HandleStateChange
  <2>1. UNCHANGED <<procs, events, foreground>>
    BY <1>3, Zenon DEF Calm, ScreenEvent, HandleScreenOn, HandleStateChange, decision, processes
  <2> QED
    BY <2>1, Zenon DEF EventsReconcile
<1> QED
  BY <1>1, <1>2, <1>3, CalmOrEvent, Zenon

\* Whoever starts to be counted in the foreground has the event on its way.
LEMMA StartedIsTold ==
  ASSUME EventsReconcile, screenOn, NEW p \in procs, procs \in SUBSET Pid,
         CanStartAccounting(AppOf[p])
  PROVE  \E k \in 1 .. Len(events) : events[k] = <<"foreground", p>>
<1>1. p \notin foreground
  BY Zenon DEF CanStartAccounting, IsUidForeground
<1> QED
  BY <1>1, ZenonT(30) DEF EventsReconcile

LEMMA ToldStep ==
  ASSUME MaxRequests + 1 < IntMax, IInv, ForegroundInv, [Next]_vars
  PROVE  CountedIsTold'
<1>0. /\ procs \in SUBSET Pid /\ EventsReconcile /\ CountedIsTold
      /\ events \in Seq({"foreground", "background", "died"} \X Pid) /\ Len(events) \in Nat
      /\ StepKinds /\ AppOf \in [Pid -> App]
  BY EventShapes, NextKinds, TransientAssumption, Zenon DEF ForegroundInv
<1> SUFFICES ASSUME screenOn', ~queryFailed', runner'.op # "screenOn",
                    NEW p \in procs', AnyCounted(AppOf[p])'
             PROVE  Coming(p)'
  BY Zenon DEF CountedIsTold
<1>p. p \in Pid /\ AppOf[p] \in App
  <2>1. procs' \in SUBSET Pid
    BY <1>0, CalmOrEvent, Zenon DEF Calm, ScreenEvent, HandleScreenOn, Sends, ProcessChanges,
      UpdateForegroundUidPidMap, HandleStateChange, processes
  <2> QED
    BY <1>0, <2>1, Zenon
<1>s. AnyCounted(AppOf[p]) \/ CanStartAccounting(AppOf[p])
  BY <1>0, <1>p, CountedFromStart, Zenon
<1>1. CASE Calm
  <2>1. p \in procs /\ screenOn /\ ~queryFailed /\ runner.op # "screenOn"
    BY <1>1, Zenon DEF Calm
  <2>2. Coming(p)
    BY <1>0, <1>s, <2>1, StartedIsTold, Zenon DEF CountedIsTold, Coming
  <2> QED
    BY <1>1, <2>2, Zenon DEF Calm, Coming
<1>2. CASE ScreenEvent
  <2>1. UNCHANGED <<procs, events, plugin, accounts, queryFailed>> /\ runner.op = "idle"
    BY <1>2, Zenon DEF ScreenEvent, processes, Idle
  <2>2. display' \in BOOLEAN /\ ~display'
    BY <1>2, Zenon DEF ScreenEvent, Idle, IInv, TypeOK
  <2>3. screenOn
    BY <1>2, <2>2, ZenonT(30) DEF ScreenEvent, IInv, TypeOK
  <2>4. AnyCounted(AppOf[p])
    BY <2>1, Zenon DEF AnyCounted, accounts
  <2> QED
    BY <1>0, <2>1, <2>3, <2>4, Zenon DEF CountedIsTold, Coming
<1>3. CASE HandleScreenOn
  <2> DEFINE A == {a \in App : pkg[a].present /\ \E q \in procs : AppOf[q] = a}
  <2>1. StopAccountingAll(A) /\ procs' = procs
    BY <1>3, Zenon DEF HandleScreenOn, processes
  <2>2. A \in SUBSET App /\ (AppOf[p] \in A <=> pkg[AppOf[p]].present)
    BY <1>p, <2>1, Zenon
  <2> HIDE DEF A
  <2>3. AppOf[p] \notin A
    BY <2>1, <2>2, StoppedIsNotCounted, Zenon
  <2>4. UNCHANGED reqs
    BY <2>1, Zenon DEF StopAccountingAll
  <2>5. reqs[AppOf[p]] # {}
    BY <2>4, Zenon DEF AnyCounted
  <2> QED
    BY <1>p, <2>2, <2>3, <2>5, Zenon DEF IInv, Inv, ListedIsPresent
<1>4. CASE Sends
  <2>1. PICK q \in Pid, kind \in {"foreground", "background", "died"} : ProcessChanges(q, kind)
    BY <1>4, Zenon DEF Sends
  <2>2. /\ procs' = IF kind = "foreground" THEN procs \cup {q} ELSE procs \ {q}
        /\ events' = Append(events, <<kind, q>>)
        /\ UNCHANGED <<accounts, screenOn, queryFailed, runner, plugin>>
    BY <2>1, Zenon DEF ProcessChanges, device
  <2>3. /\ Len(events') = Len(events) + 1
        /\ events'[Len(events) + 1] = <<kind, q>>
        /\ \A k \in 1 .. Len(events) : k \in 1 .. (Len(events) + 1) /\ events'[k] = events[k]
        /\ Len(events) + 1 \in 1 .. (Len(events) + 1)
    BY <1>0, <2>2, SMTT(30)
  <2>4. CASE p \in procs
    <3>1. AnyCounted(AppOf[p])
      BY <2>2, Zenon DEF AnyCounted, accounts
    <3>2. Coming(p)
      BY <1>0, <2>2, <2>4, <3>1, Zenon DEF CountedIsTold
    <3> QED
      BY <2>2, <2>3, <3>2, Zenon DEF Coming
  <2>5. CASE p \notin procs
    <3>1. kind = "foreground" /\ p = q
      BY <2>2, <2>5, Zenon
    <3> QED
      BY <2>3, <3>1, Zenon DEF Coming
  <2> QED
    BY <2>4, <2>5, Zenon
<1>5. CASE UpdateForegroundUidPidMap
  <2>1. /\ plugin = <<>> /\ events # <<>> /\ plugin' = Head(events) /\ events' = Tail(events)
        /\ UNCHANGED <<procs, accounts, screenOn, queryFailed, runner>>
    BY <1>5, ZenonT(30) DEF UpdateForegroundUidPidMap, device
  <2>2. Coming(p)
    BY <1>0, <2>1, Zenon DEF CountedIsTold, AnyCounted, accounts
  <2>3. PICK k \in 1 .. Len(events) : events[k] = <<"foreground", p>>
    BY <2>1, <2>2, Zenon DEF Coming
  <2>4. CASE k = 1
    <3>1. plugin' = <<"foreground", p>>
      BY <1>0, <2>1, <2>3, <2>4, SMTT(30)
    <3> QED
      BY <3>1, Zenon DEF Coming
  <2>5. CASE k # 1
    <3>1. k - 1 \in 1 .. Len(events') /\ events'[k - 1] = events[k]
      BY <1>0, <2>1, <2>5, SMTT(30)
    <3> QED
      BY <2>3, <3>1, Zenon DEF Coming
  <2> QED
    BY <2>4, <2>5, Zenon
<1>6. CASE HandleStateChange
  <2>1. /\ plugin # <<>> /\ plugin' = <<>>
        /\ plugin[1] = "foreground" => HandleForeground(AppOf[plugin[2]])
        /\ UNCHANGED <<procs, events, screenOn, queryFailed, runner, foreground>>
    BY <1>6, Zenon DEF HandleStateChange, device
  <2>2. plugin # <<"foreground", p>>
    <3>1. SUFFICES ASSUME plugin = <<"foreground", p>>
                   PROVE  FALSE
      BY Zenon
    <3>2. HandleForeground(AppOf[p])
      BY <2>1, <3>1, Zenon
    <3>3. CASE pkg[AppOf[p]].present
      <4>1. StopAccountingAll({AppOf[p]}) /\ {AppOf[p]} \in SUBSET App
        BY <1>p, <3>2, <3>3, ZenonT(30) DEF HandleForeground
      <4> QED
        BY <4>1, StoppedIsNotCounted, Zenon
    <3>4. CASE ~pkg[AppOf[p]].present
      <4>1. UNCHANGED accounts
        BY <3>2, <3>4, ZenonT(30) DEF HandleForeground
      <4>2. AnyCounted(AppOf[p])
        BY <4>1, ZenonT(30) DEF accounts, AnyCounted
      <4> QED
        BY <1>p, <3>4, <4>2, CountedIsPresent, Zenon
    <3> QED
      BY <3>3, <3>4, Zenon
  <2>3. \E k \in 1 .. Len(events) : events[k] = <<"foreground", p>>
    BY <1>0, <1>s, <2>1, <2>2, StartedIsTold, Zenon DEF CountedIsTold, Coming
  <2> QED
    BY <2>1, <2>3, Zenon DEF Coming
<1> QED
  BY <1>1, <1>2, <1>3, <1>4, <1>5, <1>6, CalmOrEvent

\* With the screen on, no request of an application in the foreground is counted once
\* the process events have been handled: OnProcessStateChanged, HandleScreenOn and
\* TryStartAccounting agree although they read the foreground map under another lock.
THEOREM ForegroundIsNeverCounted ==
  ASSUME MaxRequests + 1 < IntMax
  PROVE  Spec => []ForegroundNotCounted
<1>1. Init => ForegroundInv
  <2> SUFFICES ASSUME Init
               PROVE  ForegroundInv
    BY Zenon
  <2>1. procs = {} /\ foreground = {} /\ events = <<>> /\ Len(events) = 0
    BY Zenon DEF Init
  <2>2. EventsReconcile
    BY <2>1 DEF EventsReconcile
  <2>3. CountedIsTold
    BY <2>1, Zenon DEF CountedIsTold
  <2> QED
    BY <2>2, <2>3, Zenon DEF ForegroundInv
<1>2. IInv /\ ForegroundInv /\ [Next]_vars => ForegroundInv'
  BY ReconcileStep, ToldStep, Zenon DEF ForegroundInv
<1>3. IInv /\ ForegroundInv => ForegroundNotCounted
  <2> SUFFICES ASSUME IInv, ForegroundInv, Settled, screenOn, ~queryFailed,
                      NEW a \in App, IsUidForeground(a), AnyCounted(a)
               PROVE  FALSE
    BY Zenon DEF ForegroundNotCounted
  <2>1. PICK p \in foreground : AppOf[p] = a
    BY Zenon DEF IsUidForeground
  <2>2. plugin = <<>> /\ Len(events) = 0 /\ runner.op # "screenOn" /\ p \in Pid
    BY EventShapes, Zenon DEF Settled
  <2>3. p \in procs
    BY <2>2, SMTT(30) DEF ForegroundInv, EventsReconcile
  <2>4. Coming(p)
    BY <2>1, <2>2, <2>3, Zenon DEF ForegroundInv, CountedIsTold
  <2> QED
    BY <2>2, <2>4 DEF Coming
<1> QED
  BY <1>1, <1>2, <1>3, InvariantHolds, PTL DEF Spec
=============================================================================
