------------------------- MODULE TransientTaskProofs -------------------------
(***************************************************************************)
(* Proofs about TransientTask for every set of applications, processes and *)
(* callbacks and every value of the times and limits: its types, the       *)
(* agreement of the three registries of requests, and that a counted       *)
(* request is always watched by a timer or a watchdog and charged to the   *)
(* quota; and, over any number of requests, stops and starts, that the     *)
(* notices posted tell how many requests there are and that the time       *)
(* counted is spent of the quota.  The only hypothesis of the first part   *)
(* is that request ids have not wrapped around INT_MAX.  First come the    *)
(* operators of DelayAccounting, the inductive invariant and the ways a    *)
(* step may change the accounts: accounting starts or stops, requests are  *)
(* removed, or only time passes.                                           *)
(***************************************************************************)
EXTENDS TransientTask, FiniteSetTheorems, TLAPS

-----------------------------------------------------------------------------
(* The operators of DelayAccounting.                                       *)

LEMMA Int32Type == \A n \in Int : ToInt32(n) \in Int
  BY AccountingAssumption DEF ToInt32

LEMMA NonNegativeType == \A n \in Int : NonNegative(n) \in Nat /\ (n \in Nat => NonNegative(n) = n)
  BY DEF NonNegative

LEMMA ModifiedType ==
  ASSUME NEW p \in Package, NEW e \in Nat, NEW t \in Nat
  PROVE  GetModifiedTime(p, e, t) \in Nat
<1>1. ToInt32(t) - p.base - e \in Int
  BY Int32Type DEF Package
<1> QED
  BY <1>1, Int32Type, NonNegativeType, Zenon DEF GetModifiedTime

LEMMA UpdateQuotaFacts ==
  ASSUME NEW p \in Package, NEW e \in Nat, NEW t \in Nat
  PROVE  /\ UpdateQuota(p, e, t) \in Package
         /\ UpdateQuota(p, e, t).present = p.present
         /\ UpdateQuota(p, e, t).counting = p.counting
<1> DEFINE spent == IF p.counting THEN GetModifiedTime(p, e, t) ELSE 0
<1>1. spent \in Nat
  BY ModifiedType, Zenon
<1>2. NonNegative(p.quota - spent) \in 0 .. INIT_QUOTA
  BY <1>1, AccountingAssumption DEF Package, NonNegative
<1>3. (IF p.counting THEN ToInt32(t) ELSE 0) \in Int
  BY Int32Type
<1> HIDE DEF spent
<1>4. UpdateQuota(p, e, t) = [p EXCEPT !.quota = NonNegative(p.quota - spent),
                                       !.base = IF p.counting THEN ToInt32(t) ELSE 0]
  BY Zenon DEF UpdateQuota, Package, spent
<1> QED
  BY <1>2, <1>3, <1>4, Zenon DEF Package

LEMMA PackageFacts ==
  ASSUME NEW p \in Package, NEW e \in Nat, NEW t \in Nat
  PROVE  /\ ResetQuota(p, e, t) \in Package
         /\ ResetQuota(p, e, t).present = p.present
         /\ ResetQuota(p, e, t).counting = p.counting
         /\ StopPackage(p, e, t) \in Package
         /\ StopPackage(p, e, t).present = p.present
         /\ \A S : /\ StartPackage(p, S, e, t) \in Package
                   /\ StartPackage(p, S, e, t).present = p.present
                   /\ p.counting => StartPackage(p, S, e, t).counting
                   /\ S # {} => StartPackage(p, S, e, t).counting
         /\ \A L, S : /\ RemovePackage(p, L, S, e, t) \in Package
                      /\ RemovePackage(p, L, S, e, t).present = p.present
                      /\ p.counting /\ ~(L \subseteq S) =>
                           RemovePackage(p, L, S, e, t).counting
<1> DEFINE u == UpdateQuota(p, e, t)
<1>1. u \in Package /\ u.present = p.present /\ u.counting = p.counting
  BY UpdateQuotaFacts, Zenon
<1>2. ToInt32(t) \in Int
  BY Int32Type
<1>3. ResetQuota(p, e, t) = [u EXCEPT !.quota = INIT_QUOTA]
  BY Zenon DEF ResetQuota
<1>4. StopPackage(p, e, t) = [u EXCEPT !.counting = FALSE, !.base = 0]
  BY Zenon DEF StopPackage
<1>5. \A S : StartPackage(p, S, e, t) =
                IF S = {} \/ p.counting THEN p
                ELSE [u EXCEPT !.counting = TRUE, !.base = ToInt32(t)]
  BY Zenon DEF StartPackage
<1> HIDE DEF u
<1>6. /\ ResetQuota(p, e, t) \in Package
      /\ ResetQuota(p, e, t).present = p.present
      /\ ResetQuota(p, e, t).counting = p.counting
  BY <1>1, <1>3, AccountingAssumption DEF Package
<1>7. /\ StopPackage(p, e, t) \in Package
      /\ StopPackage(p, e, t).present = p.present
  <2> DEFINE zero == 0
  <2>1. zero \in Int /\ StopPackage(p, e, t) = [u EXCEPT !.counting = FALSE, !.base = zero]
    BY <1>4
  <2> HIDE DEF zero
  <2> QED
    BY <1>1, <2>1, Zenon DEF Package
<1>8. ASSUME NEW S
      PROVE  /\ StartPackage(p, S, e, t) \in Package
             /\ StartPackage(p, S, e, t).present = p.present
             /\ p.counting => StartPackage(p, S, e, t).counting
             /\ S # {} => StartPackage(p, S, e, t).counting
  BY <1>1, <1>2, <1>5, ZenonT(30) DEF Package
<1>9. ASSUME NEW L, NEW S
      PROVE  /\ RemovePackage(p, L, S, e, t) \in Package
             /\ RemovePackage(p, L, S, e, t).present = p.present
             /\ p.counting /\ ~(L \subseteq S) => RemovePackage(p, L, S, e, t).counting
  BY <1>7, Zenon DEF RemovePackage
<1> QED
  BY <1>6, <1>7, <1>8, <1>9, Zenon

LEMMA ResetAndStopFacts ==
  ASSUME NEW p \in Package, NEW e \in Nat, NEW t \in Nat
  PROVE  /\ ResetQuota(p, e, t) \in Package
         /\ ResetQuota(p, e, t).present = p.present
         /\ ResetQuota(p, e, t).counting = p.counting
         /\ StopPackage(p, e, t) \in Package
         /\ StopPackage(p, e, t).present = p.present
  BY PackageFacts, ZenonT(30)

LEMMA NoPackageType ==
  /\ NoPackage \in Package
  /\ NewPackage \in Package
  /\ NewPackage.present
  /\ ~NoPackage.present
<1>1. NoPackage \in Package /\ ~NoPackage.present
  BY AccountingAssumption DEF NoPackage, Package
<1>2. \A p \in Package, b \in BOOLEAN : [p EXCEPT !.present = b] \in Package
  BY Zenon DEF Package
<1>3. NewPackage.present
  BY Zenon DEF NewPackage, NoPackage
<1> QED
  BY <1>1, <1>2, <1>3, Zenon DEF NewPackage

LEMMA RequestFacts ==
  ASSUME NEW r \in Request, NEW t \in Nat \ {0}, r.base <= t
  PROVE  /\ StartRequest(r, t) \in Request
         /\ StartRequest(r, t).base <= t
         /\ Counted(StartRequest(r, t))
         /\ StopRequest(r, t) \in Request
         /\ StopRequest(r, t).base = 0
         /\ GetAdvanceCallbackTime(r, t) \in Nat
<1>1. StartRequest(r, t) \in Request /\ StartRequest(r, t).base <= t
  BY DEF StartRequest, Request
<1>2. Counted(StartRequest(r, t))
  <2>1. StartRequest(r, t).base # 0
    BY Zenon DEF StartRequest, Request
  <2> QED
    BY <2>1, Zenon DEF Counted
<1>3. StopRequest(r, t) \in Request /\ StopRequest(r, t).base = 0
  <2> DEFINE zero == 0
             spent == r.spent + (t - r.base)
  <2>1. zero \in Nat /\ spent \in Nat
    BY DEF Request
  <2>2. StopRequest(r, t) = IF r.base # zero THEN [r EXCEPT !.spent = spent, !.base = zero]
                            ELSE r
    BY Zenon DEF StopRequest
  <2>3. zero = 0
    BY Zenon
  <2> HIDE DEF zero, spent
  <2> QED
    BY <2>1, <2>2, <2>3, Zenon DEF Request
<1>4. SpendTime(r, t) \in Int
  BY DEF SpendTime, Request
<1>5. r.actual - ToInt32(SpendTime(r, t)) \in Int
  BY <1>4, Int32Type DEF Request
<1>6. GetRemainDelayTime(r, t) \in Nat
  BY <1>5, NonNegativeType, Zenon DEF GetRemainDelayTime
<1>7. GetAdvanceCallbackTime(r, t) \in Nat
  BY <1>6, NonNegativeType, AccountingAssumption DEF GetAdvanceCallbackTime
<1> QED
  BY <1>1, <1>2, <1>3, <1>7, Zenon

-----------------------------------------------------------------------------
(* The inductive invariant and the accounts.                               *)

\* An id not handed out yet is in no registry and has no event.
FreshIds ==
    \A i \in Ids : i >= requestId =>
      /\ keyInfo[i] = NoApp
      /\ info[i] = NoRequest
      /\ timer[i] = {}
      /\ watchdog[i] = {}

\* Only a request in a list can be counted.
CountedIsListed ==
    \A i \in Ids : Counted(info[i]) => \E a \in App : i \in reqs[a]

\* The package of an application with requests is in the map.
ListedIsPresent ==
    \A a \in App : reqs[a] # {} => pkg[a].present

\* Accounting started in the past.
BaseInPast == \A i \in Ids : info[i].base <= clock

\* The inductive invariant.
Inv ==
    /\ RegistriesAgree
    /\ CountedIsWatched
    /\ NoStrayEvents
    /\ CountedIsCharged
    /\ FreshIds
    /\ CountedIsListed
    /\ ListedIsPresent
    /\ BaseInPast

\* An event that was taken belongs to a request.
TakenIsId == runner.op \in {"expired", "force"} => runner.id \in Ids

IInv == TypeOK /\ TakenIsId /\ Inv

\* The runner has taken an event of request i off its queue.
TakenFor(i) == runner.op \in {"expired", "force"} /\ runner.id = i

-----------------------------------------------------------------------------
(* The three ways the accounts change: accounting starts, accounting stops, *)
(* requests are removed.                                                    *)

AccountTypes ==
    /\ pkg \in [App -> Package]
    /\ reqs \in [App -> SUBSET Ids]
    /\ info \in [Ids -> Request]
    /\ timer \in [Ids -> SUBSET Nat]

LEMMA CardinalityOfIds == \A S \in SUBSET Ids : Cardinality(S) \in Nat
<1>1. IsFiniteSet(Ids)
  BY FS_Interval, AccountingAssumption DEF Ids
<1> QED
  BY <1>1, FS_Subset, FS_CardinalityType, Zenon

LEMMA ExemptedType == \A a \in App : Exempted(a) \in Nat
  BY TransientAssumption, Zenon DEF Exempted

\* No request is in two lists, and a fresh id is in none.
LEMMA ListsDisjoint ==
  ASSUME RegistriesAgree, NEW i \in Ids, NEW a \in App, NEW b \in App,
         i \in reqs[a], i \in reqs[b]
  PROVE  a = b
  BY Zenon DEF RegistriesAgree

LEMMA StartPreserves ==
  ASSUME IInv, NEW A \in SUBSET App, StartAccounting(A),
         UNCHANGED <<clock, requestId, keyInfo, callback, watchdog>>,
         \A i \in Ids : TakenFor(i) => TakenFor(i)'
  PROVE  AccountTypes' /\ Inv'
<1> DEFINE R == RequestsOf(A)
<1>0. /\ clock \in Nat \ {0}
      /\ pkg \in [App -> Package]
      /\ reqs \in [App -> SUBSET Ids]
      /\ info \in [Ids -> Request]
      /\ timer \in [Ids -> SUBSET Nat]
      /\ reqs' = reqs /\ clock' = clock /\ requestId' = requestId
      /\ keyInfo' = keyInfo /\ callback' = callback /\ watchdog' = watchdog
      /\ Inv
  BY Zenon DEF IInv, TypeOK, StartAccounting
<1>1. \A i \in Ids : i \in R <=> \E a \in A : i \in reqs[a]
  BY Zenon DEF RequestsOf
<1>2. \A a \in App : pkg'[a] = IF a \in A
                               THEN StartPackage(pkg[a], reqs[a], Exempted(a), clock)
                               ELSE pkg[a]
  BY Zenon DEF StartAccounting
<1>3. \A i \in Ids : info'[i] = IF i \in R THEN StartRequest(info[i], clock) ELSE info[i]
  BY Zenon DEF StartAccounting, StartInfo
<1>4. \A i \in Ids : timer'[i] = IF i \in R /\ ~Counted(info[i])
                                 THEN {clock + GetAdvanceCallbackTime(info[i], clock)}
                                 ELSE timer[i]
  BY Zenon DEF StartAccounting, StartTimer
<1>5. \A i \in Ids : /\ StartRequest(info[i], clock) \in Request
                     /\ StartRequest(info[i], clock).base <= clock
                     /\ Counted(StartRequest(info[i], clock))
                     /\ GetAdvanceCallbackTime(info[i], clock) \in Nat
  BY <1>0, RequestFacts, Zenon DEF Inv, BaseInPast
<1>6. \A a \in App : /\ pkg'[a] \in Package
                     /\ pkg'[a].present = pkg[a].present
                     /\ pkg[a].counting => pkg'[a].counting
                     /\ a \in A /\ reqs[a] # {} => pkg'[a].counting
  <2> SUFFICES ASSUME NEW a \in App
               PROVE  /\ pkg'[a] \in Package
                      /\ pkg'[a].present = pkg[a].present
                      /\ pkg[a].counting => pkg'[a].counting
                      /\ a \in A /\ reqs[a] # {} => pkg'[a].counting
    BY Zenon
  <2> DEFINE q == StartPackage(pkg[a], reqs[a], Exempted(a), clock)
  <2>1. pkg[a] \in Package /\ Exempted(a) \in Nat /\ clock \in Nat
    BY <1>0, ExemptedType, Zenon
  <2>2. /\ q \in Package
        /\ q.present = pkg[a].present
        /\ pkg[a].counting => q.counting
        /\ reqs[a] # {} => q.counting
    BY <2>1, PackageFacts, Zenon
  <2>3. pkg'[a] = IF a \in A THEN q ELSE pkg[a]
    BY <1>2, Zenon
  <2> HIDE DEF q
  <2> QED
    BY <2>1, <2>2, <2>3, SMTT(30)
<1> HIDE DEF R
<1>7. AccountTypes'
  <2>1. pkg' \in [App -> Package]
    BY <1>6, Zenon DEF StartAccounting
  <2>2. info' \in [Ids -> Request]
    BY <1>0, <1>3, <1>5, Zenon DEF StartAccounting, StartInfo
  <2>3. timer' \in [Ids -> SUBSET Nat]
    BY <1>0, <1>4, <1>5 DEF StartAccounting, StartTimer
  <2> QED
    BY <1>0, <2>1, <2>2, <2>3, Zenon DEF AccountTypes
<1>8. RegistriesAgree'
  BY <1>0, Zenon DEF Inv, RegistriesAgree
<1>9. CountedIsWatched'
  <2> SUFFICES ASSUME NEW i \in Ids, Counted(info'[i])
               PROVE  timer'[i] # {} \/ watchdog'[i] # {} \/ TakenFor(i)'
    BY Zenon DEF CountedIsWatched, TakenFor
  <2>1. CASE i \in R /\ ~Counted(info[i])
    BY <2>1, <1>4, Zenon
  <2>2. CASE ~(i \in R /\ ~Counted(info[i]))
    <3>1. Counted(info[i])
      BY <2>2, <1>3, Zenon
    <3>2. timer[i] # {} \/ watchdog[i] # {} \/ TakenFor(i)
      BY <3>1, <1>0, Zenon DEF Inv, CountedIsWatched, TakenFor
    <3> QED
      BY <3>2, <2>2, <1>0, <1>4, Zenon
  <2> QED
    BY <2>1, <2>2, Zenon
<1>10. NoStrayEvents'
  BY <1>0, <1>3, <1>4, <1>5, Zenon DEF Inv, NoStrayEvents
<1>11. CountedIsCharged'
  <2> SUFFICES ASSUME NEW a \in App, NEW i \in reqs[a], Counted(info'[i])
               PROVE  pkg'[a].counting
    BY <1>0, Zenon DEF CountedIsCharged, AnyCounted
  <2>0. i \in Ids
    BY <1>0, Zenon
  <2>1. CASE a \in A
    BY <2>1, <1>6, Zenon
  <2>2. CASE a \notin A
    <3>1. i \notin R
      BY <2>0, <2>2, <1>0, <1>1, ListsDisjoint, Zenon DEF Inv
    <3>2. Counted(info[i])
      BY <2>0, <3>1, <1>3, Zenon
    <3> QED
      BY <3>2, <1>0, <1>6, Zenon DEF Inv, CountedIsCharged, AnyCounted
  <2> QED
    BY <2>1, <2>2, Zenon
<1>12. FreshIds'
  <2> SUFFICES ASSUME NEW i \in Ids, i >= requestId
               PROVE  keyInfo[i] = NoApp /\ info'[i] = NoRequest /\ timer'[i] = {}
                      /\ watchdog[i] = {}
    BY <1>0, Zenon DEF FreshIds
  <2>1. keyInfo[i] = NoApp /\ info[i] = NoRequest /\ timer[i] = {} /\ watchdog[i] = {}
    BY <1>0, Zenon DEF Inv, FreshIds
  <2>2. i \notin R
    BY <2>1, <1>0, <1>1, TransientAssumption, SMTT(30) DEF Inv, RegistriesAgree
  <2> QED
    BY <2>1, <2>2, <1>3, <1>4, Zenon
<1>13. CountedIsListed'
  BY <1>0, <1>1, <1>3, Zenon DEF Inv, CountedIsListed
<1>14. ListedIsPresent'
  BY <1>0, <1>6, Zenon DEF Inv, ListedIsPresent
<1>15. BaseInPast'
  BY <1>0, <1>3, <1>5, Zenon DEF Inv, BaseInPast
<1> QED
  BY <1>7, <1>8, <1>9, <1>10, <1>11, <1>12, <1>13, <1>14, <1>15, Zenon DEF Inv

LEMMA StopPreserves ==
  ASSUME IInv, NEW A \in SUBSET App, StopAccountingAll(A),
         UNCHANGED <<clock, requestId, keyInfo, callback, watchdog>>,
         \A i \in Ids : TakenFor(i) => TakenFor(i)'
  PROVE  AccountTypes' /\ Inv'
<1> DEFINE R == RequestsOf(A)
<1>0. /\ clock \in Nat \ {0}
      /\ pkg \in [App -> Package]
      /\ reqs \in [App -> SUBSET Ids]
      /\ info \in [Ids -> Request]
      /\ timer \in [Ids -> SUBSET Nat]
      /\ reqs' = reqs /\ clock' = clock /\ requestId' = requestId
      /\ keyInfo' = keyInfo /\ callback' = callback /\ watchdog' = watchdog
      /\ Inv
  BY Zenon DEF IInv, TypeOK, StopAccountingAll
<1>1. \A i \in Ids : i \in R <=> \E a \in A : i \in reqs[a]
  BY Zenon DEF RequestsOf
<1>2. \A a \in App : pkg'[a] = IF a \in A THEN StopPackage(pkg[a], Exempted(a), clock)
                               ELSE pkg[a]
  BY Zenon DEF StopAccountingAll
<1>3. \A i \in Ids : info'[i] = IF i \in R THEN StopRequest(info[i], clock) ELSE info[i]
  BY Zenon DEF StopAccountingAll, StopInfo
<1>4. \A i \in Ids : timer'[i] = IF i \in R /\ Counted(info[i]) THEN {} ELSE timer[i]
  BY Zenon DEF StopAccountingAll, StopTimer
<1>5. \A i \in Ids : /\ StopRequest(info[i], clock) \in Request
                     /\ StopRequest(info[i], clock).base = 0
  BY <1>0, RequestFacts, Zenon DEF Inv, BaseInPast
<1>6. \A a \in App : /\ pkg'[a] \in Package
                     /\ pkg'[a].present = pkg[a].present
  <2> SUFFICES ASSUME NEW a \in App
               PROVE  pkg'[a] \in Package /\ pkg'[a].present = pkg[a].present
    BY Zenon
  <2> DEFINE q == StopPackage(pkg[a], Exempted(a), clock)
  <2>1. pkg[a] \in Package /\ Exempted(a) \in Nat /\ clock \in Nat
    BY <1>0, ExemptedType, Zenon
  <2>2. q \in Package /\ q.present = pkg[a].present
    BY <2>1, ResetAndStopFacts, Zenon
  <2>3. pkg'[a] = IF a \in A THEN q ELSE pkg[a]
    BY <1>2, Zenon
  <2> HIDE DEF q
  <2> QED
    BY <2>1, <2>2, <2>3, Zenon
<1> HIDE DEF R
<1>7. \A i \in Ids : Counted(info'[i]) => i \notin R /\ Counted(info[i])
  BY <1>3, <1>5, Zenon DEF Counted
<1>8. AccountTypes'
  <2>1. pkg' \in [App -> Package]
    BY <1>6, Zenon DEF StopAccountingAll
  <2>2. info' \in [Ids -> Request]
    BY <1>0, <1>3, <1>5, Zenon DEF StopAccountingAll, StopInfo
  <2>3. timer' \in [Ids -> SUBSET Nat]
    BY <1>0, <1>4, Zenon DEF StopAccountingAll, StopTimer
  <2> QED
    BY <1>0, <2>1, <2>2, <2>3, Zenon DEF AccountTypes
<1>9. RegistriesAgree'
  BY <1>0, Zenon DEF Inv, RegistriesAgree
<1>10. CountedIsWatched'
  <2> SUFFICES ASSUME NEW i \in Ids, Counted(info'[i])
               PROVE  timer'[i] # {} \/ watchdog'[i] # {} \/ TakenFor(i)'
    BY Zenon DEF CountedIsWatched, TakenFor
  <2>1. timer[i] # {} \/ watchdog[i] # {} \/ TakenFor(i)
    BY <1>0, <1>7, Zenon DEF Inv, CountedIsWatched, TakenFor
  <2> QED
    BY <2>1, <1>0, <1>4, <1>7, Zenon
<1>11. NoStrayEvents'
  BY <1>0, <1>3, <1>4, Zenon DEF Inv, NoStrayEvents
<1>12. CountedIsCharged'
  <2> SUFFICES ASSUME NEW a \in App, NEW i \in reqs[a], Counted(info'[i])
               PROVE  pkg'[a].counting
    BY <1>0, Zenon DEF CountedIsCharged, AnyCounted
  <2>1. i \in Ids
    BY <1>0, Zenon
  <2>2. i \notin R /\ Counted(info[i])
    BY <2>1, <1>7, Zenon
  <2>3. a \notin A
    BY <2>1, <2>2, <1>1, Zenon
  <2> QED
    BY <2>2, <2>3, <1>0, <1>2, Zenon DEF Inv, CountedIsCharged, AnyCounted
<1>13. FreshIds'
  <2> SUFFICES ASSUME NEW i \in Ids, i >= requestId
               PROVE  keyInfo[i] = NoApp /\ info'[i] = NoRequest /\ timer'[i] = {}
                      /\ watchdog[i] = {}
    BY <1>0, Zenon DEF FreshIds
  <2>1. keyInfo[i] = NoApp /\ info[i] = NoRequest /\ timer[i] = {} /\ watchdog[i] = {}
    BY <1>0, Zenon DEF Inv, FreshIds
  <2>2. i \notin R
    BY <2>1, <1>0, <1>1, TransientAssumption DEF Inv, RegistriesAgree
  <2> QED
    BY <2>1, <2>2, <1>3, <1>4, Zenon
<1>14. CountedIsListed'
  BY <1>0, <1>7, Zenon DEF Inv, CountedIsListed
<1>15. ListedIsPresent'
  BY <1>0, <1>6, Zenon DEF Inv, ListedIsPresent
<1>16. BaseInPast'
  BY <1>0, <1>3, <1>5 DEF Inv, BaseInPast
<1> QED
  BY <1>8, <1>9, <1>10, <1>11, <1>12, <1>13, <1>14, <1>15, <1>16, Zenon DEF Inv

\* The requests of S leave every registry at once.
LEMMA CancelPreserves ==
  ASSUME IInv, NEW S \in SUBSET Ids, CancelLocked(S),
         UNCHANGED <<clock, requestId>>,
         \A i \in Ids \ S : TakenFor(i) => TakenFor(i)'
  PROVE  /\ AccountTypes'
         /\ keyInfo' \in [Ids -> App \cup {NoApp}]
         /\ callback' \in [Ids -> Callback \cup {NoCallback}]
         /\ watchdog' \in [Ids -> SUBSET Nat]
         /\ started' \in [App -> Int]
         /\ appStarted' \in SUBSET App
         /\ Inv'
<1> DEFINE gone == {i \in S : \E a \in App : keyInfo[i] = a /\ i \in reqs[a]}
<1>0. /\ clock \in Nat \ {0}
      /\ pkg \in [App -> Package]
      /\ reqs \in [App -> SUBSET Ids]
      /\ info \in [Ids -> Request]
      /\ timer \in [Ids -> SUBSET Nat]
      /\ keyInfo \in [Ids -> App \cup {NoApp}]
      /\ callback \in [Ids -> Callback \cup {NoCallback}]
      /\ watchdog \in [Ids -> SUBSET Nat]
      /\ started \in [App -> Int]
      /\ appStarted \in SUBSET App
      /\ clock' = clock /\ requestId' = requestId
      /\ Inv
  BY Zenon DEF IInv, TypeOK
<1>1. /\ keyInfo' = [i \in Ids |-> IF i \in S THEN NoApp ELSE keyInfo[i]]
      /\ callback' = [i \in Ids |-> IF i \in S THEN NoCallback ELSE callback[i]]
      /\ watchdog' = [i \in Ids |-> IF i \in S THEN {} ELSE watchdog[i]]
      /\ reqs' = [a \in App |-> reqs[a] \ RemoveOf(a, S)]
      /\ pkg' = [a \in App |-> RemovePackage(pkg[a], reqs[a], RemoveOf(a, S),
                                             Exempted(a), clock)]
      /\ timer' = StopTimer(timer, info, gone)
      /\ info' = ForgetInfo(info, gone)
  BY Zenon DEF CancelLocked
<1>2. \A i \in Ids : i \in gone <=> i \in S /\ keyInfo[i] # NoApp
  BY <1>0, TransientAssumption DEF Inv, RegistriesAgree
<1>3. \A a \in App, i \in Ids : i \in reqs'[a] <=> i \in reqs[a] /\ i \notin S
  BY <1>0, <1>1, Zenon DEF RemoveOf, Inv, RegistriesAgree
<1>4. \A i \in Ids : info'[i] = IF i \in gone THEN NoRequest ELSE info[i]
  BY <1>1, ZenonT(30) DEF ForgetInfo
<1>5. \A i \in Ids : timer'[i] = IF i \in gone /\ Counted(info[i]) THEN {} ELSE timer[i]
  BY <1>1, Zenon DEF StopTimer
<1>6. NoRequest \in Request /\ ~Counted(NoRequest) /\ NoRequest.base = 0
  BY Zenon DEF NoRequest, Request, Counted
<1> HIDE DEF gone
<1>7. \A i \in Ids : Counted(info'[i]) => i \notin S /\ Counted(info[i])
  <2> SUFFICES ASSUME NEW i \in Ids, Counted(info'[i])
               PROVE  i \notin S /\ Counted(info[i])
    BY Zenon
  <2>1. i \notin gone /\ Counted(info[i])
    BY <1>4, <1>6, Zenon
  <2>2. PICK a \in App : i \in reqs[a]
    BY <2>1, <1>0, Zenon DEF Inv, CountedIsListed
  <2>3. keyInfo[i] # NoApp
    BY <2>2, <1>0, TransientAssumption, SMTT(30) DEF Inv, RegistriesAgree
  <2> QED
    BY <2>1, <2>3, <1>2, Zenon
<1>8. \A a \in App : /\ pkg'[a] \in Package
                     /\ pkg'[a].present = pkg[a].present
                     /\ pkg[a].counting /\ ~(reqs[a] \subseteq S) => pkg'[a].counting
  <2> SUFFICES ASSUME NEW a \in App
               PROVE  /\ pkg'[a] \in Package
                      /\ pkg'[a].present = pkg[a].present
                      /\ pkg[a].counting /\ ~(reqs[a] \subseteq S) => pkg'[a].counting
    BY Zenon
  <2> DEFINE D == RemoveOf(a, S)
             q == RemovePackage(pkg[a], reqs[a], D, Exempted(a), clock)
  <2>1. pkg[a] \in Package /\ Exempted(a) \in Nat /\ clock \in Nat
    BY <1>0, ExemptedType, Zenon
  <2>2. D \subseteq S
    BY Zenon DEF RemoveOf
  <2>3. /\ q \in Package
        /\ q.present = pkg[a].present
        /\ pkg[a].counting /\ ~(reqs[a] \subseteq D) => q.counting
    BY <2>1, PackageFacts, Zenon
  <2>4. pkg'[a] = q
    BY <1>1, Zenon
  <2> HIDE DEF q, D
  <2> QED
    BY <2>2, <2>3, <2>4, Zenon
<1>9. AccountTypes'
  <2>1. pkg' \in [App -> Package]
    BY <1>1, <1>8, Zenon
  <2>2. info' \in [Ids -> Request]
    BY <1>0, <1>1, <1>4, <1>6, Zenon DEF ForgetInfo
  <2>3. timer' \in [Ids -> SUBSET Nat]
    BY <1>0, <1>1, <1>5, Zenon DEF StopTimer
  <2>4. reqs' \in [App -> SUBSET Ids]
    BY <1>0, <1>1, Zenon
  <2> QED
    BY <2>1, <2>2, <2>3, <2>4, Zenon DEF AccountTypes
<1>10. /\ keyInfo' \in [Ids -> App \cup {NoApp}]
       /\ callback' \in [Ids -> Callback \cup {NoCallback}]
       /\ watchdog' \in [Ids -> SUBSET Nat]
       /\ appStarted' \in SUBSET App
  BY <1>0, <1>1, SMTT(30) DEF CancelLocked
<1>11. started' \in [App -> Int]
  <2>2. \A a \in App : Cardinality(RemoveOf(a, S)) \in Nat
    BY CardinalityOfIds, Zenon DEF RemoveOf
  <2> QED
    BY <1>0, <2>2 DEF CancelLocked
<1>12. RegistriesAgree'
  BY <1>0, <1>1, <1>3, TransientAssumption DEF Inv, RegistriesAgree
<1>13. CountedIsWatched'
  <2> SUFFICES ASSUME NEW i \in Ids, Counted(info'[i])
               PROVE  timer'[i] # {} \/ watchdog'[i] # {} \/ TakenFor(i)'
    BY ZenonT(30) DEF CountedIsWatched, TakenFor
  <2>1. i \notin S /\ Counted(info[i])
    BY <1>7, ZenonT(30)
  <2>2. timer[i] # {} \/ watchdog[i] # {} \/ TakenFor(i)
    BY <2>1, <1>0, Zenon DEF Inv, CountedIsWatched, TakenFor
  <2> QED
    BY <2>1, <2>2, <1>1, <1>2, <1>5, Zenon
<1>14. NoStrayEvents'
  BY <1>0, <1>1, <1>2, <1>4, <1>5, Zenon DEF Inv, NoStrayEvents
<1>15. CountedIsCharged'
  <2> SUFFICES ASSUME NEW a \in App, NEW i \in reqs'[a], Counted(info'[i])
               PROVE  pkg'[a].counting
    BY Zenon DEF CountedIsCharged, AnyCounted
  <2>1. i \in Ids
    BY <1>9, Zenon DEF AccountTypes
  <2>2. i \notin S /\ Counted(info[i]) /\ i \in reqs[a]
    BY <2>1, <1>3, <1>7, Zenon
  <2>3. pkg[a].counting
    BY <2>2, <1>0, Zenon DEF Inv, CountedIsCharged, AnyCounted
  <2> QED
    BY <2>2, <2>3, <1>8, Zenon
<1>16. FreshIds'
  BY <1>0, <1>1, <1>2, <1>4, <1>5, ZenonT(30) DEF Inv, FreshIds
<1>17. CountedIsListed'
  BY <1>0, <1>3, <1>7, ZenonT(30) DEF Inv, CountedIsListed
<1>18. ListedIsPresent'
  <2> SUFFICES ASSUME NEW a \in App, NEW i \in reqs'[a]
               PROVE  pkg'[a].present
    BY Zenon DEF ListedIsPresent
  <2>1. i \in reqs[a]
    BY <1>1, ZenonT(30)
  <2> QED
    BY <2>1, <1>0, <1>8, Zenon DEF Inv, ListedIsPresent
<1>19. BaseInPast'
  <2> SUFFICES ASSUME NEW i \in Ids PROVE info'[i].base <= clock
    BY <1>0, Zenon DEF BaseInPast
  <2>1. info[i].base <= clock
    BY <1>0, Zenon DEF Inv, BaseInPast
  <2>2. CASE i \in gone
    BY <2>2, <1>0, <1>4, <1>6
  <2>3. CASE i \notin gone
    BY <2>1, <2>3, <1>4, Zenon
  <2> QED
    BY <2>2, <2>3, Zenon
<1> QED
  BY <1>9, <1>10, <1>11, <1>12, <1>13, <1>14, <1>15, <1>16, <1>17, <1>18, <1>19, Zenon DEF Inv

\* Steps that leave the accounts and the registries alone; time may pass.
LEMMA FramePreserves ==
  ASSUME IInv,
         UNCHANGED <<pkg, reqs, info, timer, requestId, keyInfo, callback, watchdog>>,
         clock' \in Nat, clock' >= clock,
         \A i \in Ids : TakenFor(i) /\ Counted(info[i]) => TakenFor(i)'
  PROVE  AccountTypes' /\ Inv'
<1>1. AccountTypes'
  BY Zenon DEF IInv, TypeOK, AccountTypes
<1>2. RegistriesAgree' /\ NoStrayEvents' /\ FreshIds' /\ CountedIsListed' /\ ListedIsPresent'
  BY DEF IInv, Inv, RegistriesAgree, NoStrayEvents, FreshIds, CountedIsListed,
         ListedIsPresent
<1>3. CountedIsWatched'
  BY Zenon DEF IInv, Inv, CountedIsWatched, TakenFor
<1>4. CountedIsCharged'
  BY Zenon DEF IInv, Inv, CountedIsCharged, AnyCounted
<1>5. BaseInPast'
  <2>1. \A i \in Ids : info[i].base \in Nat
    BY Zenon DEF IInv, TypeOK, Request
  <2> QED
    BY <2>1, SMTT(30) DEF IInv, TypeOK, Inv, BaseInPast
<1> QED
  BY <1>1, <1>2, <1>3, <1>4, <1>5, Zenon DEF Inv

-----------------------------------------------------------------------------
(* The calls of applications: a refusal brings packages up to date, a      *)
(* grant takes a fresh request id, a cancellation and the death of a       *)
(* callback remove requests.                                               *)

\* Steps that only bring packages up to date.
LEMMA PackagesPreserve ==
  ASSUME IInv,
         UNCHANGED <<clock, reqs, info, timer, requestId, keyInfo, callback, watchdog,
                     runner>>,
         pkg' \in [App -> Package],
         \A a \in App : reqs[a] # {} =>
           pkg'[a].present /\ (pkg[a].counting => pkg'[a].counting)
  PROVE  AccountTypes' /\ Inv'
<1>1. AccountTypes'
  BY Zenon DEF IInv, TypeOK, AccountTypes
<1>2. RegistriesAgree' /\ NoStrayEvents' /\ FreshIds' /\ CountedIsListed' /\ BaseInPast'
  BY DEF IInv, Inv, RegistriesAgree, NoStrayEvents, FreshIds, CountedIsListed, BaseInPast
<1>3. CountedIsWatched'
  BY Zenon DEF IInv, Inv, CountedIsWatched
<1>4. CountedIsCharged' /\ ListedIsPresent'
  BY Zenon DEF IInv, Inv, CountedIsCharged, AnyCounted, ListedIsPresent
<1> QED
  BY <1>1, <1>2, <1>3, <1>4, Zenon DEF Inv

\* What the daily reset and IsAllowRequest do to a package.
LEMMA DayFacts ==
  ASSUME IInv, NEW a \in App
  PROVE  /\ DayPackage(a) \in Package
         /\ OpenPackage(a) \in Package
         /\ CurrentPackage(a) \in Package
         /\ OpenPackage(a).present /\ CurrentPackage(a).present
         /\ reqs[a] # {} =>
              /\ DayPackage(a).present
              /\ pkg[a].counting => /\ DayPackage(a).counting
                                    /\ OpenPackage(a).counting
                                    /\ CurrentPackage(a).counting
<1>1. pkg[a] \in Package /\ Exempted(a) \in Nat /\ clock \in Nat
  BY ExemptedType, Zenon DEF IInv, TypeOK
<1>2. reqs[a] # {} => pkg[a].present
  BY Zenon DEF IInv, Inv, ListedIsPresent
<1> DEFINE r == ResetQuota(pkg[a], Exempted(a), clock)
<1>3. r \in Package /\ r.present = pkg[a].present /\ r.counting = pkg[a].counting
  BY <1>1, ResetAndStopFacts, Zenon
<1>4. DayPackage(a) = IF ~IsAfterOneDay \/ ~pkg[a].present THEN pkg[a]
                      ELSE IF reqs[a] = {} THEN NoPackage ELSE r
  BY Zenon DEF DayPackage
<1> HIDE DEF r
<1>5. /\ DayPackage(a) \in Package
      /\ reqs[a] # {} => /\ DayPackage(a).present
                         /\ pkg[a].counting => DayPackage(a).counting
  BY <1>1, <1>2, <1>3, <1>4, NoPackageType, Zenon
<1>6. /\ OpenPackage(a) \in Package
      /\ OpenPackage(a).present
      /\ reqs[a] # {} /\ pkg[a].counting => OpenPackage(a).counting
  BY <1>5, NoPackageType, Zenon DEF OpenPackage
<1>7. /\ CurrentPackage(a) \in Package
      /\ CurrentPackage(a).present
      /\ CurrentPackage(a).counting = OpenPackage(a).counting
  BY <1>1, <1>6, UpdateQuotaFacts, Zenon DEF CurrentPackage
<1> QED
  BY <1>5, <1>6, <1>7, Zenon

\* A granted request takes an id that no registry holds.
LEMMA GrantPreserves ==
  ASSUME IInv, MaxRequests + 1 < IntMax, NEW a \in App, NEW cb \in Callback, Grant(a, cb),
         UNCHANGED <<clock, runner>>
  PROVE  /\ AccountTypes'
         /\ requestId' \in 1 .. (MaxRequests + 1)
         /\ keyInfo' \in [Ids -> App \cup {NoApp}]
         /\ callback' \in [Ids -> Callback \cup {NoCallback}]
         /\ watchdog' \in [Ids -> SUBSET Nat]
         /\ started' \in [App -> Int]
         /\ appStarted' \in SUBSET App
         /\ expiredAt' \in [Ids -> Nat]
         /\ Inv'
<1> DEFINE p == CurrentPackage(a)
           low == p.quota < MIN_ALLOW_QUOTA_TIME
           id == requestId
           g == GrantedTime(p, GetDelayTime, low, ExemptedQuota)
           r == [NoRequest EXCEPT !.actual = g]
           new == [info EXCEPT ![id] = r]
           S == IF CanStartAccounting(a) THEN {id} ELSE {}
           q == StartPackage(p, S, Exempted(a), clock)
<1>0. /\ clock \in Nat \ {0}
      /\ requestId \in 1 .. (MaxRequests + 1)
      /\ pkg \in [App -> Package]
      /\ reqs \in [App -> SUBSET Ids]
      /\ info \in [Ids -> Request]
      /\ timer \in [Ids -> SUBSET Nat]
      /\ keyInfo \in [Ids -> App \cup {NoApp}]
      /\ callback \in [Ids -> Callback \cup {NoCallback}]
      /\ watchdog \in [Ids -> SUBSET Nat]
      /\ started \in [App -> Int]
      /\ appStarted \in SUBSET App
      /\ expiredAt \in [Ids -> Nat]
      /\ clock' = clock /\ runner' = runner
      /\ Inv
  BY Zenon DEF IInv, TypeOK
<1>1. NewDelaySuspendRequestId = id
  BY <1>0, AccountingAssumption, TransientAssumption DEF NewDelaySuspendRequestId
<1>2. /\ id \in Ids
      /\ requestId' = id + 1
      /\ pkg' = [b \in App |-> IF b = a THEN q ELSE DayPackage(b)]
      /\ reqs' = [reqs EXCEPT ![a] = @ \cup {id}]
      /\ info' = StartInfo(new, S, clock)
      /\ timer' = StartTimer(timer, new, S, clock)
      /\ keyInfo' = [keyInfo EXCEPT ![id] = a]
      /\ callback' = [callback EXCEPT ![id] = cb]
      /\ started' = [started EXCEPT ![a] = @ + 1]
      /\ appStarted' = IF FirstRequest(a) THEN appStarted \cup {a} ELSE appStarted
      /\ expiredAt' = [expiredAt EXCEPT ![id] = 0]
      /\ watchdog' = watchdog
  BY <1>1, Zenon DEF Grant
<1>3. /\ keyInfo[id] = NoApp /\ info[id] = NoRequest /\ timer[id] = {} /\ watchdog[id] = {}
      /\ \A b \in App : id \notin reqs[b]
  <2>1. keyInfo[id] = NoApp /\ info[id] = NoRequest /\ timer[id] = {} /\ watchdog[id] = {}
    BY <1>0, <1>2 DEF Inv, FreshIds
  <2> QED
    BY <2>1, <1>0, <1>2, TransientAssumption DEF Inv, RegistriesAgree
<1>4. p \in Package /\ p.present
  BY DayFacts, Zenon
<1>5. r \in Request /\ r.base = 0
  <2>1. GetDelayTime \in Nat
    BY TransientAssumption, Zenon DEF GetDelayTime
  <2>2. p.quota \in Nat
    BY <1>4, AccountingAssumption DEF Package
  <2>3. g \in Nat
    BY <2>1, <2>2, AccountingAssumption, TransientAssumption DEF GrantedTime
  <2> HIDE DEF g
  <2> QED
    BY <2>3, Zenon DEF NoRequest, Request
<1>6. \A i \in Ids : /\ new[i] = IF i = id THEN r ELSE info[i]
                     /\ new[i] \in Request
                     /\ new[i].base <= clock
  <2> HIDE DEF r
  <2>1. \A i \in Ids : new[i] = IF i = id THEN r ELSE info[i]
    BY <1>0, Zenon
  <2> QED
    BY <2>1, <1>0, <1>5 DEF Inv, BaseInPast
<1> HIDE DEF r
<1>7. \A i \in Ids : /\ StartRequest(new[i], clock) \in Request
                     /\ StartRequest(new[i], clock).base <= clock
                     /\ Counted(StartRequest(new[i], clock))
                     /\ GetAdvanceCallbackTime(new[i], clock) \in Nat
  BY <1>0, <1>6, RequestFacts, Zenon
<1>8. \A i \in Ids : i # id => info'[i] = info[i] /\ timer'[i] = timer[i]
  BY <1>2, <1>6, Zenon DEF StartInfo, StartTimer
<1>9. /\ info'[id] = IF CanStartAccounting(a) THEN StartRequest(new[id], clock) ELSE r
      /\ timer'[id] = IF CanStartAccounting(a)
                      THEN {clock + GetAdvanceCallbackTime(new[id], clock)} ELSE {}
  <2>1. new[id] = r
    BY <1>2, <1>6, Zenon
  <2>2. ~Counted(new[id])
    BY <2>1, <1>5, Zenon DEF Counted
  <2>3. id \in S <=> CanStartAccounting(a)
    BY Zenon
  <2> HIDE DEF S, new
  <2>4. info'[id] = IF id \in S THEN StartRequest(new[id], clock) ELSE new[id]
    BY <1>2, Zenon DEF StartInfo
  <2>5. timer'[id] = IF id \in S THEN {clock + GetAdvanceCallbackTime(new[id], clock)}
                     ELSE timer[id]
    BY <1>2, <2>2, Zenon DEF StartTimer
  <2> QED
    BY <2>1, <2>3, <2>4, <2>5, <1>3, Zenon
<1>10. ~Counted(r)
  BY <1>5, Zenon DEF Counted
<1>11. Counted(info'[id]) <=> CanStartAccounting(a)
  BY <1>2, <1>7, <1>9, <1>10, Zenon
<1>12. /\ q \in Package
       /\ q.present
       /\ p.counting \/ CanStartAccounting(a) => q.counting
  BY <1>0, <1>4, ExemptedType, PackageFacts, Zenon
<1> HIDE DEF p, q, S, new, low, g
<1>13. \A b \in App : /\ pkg'[b] \in Package
                      /\ b = a => pkg'[b] = q
                      /\ b # a => pkg'[b] = DayPackage(b)
  BY <1>2, <1>12, DayFacts, Zenon
<1>14. AccountTypes'
  <2>1. pkg' \in [App -> Package]
    BY <1>2, <1>13, Zenon
  <2>2. reqs' \in [App -> SUBSET Ids]
    BY <1>0, <1>2, Zenon
  <2>3. info' \in [Ids -> Request]
    <3>1. \A i \in Ids : info'[i] \in Request
      BY <1>0, <1>2, <1>5, <1>7, <1>8, <1>9, Zenon
    <3> QED
      BY <3>1, <1>2, Zenon DEF StartInfo
  <2>4. timer' \in [Ids -> SUBSET Nat]
    <3>1. \A i \in Ids : timer'[i] \in SUBSET Nat
      BY <1>0, <1>2, <1>7, <1>8, <1>9
    <3> QED
      BY <3>1, <1>2, Zenon DEF StartTimer
  <2> QED
    BY <2>1, <2>2, <2>3, <2>4, Zenon DEF AccountTypes
<1>15. /\ requestId' \in 1 .. (MaxRequests + 1)
       /\ keyInfo' \in [Ids -> App \cup {NoApp}]
       /\ callback' \in [Ids -> Callback \cup {NoCallback}]
       /\ watchdog' \in [Ids -> SUBSET Nat]
       /\ started' \in [App -> Int]
       /\ appStarted' \in SUBSET App
       /\ expiredAt' \in [Ids -> Nat]
  <2>1. requestId' \in 1 .. (MaxRequests + 1)
    BY <1>0, <1>2, AccountingAssumption, SMTT(30) DEF Ids
  <2> QED
    BY <2>1, <1>0, <1>2
<1>16. RegistriesAgree'
  <2>1. \A i \in Ids : i # id => keyInfo'[i] = keyInfo[i] /\ callback'[i] = callback[i]
                                 /\ \A b \in App : i \in reqs'[b] <=> i \in reqs[b]
    BY <1>0, <1>2, Zenon
  <2>2. /\ keyInfo'[id] = a /\ callback'[id] = cb
        /\ \A b \in App : id \in reqs'[b] <=> b = a
    BY <1>0, <1>2, <1>3, Zenon
  <2> QED
    BY <2>1, <2>2, <1>0, <1>2, TransientAssumption, SMTT(30) DEF Inv, RegistriesAgree
<1>17. CountedIsWatched'
  BY <1>0, <1>2, <1>8, <1>9, <1>11, Zenon DEF Inv, CountedIsWatched
<1>18. NoStrayEvents'
  BY <1>0, <1>2, <1>3, <1>8, <1>9, <1>11, Zenon DEF Inv, NoStrayEvents
<1>19. CountedIsCharged'
  <2> SUFFICES ASSUME NEW b \in App, NEW i \in reqs'[b], Counted(info'[i])
               PROVE  pkg'[b].counting
    BY Zenon DEF CountedIsCharged, AnyCounted
  <2>1. i \in Ids
    BY <1>14, Zenon DEF AccountTypes
  <2>2. CASE i = id
    <3>1. b = a
      BY <2>2, <1>0, <1>2, <1>3, Zenon
    <3> QED
      BY <2>2, <3>1, <1>11, <1>12, <1>13, Zenon
  <2>3. CASE i # id
    <3>1. i \in reqs[b] /\ Counted(info[i])
      BY <2>1, <2>3, <1>0, <1>2, <1>8, Zenon
    <3>2. pkg[b].counting /\ reqs[b] # {}
      BY <3>1, <1>0, Zenon DEF Inv, CountedIsCharged, AnyCounted
    <3>3. DayPackage(b).counting /\ (b = a => p.counting)
      BY <3>2, DayFacts, Zenon DEF p
    <3> QED
      BY <3>3, <1>12, <1>13, Zenon
  <2> QED
    BY <2>2, <2>3, Zenon
<1>20. FreshIds'
  <2> SUFFICES ASSUME NEW i \in Ids, i >= id + 1
               PROVE  keyInfo'[i] = NoApp /\ info'[i] = NoRequest /\ timer'[i] = {}
                      /\ watchdog'[i] = {}
    BY <1>2, Zenon DEF FreshIds
  <2>1. i # id /\ i >= requestId
    BY <1>0, SMTT(30) DEF Ids
  <2> QED
    BY <2>1, <1>0, <1>2, <1>8, ZenonT(30) DEF Inv, FreshIds
<1>21. CountedIsListed'
  <2> SUFFICES ASSUME NEW i \in Ids, Counted(info'[i])
               PROVE  \E b \in App : i \in reqs'[b]
    BY Zenon DEF CountedIsListed
  <2>1. CASE i = id
    BY <2>1, <1>0, <1>2, Zenon
  <2>2. CASE i # id
    <3>1. PICK b \in App : i \in reqs[b]
      BY <2>2, <1>0, <1>8, Zenon DEF Inv, CountedIsListed
    <3> QED
      BY <3>1, <1>0, <1>2, Zenon
  <2> QED
    BY <2>1, <2>2, Zenon
<1>22. ListedIsPresent'
  <2> SUFFICES ASSUME NEW b \in App, reqs'[b] # {}
               PROVE  pkg'[b].present
    BY Zenon DEF ListedIsPresent
  <2>1. b # a => reqs[b] # {}
    BY <1>0, <1>2, Zenon
  <2> QED
    BY <2>1, <1>12, <1>13, DayFacts, Zenon
<1>23. BaseInPast'
  <2>1. r.base <= clock
    BY <1>0, <1>5
  <2> QED
    BY <2>1, <1>0, <1>2, <1>7, <1>8, <1>9, Zenon DEF Inv, BaseInPast
<1> QED
  BY <1>14, <1>15, <1>16, <1>17, <1>18, <1>19, <1>20, <1>21, <1>22, <1>23, Zenon DEF Inv

-----------------------------------------------------------------------------
(* One lemma per group of actions.                                         *)

LEMMA RunnerFacts ==
  /\ Idle \in RunnerStates
  /\ Idle.op = "idle"
  /\ \A i : ~(Idle.op \in {"expired", "force"} /\ Idle.id = i)
  BY Zenon DEF Idle, RunnerStates

LEMMA AppStep ==
  ASSUME IInv, MaxRequests + 1 < IntMax, AppNext
  PROVE  IInv'
<1>1. ASSUME NEW a \in App, NEW cb \in Callback, RequestSuspendDelay(a, cb)
      PROVE  IInv'
  <2>0. UNCHANGED <<clock, bgTime, bgSince, foreground, dead, pauseUid, device, runner,
                    inner, processes>>
    BY <1>1, Zenon DEF RequestSuspendDelay
  <2>1. lastRequestTime' \in Nat /\ used' \in [App -> Nat]
    BY <1>1, Zenon DEF RequestSuspendDelay, ResetDayQuota, IInv, TypeOK
  <2>2. CASE RefuseNotInPresetTime(a)
    <3>1. \A b \in App : pkg'[b] = DayPackage(b)
      BY <2>2, Zenon DEF RefuseNotInPresetTime
    <3>2. pkg' \in [App -> Package]
      BY <2>2, DayFacts, Zenon DEF RefuseNotInPresetTime
    <3>3. AccountTypes' /\ Inv'
      BY <2>0, <2>2, <3>1, <3>2, DayFacts, PackagesPreserve, ZenonT(30) DEF RefuseNotInPresetTime
    <3> QED
      BY <2>0, <2>1, <2>2, <3>3 DEF RefuseNotInPresetTime, IInv, TypeOK, TakenIsId,
         AccountTypes, device, processes
  <2>3. CASE RefuseExceedsThreshold(a)
    <3>1. \A b \in App : pkg'[b] = IF b = a THEN OpenPackage(a) ELSE DayPackage(b)
      BY <2>3, Zenon DEF RefuseExceedsThreshold
    <3>2. pkg' \in [App -> Package]
      BY <2>3, DayFacts, ZenonT(30) DEF RefuseExceedsThreshold
    <3>3. AccountTypes' /\ Inv'
      BY <2>0, <2>3, <3>1, <3>2, DayFacts, PackagesPreserve, Zenon DEF RefuseExceedsThreshold
    <3> QED
      BY <2>0, <2>1, <2>3, <3>3 DEF RefuseExceedsThreshold, IInv, TypeOK, TakenIsId,
         AccountTypes, device, processes
  <2>4. CASE RefuseTimeInsufficient(a)
    <3>1. \A b \in App : pkg'[b] = IF b = a THEN CurrentPackage(a) ELSE DayPackage(b)
      BY <2>4, Zenon DEF RefuseTimeInsufficient
    <3>2. pkg' \in [App -> Package]
      BY <2>4, DayFacts, Zenon DEF RefuseTimeInsufficient
    <3>3. AccountTypes' /\ Inv'
      BY <2>0, <2>4, <3>1, <3>2, DayFacts, PackagesPreserve, ZenonT(30) DEF RefuseTimeInsufficient
    <3> QED
      BY <2>0, <2>1, <2>4, <3>3 DEF RefuseTimeInsufficient, IInv, TypeOK, TakenIsId,
         AccountTypes, device, processes
  <2>5. CASE Grant(a, cb)
    <3>1. /\ AccountTypes' /\ Inv'
          /\ requestId' \in 1 .. (MaxRequests + 1)
          /\ keyInfo' \in [Ids -> App \cup {NoApp}]
          /\ callback' \in [Ids -> Callback \cup {NoCallback}]
          /\ watchdog' \in [Ids -> SUBSET Nat]
          /\ started' \in [App -> Int]
          /\ appStarted' \in SUBSET App
          /\ expiredAt' \in [Ids -> Nat]
      BY <2>0, <2>5, GrantPreserves, Zenon
    <3> QED
      BY <2>0, <2>1, <3>1, SMTT(30) DEF IInv, TypeOK, TakenIsId, AccountTypes, device, processes
  <2> QED
    BY <1>1, <2>2, <2>3, <2>4, <2>5, Zenon DEF RequestSuspendDelay
<1>2. ASSUME NEW a \in App, NEW id \in Ids, CancelSuspendDelay(a, id)
      PROVE  IInv'
  <2>1. UNCHANGED <<clock, decision, dead, expiredAt, pauseUid, device, runner, inner,
                    processes, used>>
    BY <1>2, Zenon DEF CancelSuspendDelay
  <2>2. /\ AccountTypes' /\ Inv'
        /\ keyInfo' \in [Ids -> App \cup {NoApp}]
        /\ callback' \in [Ids -> Callback \cup {NoCallback}]
        /\ watchdog' \in [Ids -> SUBSET Nat]
        /\ started' \in [App -> Int]
        /\ appStarted' \in SUBSET App
    <3>1. CancelLocked({id}) /\ {id} \in SUBSET Ids
      BY <1>2, Zenon DEF CancelSuspendDelay
    <3>2. \A i \in Ids \ {id} : TakenFor(i) => TakenFor(i)'
      BY <2>1, Zenon DEF TakenFor
    <3> QED
      BY <2>1, <3>1, <3>2, CancelPreserves, Zenon DEF decision
  <2> QED
    BY <2>1, <2>2, SMTT(30) DEF IInv, TypeOK, TakenIsId, AccountTypes, decision, device, processes
<1>3. ASSUME NEW a \in App, GetQuota(a)
      PROVE  IInv'
  <2>0. UNCHANGED <<clock, reqs, info, timer, decision, registry, pauseUid, device,
                    runner, inner, processes, used>>
    BY <1>3, Zenon DEF GetQuota
  <2> DEFINE q == UpdateQuota(pkg[a], Exempted(a), clock)
  <2>1. pkg \in [App -> Package] /\ Exempted(a) \in Nat /\ clock \in Nat
    BY ExemptedType, Zenon DEF IInv, TypeOK
  <2>2. q \in Package /\ q.present = pkg[a].present /\ q.counting = pkg[a].counting
    BY <2>1, UpdateQuotaFacts, Zenon
  <2>3. pkg' = [pkg EXCEPT ![a] = q] /\ pkg[a].present
    BY <1>3, Zenon DEF GetQuota
  <2> HIDE DEF q
  <2>4. pkg' \in [App -> Package]
    BY <2>1, <2>2, <2>3, Zenon
  <2>5. \A b \in App : reqs[b] # {} =>
          pkg'[b].present /\ (pkg[b].counting => pkg'[b].counting)
    BY <2>1, <2>2, <2>3, Zenon DEF IInv, Inv, ListedIsPresent
  <2>6. AccountTypes' /\ Inv'
    BY <2>0, <2>4, <2>5, PackagesPreserve, ZenonT(30) DEF decision, registry
  <2> QED
    BY <2>0, <2>6 DEF IInv, TypeOK, TakenIsId, AccountTypes, decision, registry, device,
       processes
<1>4. ASSUME NEW cb \in Callback, HandleExpiredCallbackDeath(cb)
      PROVE  IInv'
  <2> DEFINE S == {i \in Ids : callback[i] = cb}
  <2>1. /\ UNCHANGED <<clock, decision, expiredAt, pauseUid, device, runner, inner,
                       processes, used>>
        /\ dead' = dead \cup {cb}
        /\ CancelLocked(S)
    BY <1>4, Zenon DEF HandleExpiredCallbackDeath
  <2>2. S \in SUBSET Ids
    BY Zenon
  <2> HIDE DEF S
  <2>3. /\ AccountTypes' /\ Inv'
        /\ keyInfo' \in [Ids -> App \cup {NoApp}]
        /\ callback' \in [Ids -> Callback \cup {NoCallback}]
        /\ watchdog' \in [Ids -> SUBSET Nat]
        /\ started' \in [App -> Int]
        /\ appStarted' \in SUBSET App
    <3>1. \A i \in Ids \ S : TakenFor(i) => TakenFor(i)'
      BY <2>1, Zenon DEF TakenFor
    <3> QED
      BY <2>1, <2>2, <3>1, CancelPreserves, Zenon DEF decision
  <2> QED
    BY <2>1, <2>3 DEF IInv, TypeOK, TakenIsId, AccountTypes, decision, device, processes
<1> QED
  BY <1>1, <1>2, <1>3, <1>4, Zenon DEF AppNext

-----------------------------------------------------------------------------
(* The handlers of the runner: timers, watchdogs, device events and cached *)
(* applications.                                                           *)

LEMMA TimerStep ==
  ASSUME IInv, TimerNext
  PROVE  IInv'
<1>0. /\ clock \in Nat \ {0}
      /\ timer \in [Ids -> SUBSET Nat]
      /\ watchdog \in [Ids -> SUBSET Nat]
      /\ expiredAt \in [Ids -> Nat]
      /\ runner \in RunnerStates
      /\ Inv
  BY Zenon DEF IInv, TypeOK
<1>1. ASSUME NEW i \in Ids, TakeTimer(i)
      PROVE  IInv'
  <2>0. UNCHANGED <<clock, pkg, reqs, info, decision, registry, pauseUid, device, inner,
                    processes, used>>
    BY <1>1, Zenon DEF TakeTimer
  <2>1. runner' \in RunnerStates /\ runner'.op = "expired" /\ runner'.id = i
    BY <1>1, Zenon DEF TakeTimer, Idle, RunnerStates
  <2>2. /\ timer' \in [Ids -> SUBSET Nat]
        /\ timer'[i] = {}
        /\ \A j \in Ids : j # i => timer'[j] = timer[j]
    BY <1>0, <1>1, Zenon DEF TakeTimer
  <2>3. RegistriesAgree' /\ CountedIsListed' /\ ListedIsPresent' /\ BaseInPast'
    BY <1>0, <2>0, Zenon DEF Inv, RegistriesAgree, CountedIsListed, ListedIsPresent, BaseInPast,
       registry
  <2>4. CountedIsCharged'
    BY <1>0, <2>0, Zenon DEF Inv, CountedIsCharged, AnyCounted
  <2>5. NoStrayEvents' /\ FreshIds'
    BY <1>0, <2>0, <2>2, Zenon DEF Inv, NoStrayEvents, FreshIds, registry, decision
  <2>6. CountedIsWatched'
    <3>1. runner.op = "idle"
      BY <1>1, RunnerFacts, Zenon DEF TakeTimer
    <3> QED
      BY <1>0, <2>0, <2>1, <2>2, <3>1, Zenon DEF Inv, CountedIsWatched, registry
  <2>7. Inv'
    BY <2>3, <2>4, <2>5, <2>6, Zenon DEF Inv
  <2>8. TypeOK'
    BY <2>0, <2>1, <2>2, Zenon DEF IInv, TypeOK, decision, registry, device, processes
  <2> QED
    BY <2>1, <2>7, <2>8, Zenon DEF IInv, TakenIsId
<1>2. ASSUME NEW i \in Ids, TakeWatchdog(i)
      PROVE  IInv'
  <2>0. UNCHANGED <<clock, accounts, decision, keyInfo, callback, dead, expiredAt, started,
                    appStarted, pauseUid, device, inner, processes, used>>
    BY <1>2, Zenon DEF TakeWatchdog
  <2>1. runner' \in RunnerStates /\ runner'.op = "force" /\ runner'.id = i
    BY <1>2, Zenon DEF TakeWatchdog, Idle, RunnerStates
  <2>2. /\ watchdog' \in [Ids -> SUBSET Nat]
        /\ watchdog'[i] \subseteq watchdog[i]
        /\ \A j \in Ids : j # i => watchdog'[j] = watchdog[j]
    BY <1>0, <1>2, Zenon DEF TakeWatchdog
  <2>3. RegistriesAgree' /\ CountedIsListed' /\ ListedIsPresent' /\ BaseInPast'
    BY <1>0, <2>0, Zenon DEF Inv, RegistriesAgree, CountedIsListed, ListedIsPresent, BaseInPast,
       accounts
  <2>4. CountedIsCharged'
    BY <1>0, <2>0, Zenon DEF Inv, CountedIsCharged, AnyCounted, accounts
  <2>5. NoStrayEvents' /\ FreshIds'
    BY <1>0, <2>0, <2>2, Zenon DEF Inv, NoStrayEvents, FreshIds, accounts, decision
  <2>6. CountedIsWatched'
    <3>1. runner.op = "idle"
      BY <1>2, RunnerFacts, Zenon DEF TakeWatchdog
    <3> QED
      BY <1>0, <2>0, <2>1, <2>2, <3>1, Zenon DEF Inv, CountedIsWatched, accounts
  <2>7. Inv'
    BY <2>3, <2>4, <2>5, <2>6, Zenon DEF Inv
  <2>8. TypeOK'
    BY <2>0, <2>1, <2>2, Zenon DEF IInv, TypeOK, accounts, decision, device, processes
  <2> QED
    BY <2>1, <2>7, <2>8, Zenon DEF IInv, TakenIsId
<1>3. ASSUME HandleRequestExpired
      PROVE  IInv'
  <2> DEFINE i == runner.id
  <2>0. UNCHANGED <<clock, accounts, decision, keyInfo, callback, dead, started, appStarted,
                    pauseUid, device, inner, processes, used>>
    BY <1>3, Zenon DEF HandleRequestExpired
  <2>1. i \in Ids /\ runner.op = "expired" /\ runner' = Idle
    BY <1>3, Zenon DEF HandleRequestExpired, IInv, TakenIsId
  <2>2. /\ watchdog' \in [Ids -> SUBSET Nat]
        /\ expiredAt' \in [Ids -> Nat]
        /\ \A j \in Ids : j # i => watchdog'[j] = watchdog[j]
        /\ watchdog[i] \subseteq watchdog'[i]
        /\ callback[i] # NoCallback /\ keyInfo[i] # NoApp => watchdog'[i] # {}
        /\ keyInfo[i] = NoApp => watchdog'[i] = watchdog[i]
    <3>1. WatchdogTime \in Nat
      BY <1>0, AccountingAssumption, SMTT(30) DEF WatchdogTime
    <3>2. CASE callback[i] = NoCallback
      BY <1>0, <1>3, <3>2, Zenon DEF HandleRequestExpired
    <3>3. CASE callback[i] # NoCallback
      <4>1. /\ expiredAt' = [expiredAt EXCEPT ![i] = IF @ = 0 THEN clock ELSE @]
            /\ watchdog' = IF keyInfo[i] = NoApp THEN watchdog
                           ELSE [watchdog EXCEPT ![i] = @ \cup {WatchdogTime}]
        BY <1>3, <3>3, Zenon DEF HandleRequestExpired
      <4> QED
        BY <1>0, <2>1, <3>1, <4>1, Zenon
    <3> QED
      BY <3>2, <3>3, Zenon
  <2>3. RegistriesAgree' /\ CountedIsListed' /\ ListedIsPresent' /\ BaseInPast'
    BY <1>0, <2>0, Zenon DEF Inv, RegistriesAgree, CountedIsListed, ListedIsPresent, BaseInPast,
       accounts
  <2>4. CountedIsCharged'
    BY <1>0, <2>0, Zenon DEF Inv, CountedIsCharged, AnyCounted, accounts
  <2>5. NoStrayEvents' /\ FreshIds'
    BY <1>0, <2>0, <2>1, <2>2, Zenon DEF Inv, NoStrayEvents, FreshIds, accounts, decision
  <2>6. CountedIsWatched'
    <3> SUFFICES ASSUME NEW j \in Ids, Counted(info[j])
                 PROVE  timer[j] # {} \/ watchdog'[j] # {}
      BY <2>0, Zenon DEF CountedIsWatched, accounts
    <3>1. PICK a \in App : j \in reqs[a]
      BY <1>0, Zenon DEF Inv, CountedIsListed
    <3>2. keyInfo[j] # NoApp /\ callback[j] # NoCallback
      BY <1>0, <3>1, TransientAssumption, SMTT(30) DEF Inv, RegistriesAgree
    <3>3. CASE j = i
      BY <2>2, <3>2, <3>3, Zenon
    <3>4. CASE j # i
      BY <1>0, <2>2, <3>4, Zenon DEF Inv, CountedIsWatched
    <3> QED
      BY <3>3, <3>4, Zenon
  <2>7. Inv'
    BY <2>3, <2>4, <2>5, <2>6, Zenon DEF Inv
  <2>8. TypeOK'
    BY <2>0, <2>1, <2>2, RunnerFacts, Zenon DEF IInv, TypeOK, accounts, decision, device, processes
  <2> QED
    BY <2>1, <2>7, <2>8, RunnerFacts, Zenon DEF IInv, TakenIsId
<1>4. ASSUME ForceCancelSuspendDelay
      PROVE  IInv'
  <2>0. UNCHANGED <<clock, decision, dead, expiredAt, pauseUid, device, inner, processes,
                    used>>
    BY <1>4, Zenon DEF ForceCancelSuspendDelay
  <2>1. runner.id \in Ids /\ runner.op = "force" /\ runner' = Idle
    BY <1>4, ZenonT(30) DEF ForceCancelSuspendDelay, IInv, TakenIsId
  <2>2. CASE keyInfo[runner.id] = NoApp
    <3>1. UNCHANGED <<accounts, keyInfo, callback, watchdog, started, appStarted>>
      BY <1>4, <2>2, Zenon DEF ForceCancelSuspendDelay
    <3>2. ~Counted(info[runner.id])
      <4>1. CountedIsListed /\ RegistriesAgree
        BY <1>0, Zenon DEF Inv
      <4>2. \A a \in App : runner.id \notin reqs[a]
        <5>1. NoApp \notin App
          BY TransientAssumption, Zenon
        <5>2. \A a \in App : runner.id \in reqs[a] <=> keyInfo[runner.id] = a
          BY <2>1, <4>1, Zenon DEF RegistriesAgree
        <5> QED
          BY <2>2, <5>1, <5>2, Zenon
      <4> QED
        BY <2>1, <4>1, <4>2, Zenon DEF CountedIsListed
    <3>3. \A i \in Ids : TakenFor(i) /\ Counted(info[i]) => TakenFor(i)'
      BY <3>2, Zenon DEF TakenFor
    <3>4. AccountTypes' /\ Inv'
      <4>1. UNCHANGED <<pkg, reqs, info, timer, requestId, keyInfo, callback, watchdog>>
        BY <1>0, <2>0, <3>1, <3>3, Zenon DEF accounts, decision
      <4>2. \A i \in Ids : TakenFor(i) /\ Counted(info[i]) => TakenFor(i)'
        BY <1>0, <2>0, <3>1, <3>3, Zenon
      <4>3. clock' \in Nat /\ clock' >= clock
        BY <1>0, <2>0, <3>1, <3>3, SMTT(30)
      <4> QED
        BY <4>1, <4>2, <4>3, FramePreserves, Zenon
    <3> QED
      BY <2>0, <2>1, <3>1, <3>4, RunnerFacts, Zenon DEF IInv, TypeOK, TakenIsId, AccountTypes,
         decision, device, processes
  <2>3. CASE keyInfo[runner.id] # NoApp
    <3>1. CancelLocked({runner.id}) /\ {runner.id} \in SUBSET Ids
      BY <1>4, <2>1, <2>3, ZenonT(30) DEF ForceCancelSuspendDelay
    <3>2. \A i \in Ids \ {runner.id} : TakenFor(i) => TakenFor(i)'
      BY Zenon DEF TakenFor
    <3>3. /\ AccountTypes' /\ Inv'
          /\ keyInfo' \in [Ids -> App \cup {NoApp}]
          /\ callback' \in [Ids -> Callback \cup {NoCallback}]
          /\ watchdog' \in [Ids -> SUBSET Nat]
          /\ started' \in [App -> Int]
          /\ appStarted' \in SUBSET App
      BY <2>0, <3>1, <3>2, CancelPreserves, Zenon DEF decision
    <3> QED
      BY <2>0, <2>1, <3>3, RunnerFacts, Zenon DEF IInv, TypeOK, TakenIsId, AccountTypes,
         decision, device, processes
  <2> QED
    BY <2>2, <2>3, Zenon
<1> QED
  BY <1>1, <1>2, <1>3, <1>4, Zenon DEF TimerNext

LEMMA DeviceStep ==
  ASSUME IInv, ScreenNext \/ BatteryNext
  PROVE  IInv'
<1>0. /\ clock \in Nat
      /\ runner \in RunnerStates
      /\ screenOn \in BOOLEAN /\ display \in BOOLEAN
  BY Zenon DEF IInv, TypeOK
<1>1. ASSUME ScreenEvent
      PROVE  IInv'
  <2>0. UNCHANGED <<clock, accounts, decision, registry, pauseUid, lowPower, isDump,
                    queryFailed, inner, processes, used>>
    BY <1>1, Zenon DEF ScreenEvent
  <2>1. display' \in BOOLEAN /\ screenOn' \in BOOLEAN
    BY <1>0, <1>1, Zenon DEF ScreenEvent
  <2>2. runner' \in RunnerStates /\ runner'.op \notin {"expired", "force"}
    BY <1>1, Zenon DEF ScreenEvent, Idle, RunnerStates
  <2>3. \A i \in Ids : ~TakenFor(i)
    BY <1>1, RunnerFacts, Zenon DEF ScreenEvent, TakenFor
  <2>4. AccountTypes' /\ Inv'
    <3>1. UNCHANGED <<pkg, reqs, info, timer, requestId, keyInfo, callback, watchdog>>
      BY <1>0, <2>0, <2>3, Zenon DEF accounts, decision, registry
    <3>2. \A i \in Ids : TakenFor(i) /\ Counted(info[i]) => TakenFor(i)'
      BY <1>0, <2>0, <2>3, Zenon
    <3>3. clock' \in Nat /\ clock' >= clock
      BY <1>0, <2>0, <2>3, SMTT(30)
    <3> QED
      BY <3>1, <3>2, <3>3, FramePreserves, Zenon
  <2> QED
    BY <2>0, <2>1, <2>2, <2>4, Zenon DEF IInv, TypeOK, TakenIsId, AccountTypes, decision, registry,
       processes
<1>2. ASSUME HandleScreenOn
      PROVE  IInv'
  <2>0. /\ UNCHANGED <<clock, decision, registry, pauseUid, screenOn, lowPower, isDump,
                       display, inner, processes, used>>
        /\ runner' = Idle
        /\ queryFailed' \in BOOLEAN
    BY <1>2, Zenon DEF HandleScreenOn
  <2>1. \A i \in Ids : ~TakenFor(i)
    BY <1>2, Zenon DEF HandleScreenOn, TakenFor
  <2>2. AccountTypes' /\ Inv'
    <3> DEFINE A == {a \in App : pkg[a].present /\ \E p \in procs : AppOf[p] = a}
    <3>1. A \in SUBSET App
      BY Zenon
    <3>2. StopAccountingAll(A) \/ UNCHANGED accounts
      BY <1>2, Zenon DEF HandleScreenOn
    <3> HIDE DEF A
    <3>3. CASE StopAccountingAll(A)
      BY <2>0, <2>1, <3>1, <3>3, StopPreserves, Zenon DEF decision, registry
    <3>4. CASE UNCHANGED accounts
      <4>1. UNCHANGED <<pkg, reqs, info, timer, requestId, keyInfo, callback, watchdog>>
        BY <1>0, <2>0, <2>1, <3>4, Zenon DEF accounts, decision, registry
      <4>2. \A i \in Ids : TakenFor(i) /\ Counted(info[i]) => TakenFor(i)'
        BY <1>0, <2>0, <2>1, <3>4, Zenon
      <4>3. clock' \in Nat /\ clock' >= clock
        BY <1>0, <2>0, <2>1, <3>4, SMTT(30)
      <4> QED
        BY <4>1, <4>2, <4>3, FramePreserves, Zenon
    <3> QED
      BY <3>2, <3>3, <3>4, Zenon
  <2> QED
    BY <2>0, <2>2, RunnerFacts, Zenon DEF IInv, TypeOK, TakenIsId, AccountTypes, decision, registry,
       processes
<1>3. ASSUME HandleScreenOff
      PROVE  IInv'
  <2>0. /\ UNCHANGED <<clock, decision, registry, pauseUid, device, inner, processes, used>>
        /\ runner' = Idle
    BY <1>3, Zenon DEF HandleScreenOff
  <2>1. \A i \in Ids : ~TakenFor(i)
    BY <1>3, Zenon DEF HandleScreenOff, TakenFor
  <2>2. AccountTypes' /\ Inv'
    <3> DEFINE A == {a \in App : a \notin pauseUid /\ MayTryStart(a)}
    <3>1. A \in SUBSET App
      BY Zenon
    <3>2. StartAccounting(A)
      BY <1>3, Zenon DEF HandleScreenOff
    <3> HIDE DEF A
    <3> QED
      BY <2>0, <2>1, <3>1, <3>2, StartPreserves, Zenon DEF decision, registry
  <2> QED
    BY <2>0, <2>2, RunnerFacts, Zenon DEF IInv, TypeOK, TakenIsId, AccountTypes, decision, registry,
       device, processes
<1>4. ASSUME BatteryEvent
      PROVE  IInv'
  <2>0. /\ UNCHANGED <<clock, accounts, decision, registry, pauseUid, screenOn, isDump,
                       display, queryFailed, runner, inner, processes, used>>
        /\ lowPower' \in BOOLEAN
    BY <1>4, Zenon DEF BatteryEvent
  <2>1. AccountTypes' /\ Inv'
    <3>1. UNCHANGED <<pkg, reqs, info, timer, requestId, keyInfo, callback, watchdog>>
      BY <1>0, <2>0, Zenon DEF accounts, decision, registry
    <3>2. \A i \in Ids : TakenFor(i) /\ Counted(info[i]) => TakenFor(i)'
      BY <1>0, <2>0, Zenon DEF TakenFor
    <3>3. clock' \in Nat /\ clock' >= clock
      BY <1>0, <2>0, SMTT(30)
    <3> QED
      BY <3>1, <3>2, <3>3, FramePreserves, Zenon
  <2> QED
    BY <2>0, <2>1, Zenon DEF IInv, TypeOK, TakenIsId, AccountTypes, decision, registry, processes
<1>5. ASSUME NEW value \in BOOLEAN, SetDump(value)
      PROVE  IInv'
  <2>0. /\ UNCHANGED <<clock, accounts, decision, registry, pauseUid, screenOn, lowPower,
                       display, queryFailed, runner, inner, processes, used>>
        /\ isDump' \in BOOLEAN
    BY <1>5, Zenon DEF SetDump
  <2>1. AccountTypes' /\ Inv'
    <3>1. UNCHANGED <<pkg, reqs, info, timer, requestId, keyInfo, callback, watchdog>>
      BY <1>0, <2>0, Zenon DEF accounts, decision, registry
    <3>2. \A i \in Ids : TakenFor(i) /\ Counted(info[i]) => TakenFor(i)'
      BY <1>0, <2>0, Zenon DEF TakenFor
    <3>3. clock' \in Nat /\ clock' >= clock
      BY <1>0, <2>0
    <3> QED
      BY <3>1, <3>2, <3>3, FramePreserves, Zenon
  <2> QED
    BY <2>0, <2>1, Zenon DEF IInv, TypeOK, TakenIsId, AccountTypes, decision, registry, processes
<1> QED
  BY <1>1, <1>2, <1>3, <1>4, <1>5, Zenon DEF ScreenNext, BatteryNext

LEMMA CacheStep ==
  ASSUME IInv, CacheNext
  PROVE  IInv'
<1>0. /\ clock \in Nat
      /\ runner \in RunnerStates
      /\ reqs \in [App -> SUBSET Ids]
  BY Zenon DEF IInv, TypeOK
<1>1. ASSUME NEW a \in App, OnAppCacheStateChanged(a)
      PROVE  IInv'
  <2>0. UNCHANGED <<clock, accounts, decision, registry, pauseUid, device, inner, processes,
                    used>>
    BY <1>1, Zenon DEF OnAppCacheStateChanged
  <2>1. runner' \in RunnerStates /\ runner'.op \notin {"expired", "force"}
    BY <1>0, <1>1, Zenon DEF OnAppCacheStateChanged, Idle, RunnerStates
  <2>2. \A i \in Ids : ~TakenFor(i)
    BY <1>1, RunnerFacts, Zenon DEF OnAppCacheStateChanged, TakenFor
  <2>3. AccountTypes' /\ Inv'
    <3>1. UNCHANGED <<pkg, reqs, info, timer, requestId, keyInfo, callback, watchdog>>
      BY <1>0, <2>0, <2>2, Zenon DEF accounts, decision, registry
    <3>2. \A i \in Ids : TakenFor(i) /\ Counted(info[i]) => TakenFor(i)'
      BY <1>0, <2>0, <2>2, Zenon
    <3>3. clock' \in Nat /\ clock' >= clock
      BY <1>0, <2>0, <2>2, SMTT(30)
    <3> QED
      BY <3>1, <3>2, <3>3, FramePreserves, Zenon
  <2> QED
    BY <2>0, <2>1, <2>3, Zenon
       DEF IInv, TypeOK, TakenIsId, AccountTypes, decision, registry, device,
       processes
<1>2. ASSUME NEW i \in Ids, CancelCached(i)
      PROVE  IInv'
  <2>0. /\ UNCHANGED <<clock, decision, dead, expiredAt, pauseUid, device, inner, processes,
                       used>>
        /\ runner.op \in {"cache", "caching"}
        /\ CancelLocked({i}) /\ {i} \in SUBSET Ids
    BY <1>2, Zenon DEF CancelCached
  <2>1. runner' \in RunnerStates /\ runner'.op \notin {"expired", "force"}
    BY <1>0, <1>2, RunnerFacts, Zenon DEF CancelCached, RunnerStates
  <2>2. \A j \in Ids : ~TakenFor(j)
    BY <2>0, Zenon DEF TakenFor
  <2>3. /\ AccountTypes' /\ Inv'
        /\ keyInfo' \in [Ids -> App \cup {NoApp}]
        /\ callback' \in [Ids -> Callback \cup {NoCallback}]
        /\ watchdog' \in [Ids -> SUBSET Nat]
        /\ started' \in [App -> Int]
        /\ appStarted' \in SUBSET App
    BY <2>0, <2>2, CancelPreserves, Zenon DEF decision
  <2> QED
    BY <2>0, <2>1, <2>3, Zenon
       DEF IInv, TypeOK, TakenIsId, AccountTypes, decision, device, processes
<1> QED
  BY <1>1, <1>2, Zenon DEF CacheNext

-----------------------------------------------------------------------------
(* The calls of the suspend manager, process events and time.              *)

\* Steps of the suspend manager's calls: only inner, the accounts and
\* transientPauseUid_ change.
LEMMA InnerOnly ==
  ASSUME IInv,
         UNCHANGED <<clock, decision, registry, device, runner, processes, used>>,
         inner' \in ({"pause", "paused", "start", "started"} \X App) \cup {<<>>},
         pauseUid' \in SUBSET App,
         NEW a \in App,
         StartAccounting({a}) \/ StopAccountingAll({a}) \/ UNCHANGED accounts
  PROVE  IInv'
<1>0. \A i \in Ids : TakenFor(i) => TakenFor(i)'
  BY Zenon DEF TakenFor
<1>1. AccountTypes' /\ Inv'
  <2>0. clock \in Nat /\ clock' = clock /\ {a} \in SUBSET App
    BY Zenon DEF IInv, TypeOK
  <2>1. CASE StartAccounting({a})
    BY <1>0, <2>0, <2>1, StartPreserves, Zenon DEF decision, registry
  <2>2. CASE StopAccountingAll({a})
    BY <1>0, <2>0, <2>2, StopPreserves, Zenon DEF decision, registry
  <2>3. CASE UNCHANGED accounts
    <3>1. UNCHANGED <<pkg, reqs, info, timer, requestId, keyInfo, callback, watchdog>>
      BY <1>0, <2>0, <2>3, Zenon DEF accounts, decision, registry
    <3>2. \A i \in Ids : TakenFor(i) /\ Counted(info[i]) => TakenFor(i)'
      BY <1>0, <2>0, <2>3, Zenon
    <3>3. clock' \in Nat /\ clock' >= clock
      BY <1>0, <2>0, <2>3, SMTT(30)
    <3> QED
      BY <3>1, <3>2, <3>3, FramePreserves, Zenon
  <2> QED
    BY <2>1, <2>2, <2>3, Zenon
<1> QED
  BY <1>1, Zenon DEF IInv, TypeOK, TakenIsId, AccountTypes, decision, registry, device, processes

\* Steps of HandleSuspendManagerDie: only the runner, the accounts and
\* transientPauseUid_ change.
LEMMA DieOnly ==
  ASSUME IInv,
         UNCHANGED <<clock, decision, registry, device, inner, processes, used>>,
         runner.op \in {"idle", "die"},
         runner' \in RunnerStates, runner'.op \in {"idle", "die"},
         pauseUid' \in SUBSET App,
         NEW A \in SUBSET App,
         StartAccounting(A) \/ UNCHANGED accounts
  PROVE  IInv'
<1>0. \A i \in Ids : ~TakenFor(i)
  BY Zenon DEF TakenFor
<1>1. AccountTypes' /\ Inv'
  <2>0. clock \in Nat /\ clock' = clock
    BY Zenon DEF IInv, TypeOK
  <2>1. CASE StartAccounting(A)
    BY <1>0, <2>0, <2>1, StartPreserves, Zenon DEF decision, registry
  <2>2. CASE UNCHANGED accounts
    <3>1. UNCHANGED <<pkg, reqs, info, timer, requestId, keyInfo, callback, watchdog>>
      BY <1>0, <2>0, <2>2, Zenon DEF accounts, decision, registry
    <3>2. \A i \in Ids : TakenFor(i) /\ Counted(info[i]) => TakenFor(i)'
      BY <1>0, <2>0, <2>2, Zenon
    <3>3. clock' \in Nat /\ clock' >= clock
      BY <1>0, <2>0, <2>2, SMTT(30)
    <3> QED
      BY <3>1, <3>2, <3>3, FramePreserves, Zenon
  <2> QED
    BY <2>1, <2>2, Zenon
<1> QED
  BY <1>1 DEF IInv, TypeOK, TakenIsId, AccountTypes, decision, registry, device, processes

LEMMA InnerStep ==
  ASSUME IInv, InnerNext
  PROVE  IInv'
<1>0. runner \in RunnerStates /\ pauseUid \in SUBSET App
  BY Zenon DEF IInv, TypeOK
<1>1. ASSUME NEW a \in App, PauseTransientTaskTimeForInner(a)
      PROVE  IInv'
  <2>1. inner' \in ({"pause", "paused", "start", "started"} \X App) \cup {<<>>}
    BY <1>1, Zenon DEF PauseTransientTaskTimeForInner
  <2> QED
    BY <1>0, <1>1, <2>1, InnerOnly, Zenon DEF PauseTransientTaskTimeForInner
<1>2. ASSUME NEW a \in App, PauseStop(a)
      PROVE  IInv'
  <2>1. inner' \in ({"pause", "paused", "start", "started"} \X App) \cup {<<>>}
    BY <1>2 DEF PauseStop
  <2> QED
    BY <1>0, <1>2, <2>1, InnerOnly, Zenon DEF PauseStop
<1>3. ASSUME NEW a \in App, PauseInsert(a)
      PROVE  IInv'
  <2>1. inner' \in ({"pause", "paused", "start", "started"} \X App) \cup {<<>>}
    BY <1>3, Zenon DEF PauseInsert
  <2>2. pauseUid' \in SUBSET App
    BY <1>0, <1>3, Zenon DEF PauseInsert
  <2> QED
    BY <1>3, <2>1, <2>2, InnerOnly, Zenon DEF PauseInsert
<1>4. ASSUME NEW a \in App, StartTransientTaskTimeForInner(a)
      PROVE  IInv'
  <2>1. inner' \in ({"pause", "paused", "start", "started"} \X App) \cup {<<>>}
    BY <1>4, Zenon DEF StartTransientTaskTimeForInner
  <2> QED
    BY <1>0, <1>4, <2>1, InnerOnly, Zenon DEF StartTransientTaskTimeForInner
<1>5. ASSUME NEW a \in App, StartTry(a)
      PROVE  IInv'
  <2>1. inner' \in ({"pause", "paused", "start", "started"} \X App) \cup {<<>>}
    BY <1>5, SMTT(30) DEF StartTry
  <2> QED
    BY <1>0, <1>5, <2>1, InnerOnly, Zenon DEF StartTry
<1>6. ASSUME NEW a \in App, StartErase(a)
      PROVE  IInv'
  <2>1. inner' \in ({"pause", "paused", "start", "started"} \X App) \cup {<<>>}
    BY <1>6, Zenon DEF StartErase
  <2>2. pauseUid' \in SUBSET App
    BY <1>0, <1>6, Zenon DEF StartErase
  <2> QED
    BY <1>6, <2>1, <2>2, InnerOnly, Zenon DEF StartErase
<1>7. ASSUME NEW a \in App, DieCheck(a)
      PROVE  IInv'
  <2>1. runner' \in RunnerStates /\ runner'.op = "die" /\ runner.op = "die"
    BY <1>0, <1>7 DEF DieCheck, RunnerStates
  <2> QED
    BY <1>0, <1>7, <2>1, DieOnly, Zenon DEF DieCheck
<1>8. ASSUME NEW a \in App, DieStart(a)
      PROVE  IInv'
  <2>1. runner' \in RunnerStates /\ runner'.op = "die" /\ runner.op = "die"
    BY <1>0, <1>8, Zenon DEF DieStart, RunnerStates
  <2>2. {a} \in SUBSET App
    BY Zenon
  <2> QED
    BY <1>0, <1>8, <2>1, <2>2, DieOnly, Zenon DEF DieStart
<1>9. ASSUME HandleSuspendManagerDie
      PROVE  IInv'
  <2>1. runner' \in RunnerStates /\ runner'.op = "die" /\ runner.op = "idle"
    BY <1>0, <1>9, ZenonT(30) DEF HandleSuspendManagerDie, RunnerStates, Idle
  <2> QED
    BY <1>0, <1>9, <2>1, DieOnly, Zenon DEF HandleSuspendManagerDie
<1>10. ASSUME DieEnd
       PROVE  IInv'
  <2>1. runner' \in RunnerStates /\ runner'.op = "idle" /\ runner.op = "die"
    BY <1>10, RunnerFacts, Zenon DEF DieEnd
  <2>2. pauseUid' \in SUBSET App
    BY <1>10, Zenon DEF DieEnd
  <2> QED
    BY <1>10, <2>1, <2>2, DieOnly, Zenon DEF DieEnd
<1> QED
  BY <1>1, <1>2, <1>3, <1>4, <1>5, <1>6, <1>7, <1>8, <1>9, <1>10, Zenon DEF InnerNext

LEMMA ProcessStep ==
  ASSUME IInv, ProcessNext
  PROVE  IInv'
<1> DEFINE Event == {"foreground", "background", "died"} \X Pid
<1>0. /\ clock \in Nat \ {0}
      /\ procs \in SUBSET Pid
      /\ foreground \in SUBSET Pid
      /\ events \in Seq(Event)
      /\ plugin \in Event \cup {<<>>}
      /\ bgTime \in [App -> SUBSET Int]
      /\ bgSince \in [App -> SUBSET Nat]
  BY Zenon DEF IInv, TypeOK
<1>1. ASSUME NEW p \in Pid, NEW kind \in {"foreground", "background", "died"},
             ProcessChanges(p, kind)
      PROVE  IInv'
  <2>0. UNCHANGED <<clock, accounts, decision, registry, pauseUid, device, runner, inner,
                    plugin, used>>
    BY <1>1, Zenon DEF ProcessChanges
  <2>1. procs' \in SUBSET Pid /\ events' \in Seq(Event)
    BY <1>0, <1>1 DEF ProcessChanges
  <2>2. AccountTypes' /\ Inv'
    <3>1. UNCHANGED <<pkg, reqs, info, timer, requestId, keyInfo, callback, watchdog>>
      BY <2>0, Zenon DEF accounts, decision, registry
    <3>2. \A i \in Ids : TakenFor(i) /\ Counted(info[i]) => TakenFor(i)'
      BY <2>0, Zenon DEF TakenFor
    <3>3. clock' \in Nat /\ clock' >= clock
      BY <1>0, <2>0, SMTT(30)
    <3> QED
      BY <3>1, <3>2, <3>3, FramePreserves, Zenon
  <2> QED
    BY <2>0, <2>1, <2>2, ZenonT(30)
       DEF IInv, TypeOK, TakenIsId, AccountTypes, decision, registry, device
<1>2. ASSUME UpdateForegroundUidPidMap
      PROVE  IInv'
  <2>0. UNCHANGED <<clock, accounts, requestId, lastRequestTime, bgTime, bgSince, registry,
                    pauseUid, device, runner, inner, procs, used>>
    BY <1>2, Zenon DEF UpdateForegroundUidPidMap
  <2>1. Head(events) \in Event /\ Tail(events) \in Seq(Event)
    BY <1>0, <1>2 DEF UpdateForegroundUidPidMap
  <2>2. Head(events)[2] \in Pid
    BY <2>1, Zenon
  <2>3. /\ plugin' \in Event \cup {<<>>}
        /\ events' \in Seq(Event)
        /\ foreground' \in SUBSET Pid
    BY <1>0, <1>2, <2>1, <2>2, Zenon DEF UpdateForegroundUidPidMap
  <2>4. AccountTypes' /\ Inv'
    <3>1. UNCHANGED <<pkg, reqs, info, timer, requestId, keyInfo, callback, watchdog>>
      BY <2>0, Zenon DEF accounts, registry
    <3>2. \A i \in Ids : TakenFor(i) /\ Counted(info[i]) => TakenFor(i)'
      BY <2>0, Zenon DEF TakenFor
    <3>3. clock' \in Nat /\ clock' >= clock
      BY <1>0, <2>0, SMTT(30)
    <3> QED
      BY <3>1, <3>2, <3>3, FramePreserves, Zenon
  <2> QED
    BY <2>0, <2>3, <2>4, ZenonT(30) DEF IInv, TypeOK, TakenIsId, AccountTypes, registry, device
<1>3. ASSUME HandleStateChange
      PROVE  IInv'
  <2> DEFINE a == AppOf[plugin[2]]
  <2>0. /\ UNCHANGED <<clock, requestId, lastRequestTime, foreground, registry, pauseUid,
                       device, runner, inner, procs, events, used>>
        /\ plugin # <<>> /\ plugin' = <<>>
        /\ HandleForeground(a) \/ HandleBackground(a) \/ HandleDied(a)
    BY <1>3, Zenon DEF HandleStateChange
  <2>1. a \in App
    <3>1. plugin[2] \in Pid
      BY <1>0, <2>0, Zenon
    <3> QED
      BY <3>1, TransientAssumption, Zenon
  <2> HIDE DEF a
  <2>2. ToInt32(clock) \in Int
    BY <1>0, Int32Type, SMTT(30)
  <2>3. /\ StartAccounting({a}) \/ StopAccountingAll({a}) \/ UNCHANGED accounts
        /\ bgTime' \in [App -> SUBSET Int]
        /\ bgSince' \in [App -> SUBSET Nat]
    <3>1. CASE HandleForeground(a)
      BY <1>0, <3>1, Zenon DEF HandleForeground
    <3>2. CASE HandleBackground(a)
      BY <1>0, <2>2, <3>2 DEF HandleBackground
    <3>3. CASE HandleDied(a)
      BY <1>0, <3>3, Zenon DEF HandleDied
    <3> QED
      BY <2>0, <3>1, <3>2, <3>3, Zenon
  <2>4. \A i \in Ids : TakenFor(i) => TakenFor(i)'
    BY <2>0, Zenon DEF TakenFor
  <2>5. AccountTypes' /\ Inv'
    <3>0. clock' = clock /\ {a} \in SUBSET App
      BY <2>0, <2>1, Zenon
    <3>1. CASE StartAccounting({a})
      BY <2>0, <2>4, <3>0, <3>1, StartPreserves, Zenon DEF registry
    <3>2. CASE StopAccountingAll({a})
      BY <2>0, <2>4, <3>0, <3>2, StopPreserves, Zenon DEF registry
    <3>3. CASE UNCHANGED accounts
      <4>1. UNCHANGED <<pkg, reqs, info, timer, requestId, keyInfo, callback, watchdog>>
        BY <1>0, <2>0, <2>4, <3>3, Zenon DEF accounts, registry
      <4>2. \A i \in Ids : TakenFor(i) /\ Counted(info[i]) => TakenFor(i)'
        BY <1>0, <2>0, <2>4, <3>3, Zenon
      <4>3. clock' \in Nat /\ clock' >= clock
        BY <1>0, <2>0, <2>4, <3>3, SMTT(30)
      <4> QED
        BY <4>1, <4>2, <4>3, FramePreserves, Zenon
    <3> QED
      BY <2>3, <3>1, <3>2, <3>3, Zenon
  <2> QED
    BY <2>0, <2>3, <2>5, ZenonT(30) DEF IInv, TypeOK, TakenIsId, AccountTypes, registry, device
<1> QED
  BY <1>1, <1>2, <1>3, Zenon DEF ProcessNext

LEMMA TickStep ==
  ASSUME IInv, Tick
  PROVE  IInv'
<1>0. /\ UNCHANGED <<accounts, decision, registry, pauseUid, device, runner, inner, processes>>
      /\ clock' = clock + 1
  BY Zenon DEF Tick
<1>1. clock \in Nat \ {0} /\ clock' \in Nat \ {0} /\ clock' >= clock
  BY <1>0, SMTT(30) DEF IInv, TypeOK
<1>2. used' \in [App -> Nat]
  BY DEF IInv, TypeOK, Tick
<1>3. AccountTypes' /\ Inv'
  <2>1. UNCHANGED <<pkg, reqs, info, timer, requestId, keyInfo, callback, watchdog>>
    BY <1>0, <1>1, Zenon DEF accounts, decision, registry
  <2>2. \A i \in Ids : TakenFor(i) /\ Counted(info[i]) => TakenFor(i)'
    BY <1>0, <1>1, Zenon DEF TakenFor
  <2>3. clock' \in Nat /\ clock' >= clock
    BY <1>0, <1>1, Zenon
  <2> QED
    BY <2>1, <2>2, <2>3, FramePreserves, Zenon
<1> QED
  BY <1>0, <1>1, <1>2, <1>3, ZenonT(30)
     DEF IInv, TypeOK, TakenIsId, AccountTypes, decision, registry,
     device, processes

-----------------------------------------------------------------------------
(* The invariant holds initially and is kept by every step.                *)

LEMMA InitInv == Init => IInv
<1> SUFFICES ASSUME Init
             PROVE  IInv
  BY Zenon
<1>1. NoRequest \in Request /\ ~Counted(NoRequest) /\ NoRequest.base = 0
  BY Zenon DEF NoRequest, Request, Counted
<1>2. TypeOK
  <2>1. clock \in Nat \ {0} /\ requestId \in 1 .. (MaxRequests + 1) /\ lastRequestTime \in Nat
    BY AccountingAssumption, TransientAssumption, SMTT(30) DEF Init
  <2>2. /\ pkg \in [App -> Package]
        /\ reqs \in [App -> SUBSET Ids]
        /\ info \in [Ids -> Request]
        /\ timer \in [Ids -> SUBSET Nat]
    BY <1>1, NoPackageType, Zenon DEF Init
  <2>3. /\ bgTime \in [App -> SUBSET Int]
        /\ bgSince \in [App -> SUBSET Nat]
        /\ foreground \in SUBSET Pid
        /\ keyInfo \in [Ids -> App \cup {NoApp}]
        /\ callback \in [Ids -> Callback \cup {NoCallback}]
        /\ watchdog \in [Ids -> SUBSET Nat]
        /\ pauseUid \in SUBSET App
    BY Zenon DEF Init
  <2>4. /\ screenOn \in BOOLEAN /\ lowPower \in BOOLEAN /\ isDump \in BOOLEAN
        /\ display \in BOOLEAN /\ queryFailed \in BOOLEAN
        /\ runner \in RunnerStates
    BY RunnerFacts, Zenon DEF Init
  <2>5. /\ plugin \in ({"foreground", "background", "died"} \X Pid) \cup {<<>>}
        /\ inner \in ({"pause", "paused", "start", "started"} \X App) \cup {<<>>}
        /\ procs \in SUBSET Pid
        /\ events \in Seq({"foreground", "background", "died"} \X Pid)
    BY SMTT(30) DEF Init
  <2>6. /\ dead \in SUBSET Callback
        /\ started \in [App -> Int]
        /\ appStarted \in SUBSET App
        /\ expiredAt \in [Ids -> Nat]
        /\ used \in [App -> Nat]
    BY SMTT(30) DEF Init
  <2> QED
    BY <2>1, <2>2, <2>3, <2>4, <2>5, <2>6, Zenon DEF TypeOK
<1>3. TakenIsId
  BY RunnerFacts, Zenon DEF Init, TakenIsId
<1>4. \A i \in Ids : ~Counted(info[i]) /\ info[i].base = 0
  BY <1>1, Zenon DEF Init
<1>5. Inv
  <2>1. RegistriesAgree
    BY TransientAssumption, Zenon DEF Init, RegistriesAgree
  <2>2. NoStrayEvents /\ FreshIds
    BY Zenon DEF Init, NoStrayEvents, FreshIds
  <2>3. CountedIsWatched /\ CountedIsListed
    BY <1>4, Zenon DEF CountedIsWatched, CountedIsListed
  <2>4. CountedIsCharged /\ ListedIsPresent
    BY Zenon DEF Init, CountedIsCharged, AnyCounted, ListedIsPresent
  <2>5. BaseInPast
    BY <1>4, TransientAssumption, SMTT(30) DEF Init, BaseInPast
  <2> QED
    BY <2>1, <2>2, <2>3, <2>4, <2>5, Zenon DEF Inv
<1> QED
  BY <1>2, <1>3, <1>5, Zenon DEF IInv

LEMMA StutterInv ==
  ASSUME IInv, UNCHANGED vars
  PROVE  IInv'
<1>1. clock \in Nat /\ clock' = clock
  BY Zenon DEF IInv, TypeOK, vars
<1>2. /\ UNCHANGED <<pkg, reqs, info, timer, requestId, keyInfo, callback, watchdog>>
      /\ runner' = runner /\ clock' >= clock
  BY <1>1 DEF vars, accounts, decision, registry
<1>3. \A i \in Ids : TakenFor(i) => TakenFor(i)'
  BY <1>2, Zenon DEF TakenFor
<1>4. AccountTypes' /\ Inv'
  BY <1>1, <1>2, <1>3, FramePreserves, Zenon
<1> QED
  BY <1>4, ZenonT(30) DEF IInv, TypeOK, TakenIsId, AccountTypes, vars, decision, registry, device,
     processes

LEMMA NextInv ==
  ASSUME MaxRequests + 1 < IntMax
  PROVE  IInv /\ [Next]_vars => IInv'
  BY AppStep, TimerStep, DeviceStep, CacheStep, InnerStep, ProcessStep, TickStep, StutterInv, Zenon
     DEF Next

LEMMA InvariantHolds ==
  ASSUME MaxRequests + 1 < IntMax
  PROVE  Spec => []IInv
  BY InitInv, NextInv, PTL DEF Spec

\* The variables keep their types as long as request ids do not wrap around
\* INT_MAX: in particular no quota is negative or above the daily one.
THEOREM TypeCorrect ==
  ASSUME MaxRequests + 1 < IntMax
  PROVE  Spec => []TypeOK
<1>1. IInv => TypeOK
  BY Zenon DEF IInv
<1> QED
  BY <1>1, InvariantHolds, PTL

\* keyInfoMap_, expiredCallbackMap_ and the request lists hold the same requests in
\* every state, whatever the order of requests, cancellations, callback deaths,
\* forced cancellations and app-cache events.
THEOREM RegistriesAlwaysAgree ==
  ASSUME MaxRequests + 1 < IntMax
  PROVE  Spec => []RegistriesAgree
<1>1. IInv => RegistriesAgree
  BY Zenon DEF IInv, Inv
<1> QED
  BY <1>1, InvariantHolds, PTL

\* A counted request always has a timer or a watchdog pending or being handled, so
\* the manager cannot forget to end it.
THEOREM CountedIsAlwaysWatched ==
  ASSUME MaxRequests + 1 < IntMax
  PROVE  Spec => []CountedIsWatched
<1>1. IInv => CountedIsWatched
  BY Zenon DEF IInv, Inv
<1> QED
  BY <1>1, InvariantHolds, PTL

\* No timer or watchdog event outlives the counting, or the request, it is for.
THEOREM EventsAreNeverStray ==
  ASSUME MaxRequests + 1 < IntMax
  PROVE  Spec => []NoStrayEvents
<1>1. IInv => NoStrayEvents
  BY Zenon DEF IInv, Inv
<1> QED
  BY <1>1, InvariantHolds, PTL

\* While a request is counted its application's quota is being charged.
THEOREM CountedIsAlwaysCharged ==
  ASSUME MaxRequests + 1 < IntMax
  PROVE  Spec => []CountedIsCharged
<1>1. IInv => CountedIsCharged
  BY Zenon DEF IInv, Inv
<1> QED
  BY <1>1, InvariantHolds, PTL

-----------------------------------------------------------------------------
(* What a step does to the accounts and registries: there are seven kinds. *)

\* No event is taken off the queue.
NothingTaken == runner'.op \in {"expired", "force"} => runner' = runner

Requests == \E a \in App, cb \in Callback : RequestSuspendDelay(a, cb)

Cancels ==
    /\ \E S \in SUBSET Ids : CancelLocked(S)
    /\ UNCHANGED <<clock, requestId, expiredAt, used>>
    /\ NothingTaken

Starts ==
    /\ \E A \in SUBSET App : StartAccounting(A) /\ \A a \in A : MayTryStart(a)
    /\ UNCHANGED <<clock, requestId, registry, used>>
    /\ NothingTaken

Stops ==
    /\ \E A \in SUBSET App : StopAccountingAll(A) /\ \A a \in A : pkg[a].present
    /\ UNCHANGED <<clock, requestId, registry, used>>
    /\ NothingTaken

Queries == \E a \in App : GetQuota(a)

Timers == HandleRequestExpired \/ \E i \in Ids : TakeTimer(i) \/ TakeWatchdog(i)

Passes ==
    /\ UNCHANGED <<accounts, requestId, registry>>
    /\ NothingTaken
    /\ UNCHANGED <<clock, used>> \/ Tick

StepKinds == Requests \/ Cancels \/ Starts \/ Stops \/ Queries \/ Timers \/ Passes

LEMMA IdleTakesNothing ==
  ASSUME runner' = Idle
  PROVE  NothingTaken
  BY RunnerFacts, Zenon DEF NothingTaken

LEMMA AppKinds ==
  ASSUME AppNext
  PROVE  StepKinds
<1>1. ASSUME NEW a \in App, NEW id \in Ids, CancelSuspendDelay(a, id)
      PROVE  Cancels
  <2>1. {id} \in SUBSET Ids /\ CancelLocked({id})
    BY <1>1, Zenon DEF CancelSuspendDelay
  <2> QED
    BY <1>1, <2>1, Zenon DEF CancelSuspendDelay, Cancels, decision, NothingTaken
<1>2. ASSUME NEW cb \in Callback, HandleExpiredCallbackDeath(cb)
      PROVE  Cancels
  <2> DEFINE S == {i \in Ids : callback[i] = cb}
  <2>1. S \in SUBSET Ids /\ CancelLocked(S)
    BY <1>2, Zenon DEF HandleExpiredCallbackDeath
  <2> HIDE DEF S
  <2> QED
    BY <1>2, <2>1, Zenon DEF HandleExpiredCallbackDeath, Cancels, decision, NothingTaken
<1> QED
  BY <1>1, <1>2, Zenon DEF AppNext, StepKinds, Requests, Queries

LEMMA RunnerKinds ==
  ASSUME IInv, TimerNext \/ ScreenNext \/ BatteryNext \/ CacheNext
  PROVE  StepKinds
<1>0. TakenIsId
  BY Zenon DEF IInv
<1>1. CASE ForceCancelSuspendDelay
  <2>1. /\ UNCHANGED <<clock, requestId, expiredAt, used>>
        /\ NothingTaken
    BY <1>1, IdleTakesNothing, Zenon DEF ForceCancelSuspendDelay, decision
  <2>2. CASE keyInfo[runner.id] = NoApp
    <3>1. UNCHANGED <<accounts, requestId, registry>>
      BY <1>1, <2>2, Zenon DEF ForceCancelSuspendDelay, registry, decision
    <3> QED
      BY <2>1, <3>1, Zenon DEF Passes, StepKinds
  <2>3. CASE keyInfo[runner.id] # NoApp
    <3>1. {runner.id} \in SUBSET Ids /\ CancelLocked({runner.id})
      BY <1>0, <1>1, <2>3, Zenon DEF ForceCancelSuspendDelay, TakenIsId
    <3> QED
      BY <2>1, <3>1, Zenon DEF Cancels, StepKinds
  <2> QED
    BY <2>2, <2>3, Zenon
<1>2. CASE ScreenEvent
  <2>1. NothingTaken
    BY <1>2, Zenon DEF ScreenEvent, Idle, NothingTaken
  <2> QED
    BY <1>2, <2>1, Zenon DEF ScreenEvent, Passes, StepKinds, decision
<1>3. CASE HandleScreenOn
  <2> DEFINE A == {a \in App : pkg[a].present /\ \E p \in procs : AppOf[p] = a}
  <2>1. A \in SUBSET App /\ \A a \in A : pkg[a].present
    BY Zenon
  <2>2. /\ StopAccountingAll(A) \/ UNCHANGED accounts
        /\ UNCHANGED <<clock, decision, registry, used>>
        /\ runner' = Idle
    BY <1>3, Zenon DEF HandleScreenOn
  <2> HIDE DEF A
  <2> QED
    BY <2>1, <2>2, IdleTakesNothing, Zenon DEF Stops, Passes, StepKinds, decision
<1>4. CASE HandleScreenOff
  <2> DEFINE A == {a \in App : a \notin pauseUid /\ MayTryStart(a)}
  <2>1. A \in SUBSET App /\ \A a \in A : MayTryStart(a)
    BY Zenon
  <2>2. /\ StartAccounting(A)
        /\ UNCHANGED <<clock, decision, registry, used>>
        /\ runner' = Idle
    BY <1>4, Zenon DEF HandleScreenOff
  <2> HIDE DEF A
  <2> QED
    BY <2>1, <2>2, IdleTakesNothing, Zenon DEF Starts, StepKinds, decision
<1>5. CASE BatteryNext
  BY <1>5, Zenon DEF BatteryNext, BatteryEvent, SetDump, Passes, StepKinds, NothingTaken, decision
<1>6. ASSUME NEW a \in App, OnAppCacheStateChanged(a)
      PROVE  StepKinds
  <2>1. NothingTaken
    BY <1>6, Zenon DEF OnAppCacheStateChanged, Idle, NothingTaken
  <2> QED
    BY <1>6, <2>1, Zenon DEF OnAppCacheStateChanged, Passes, StepKinds, decision
<1>7. ASSUME NEW i \in Ids, CancelCached(i)
      PROVE  StepKinds
  <2>1. NothingTaken
    <3>1. CASE runner' = Idle
      BY <3>1, IdleTakesNothing, Zenon
    <3>2. CASE runner' = [runner EXCEPT !.op = "caching", !.ids = @ \ {i}]
      <4>1. runner \in RunnerStates
        BY Zenon DEF IInv, TypeOK
      <4>2. runner'.op = "caching"
        BY <3>2, <4>1, Zenon DEF RunnerStates
      <4> QED
        BY <4>2, Zenon DEF NothingTaken
    <3> QED
      BY <1>7, <3>1, <3>2, Zenon DEF CancelCached
  <2>2. {i} \in SUBSET Ids /\ CancelLocked({i})
    BY <1>7, Zenon DEF CancelCached
  <2> QED
    BY <1>7, <2>1, <2>2, Zenon DEF CancelCached, Cancels, StepKinds, decision
<1> QED
  BY <1>1, <1>2, <1>3, <1>4, <1>5, <1>6, <1>7, Zenon
     DEF TimerNext, ScreenNext, CacheNext, Timers, StepKinds

\* Calls of the suspend manager and its death.
LEMMA InnerKinds ==
  ASSUME IInv, InnerNext
  PROVE  StepKinds
<1>0. runner \in RunnerStates
  BY Zenon DEF IInv, TypeOK
<1>1. ASSUME NEW a \in App, PauseStop(a)
      PROVE  StepKinds
  <2>1. /\ (StopAccountingAll({a}) /\ pkg[a].present) \/ UNCHANGED accounts
        /\ UNCHANGED <<clock, decision, registry, runner, used>>
    BY <1>1, Zenon DEF PauseStop
  <2> QED
    BY <2>1 DEF Stops, Passes, StepKinds, NothingTaken, decision
<1>2. ASSUME NEW a \in App, StartTry(a)
      PROVE  StepKinds
  <2>1. /\ (StartAccounting({a}) /\ MayTryStart(a)) \/ UNCHANGED accounts
        /\ UNCHANGED <<clock, decision, registry, runner, used>>
    BY <1>2, Zenon DEF StartTry
  <2> QED
    BY <2>1 DEF Starts, Passes, StepKinds, NothingTaken, decision
<1>3. ASSUME NEW a \in App, DieStart(a)
      PROVE  StepKinds
  <2>1. /\ (StartAccounting({a}) /\ MayTryStart(a)) \/ UNCHANGED accounts
        /\ UNCHANGED <<clock, decision, registry, used>>
    BY <1>3, Zenon DEF DieStart
  <2>2. runner'.op = "die"
    BY <1>0, <1>3, Zenon DEF DieStart, RunnerStates
  <2> QED
    BY <2>1, <2>2 DEF Starts, Passes, StepKinds, NothingTaken, decision
<1>4. ASSUME NEW a \in App,
             \/ PauseTransientTaskTimeForInner(a) \/ PauseInsert(a)
             \/ StartTransientTaskTimeForInner(a) \/ StartErase(a)
      PROVE  StepKinds
  BY <1>4, Zenon DEF PauseTransientTaskTimeForInner, PauseInsert, StartTransientTaskTimeForInner,
     StartErase, Passes, StepKinds, NothingTaken, decision
<1>5. ASSUME NEW a \in App, DieCheck(a)
      PROVE  StepKinds
  <2>1. runner'.op = "die"
    BY <1>0, <1>5, Zenon DEF DieCheck, RunnerStates
  <2> QED
    BY <1>5, <2>1, Zenon DEF DieCheck, Passes, StepKinds, NothingTaken, decision
<1>6. CASE HandleSuspendManagerDie
  <2>1. runner'.op = "die"
    BY <1>6, Zenon DEF HandleSuspendManagerDie, Idle
  <2> QED
    BY <1>6, <2>1, Zenon DEF HandleSuspendManagerDie, Passes, StepKinds, NothingTaken, decision
<1>7. CASE DieEnd
  BY <1>7, IdleTakesNothing, Zenon DEF DieEnd, Passes, StepKinds, decision
<1> QED
  BY <1>1, <1>2, <1>3, <1>4, <1>5, <1>6, <1>7, Zenon DEF InnerNext

LEMMA ProcessKinds ==
  ASSUME IInv, ProcessNext
  PROVE  StepKinds
<1>1. ASSUME NEW p \in Pid, NEW kind \in {"foreground", "background", "died"},
             ProcessChanges(p, kind)
      PROVE  StepKinds
  BY <1>1, Zenon DEF ProcessChanges, Passes, StepKinds, NothingTaken, decision
<1>2. CASE UpdateForegroundUidPidMap
  BY <1>2, Zenon DEF UpdateForegroundUidPidMap, Passes, StepKinds, NothingTaken
<1>3. CASE HandleStateChange
  <2> DEFINE a == AppOf[plugin[2]]
  <2>0. /\ plugin # <<>>
        /\ HandleForeground(a) \/ HandleBackground(a) \/ HandleDied(a)
        /\ UNCHANGED <<clock, requestId, registry, runner, used>>
    BY <1>3, Zenon DEF HandleStateChange
  <2>1. a \in App
    <3>1. plugin[2] \in Pid
      BY <2>0, Zenon DEF IInv, TypeOK
    <3> QED
      BY <3>1, TransientAssumption, Zenon
  <2> HIDE DEF a
  <2>2. \/ StartAccounting({a}) /\ MayTryStart(a)
        \/ StopAccountingAll({a}) /\ pkg[a].present
        \/ UNCHANGED accounts
    BY <2>0, Zenon DEF HandleForeground, HandleBackground, HandleDied
  <2> QED
    BY <2>0, <2>1, <2>2 DEF Starts, Stops, Passes, StepKinds, NothingTaken
<1> QED
  BY <1>1, <1>2, <1>3, Zenon DEF ProcessNext

LEMMA NextKinds ==
  ASSUME IInv, [Next]_vars
  PROVE  StepKinds
<1>1. CASE Tick
  BY <1>1, Zenon DEF Tick, Passes, StepKinds, NothingTaken, decision
<1>2. CASE UNCHANGED vars
  BY <1>2, Zenon DEF vars, Passes, StepKinds, NothingTaken, decision
<1> QED
  BY <1>1, <1>2, AppKinds, RunnerKinds, InnerKinds, ProcessKinds, Zenon DEF Next

-----------------------------------------------------------------------------
(* The notices.                                                            *)

LEMMA IdsFinite == \A S \in SUBSET Ids : IsFiniteSet(S) /\ Cardinality(S) \in Nat
<1>1. IsFiniteSet(Ids)
  BY FS_Interval, AccountingAssumption DEF Ids
<1> QED
  BY <1>1, FS_Subset, FS_CardinalityType, Zenon

LEMMA CardinalityRemoved ==
  ASSUME NEW S \in SUBSET Ids, NEW R \in SUBSET S
  PROVE  Cardinality(S \ R) = Cardinality(S) - Cardinality(R)
<1>1. IsFiniteSet(S) /\ Cardinality(S) \in Nat
  BY IdsFinite, Zenon
<1>2. S \cap R = R
  BY Zenon
<1> QED
  BY <1>1, <1>2, FS_Difference, Zenon

LEMMA CancelNotices ==
  ASSUME IInv, NoticesMatch, NEW S \in SUBSET Ids, CancelLocked(S)
  PROVE  NoticesMatch'
<1>0. /\ reqs \in [App -> SUBSET Ids]
      /\ started \in [App -> Int]
      /\ RegistriesAgree /\ ListedIsPresent
  BY Zenon DEF IInv, TypeOK, Inv
<1>1. /\ reqs' = [a \in App |-> reqs[a] \ RemoveOf(a, S)]
      /\ started' = [a \in App |-> started[a] -
                       (IF pkg[a].present THEN Cardinality(RemoveOf(a, S)) ELSE 0)]
      /\ appStarted' = {a \in appStarted :
                          RemoveOf(a, S) # {} => ~(pkg[a].present /\ reqs'[a] = {})}
  BY Zenon DEF CancelLocked
<1>2. \A a \in App : RemoveOf(a, S) \in SUBSET reqs[a]
  BY <1>0, Zenon DEF RemoveOf, RegistriesAgree
<1>3. \A a \in App : RemoveOf(a, S) # {} => pkg[a].present
  BY <1>0, <1>2, Zenon DEF ListedIsPresent
<1>4. ASSUME NEW a \in App
      PROVE  started'[a] = Cardinality(reqs'[a])
  <2>1. /\ reqs'[a] = reqs[a] \ RemoveOf(a, S)
        /\ started'[a] = started[a] -
                           (IF pkg[a].present THEN Cardinality(RemoveOf(a, S)) ELSE 0)
    BY <1>1, Zenon
  <2>2. Cardinality(reqs'[a]) = Cardinality(reqs[a]) - Cardinality(RemoveOf(a, S))
    BY <1>0, <1>2, <2>1, CardinalityRemoved, Zenon
  <2>3. started[a] = Cardinality(reqs[a])
    BY Zenon DEF NoticesMatch
  <2>4. ~pkg[a].present => Cardinality(RemoveOf(a, S)) = 0
    BY <1>3, FS_EmptySet, Zenon
  <2> QED
    BY <2>1, <2>2, <2>3, <2>4, Zenon
<1>5. appStarted' = {a \in App : reqs'[a] # {}}
  <2>1. appStarted = {a \in App : reqs[a] # {}}
    BY Zenon DEF NoticesMatch
  <2>2. \A a \in App : reqs'[a] = reqs[a] \ RemoveOf(a, S)
    BY <1>1, Zenon
  <2> QED
    BY <1>1, <1>3, <2>1, <2>2, Zenon
<1> QED
  BY <1>4, <1>5, Zenon DEF NoticesMatch

\* The id of a new request is in no registry and was never taken off a queue.
LEMMA GrantFresh ==
  ASSUME IInv, MaxRequests + 1 < IntMax
  PROVE  /\ NewDelaySuspendRequestId = requestId
         /\ requestId \in Ids =>
              /\ keyInfo[requestId] = NoApp
              /\ info[requestId] = NoRequest
              /\ timer[requestId] = {} /\ watchdog[requestId] = {}
              /\ \A b \in App : requestId \notin reqs[b]
<1>0. requestId \in 1 .. (MaxRequests + 1) /\ RegistriesAgree /\ FreshIds
  BY Zenon DEF IInv, TypeOK, Inv
<1>1. NewDelaySuspendRequestId = requestId
  BY <1>0, AccountingAssumption, TransientAssumption DEF NewDelaySuspendRequestId
<1> QED
  BY <1>0, <1>1, TransientAssumption DEF FreshIds, RegistriesAgree

LEMMA GrantNotices ==
  ASSUME IInv, MaxRequests + 1 < IntMax, NoticesMatch,
         NEW a \in App, NEW cb \in Callback, Grant(a, cb)
  PROVE  NoticesMatch'
<1>0. reqs \in [App -> SUBSET Ids] /\ started \in [App -> Int]
  BY Zenon DEF IInv, TypeOK
<1>1. /\ requestId \in Ids
      /\ reqs' = [reqs EXCEPT ![a] = @ \cup {requestId}]
      /\ started' = [started EXCEPT ![a] = @ + 1]
      /\ appStarted' = IF FirstRequest(a) THEN appStarted \cup {a} ELSE appStarted
  BY GrantFresh, Zenon DEF Grant
<1>2. Cardinality(reqs[a] \cup {requestId}) = Cardinality(reqs[a]) + 1
  <2>1. requestId \notin reqs[a]
    BY <1>1, GrantFresh, Zenon
  <2>2. IsFiniteSet(reqs[a])
    BY <1>0, IdsFinite, Zenon
  <2> QED
    BY <2>1, <2>2, FS_AddElement, Zenon
<1>3. \A b \in App : started'[b] = Cardinality(reqs'[b])
  BY <1>0, <1>1, <1>2, Zenon DEF NoticesMatch
<1>4. appStarted' = {b \in App : reqs'[b] # {}}
  <2>1. \A b \in App : reqs'[b] # {} <=> b = a \/ reqs[b] # {}
    BY <1>0, <1>1, Zenon
  <2> QED
    BY <1>1, <2>1, Zenon DEF NoticesMatch, FirstRequest
<1> QED
  BY <1>3, <1>4, Zenon DEF NoticesMatch

LEMMA NoticesStep ==
  ASSUME MaxRequests + 1 < IntMax, IInv, NoticesMatch, [Next]_vars
  PROVE  NoticesMatch'
<1>1. CASE Cancels
  BY <1>1, CancelNotices, Zenon DEF Cancels
<1>2. ASSUME NEW a \in App, NEW cb \in Callback, RequestSuspendDelay(a, cb)
      PROVE  NoticesMatch'
  <2>1. CASE Grant(a, cb)
    BY <2>1, GrantNotices, Zenon
  <2>2. CASE ~Grant(a, cb)
    <3>1. UNCHANGED <<reqs, started, appStarted>>
      BY <1>2, <2>2, Zenon DEF RequestSuspendDelay, RefuseNotInPresetTime, RefuseExceedsThreshold,
         RefuseTimeInsufficient
    <3> QED
      BY <3>1, Zenon DEF NoticesMatch
  <2> QED
    BY <2>1, <2>2, Zenon
<1>3. CASE Starts \/ Stops \/ Queries \/ Timers \/ Passes
  <2>1. UNCHANGED <<reqs, started, appStarted>>
    BY <1>3, Zenon DEF Starts, Stops, Queries, Timers, Passes, StartAccounting, StopAccountingAll,
       GetQuota, HandleRequestExpired, TakeTimer, TakeWatchdog, accounts, registry
  <2> QED
    BY <2>1, Zenon DEF NoticesMatch
<1> QED
  BY <1>1, <1>2, <1>3, NextKinds, Zenon DEF StepKinds, Requests

\* In every state the notices posted add up to the requests that exist, and
\* APP_TASK_START is the last application notice exactly while there is one.
THEOREM NoticesAlwaysMatch ==
  ASSUME MaxRequests + 1 < IntMax
  PROVE  Spec => []NoticesMatch
<1>1. Init => NoticesMatch
  BY FS_EmptySet, Zenon DEF Init, NoticesMatch
<1>2. IInv /\ NoticesMatch /\ [Next]_vars => NoticesMatch'
  BY NoticesStep, Zenon
<1> QED
  BY <1>1, <1>2, InvariantHolds, PTL DEF Spec

-----------------------------------------------------------------------------
(* 32-bit times.                                                           *)

LEMMA DivMod ==
  ASSUME NEW m \in Nat \ {0}, NEW x \in Int
  PROVE  /\ x \div m \in Int
         /\ x % m \in 0 .. (m - 1)
         /\ x = m * (x \div m) + (x % m)
  OBVIOUS

LEMMA ModUnique ==
  ASSUME NEW m \in Nat \ {0}, NEW q \in Int, NEW r \in 0 .. (m - 1)
  PROVE  (m * q + r) % m = r
  OBVIOUS

LEMMA ModDifference ==
  ASSUME NEW m \in Nat \ {0}, NEW y \in Int, NEW d \in 0 .. (m - 1)
  PROVE  ((y + d) % m) - (y % m) \in {d, d - m}
<1> DEFINE q == y \div m
           r == y % m
<1>1. q \in Int /\ r \in 0 .. (m - 1) /\ y = m * q + r
  BY DivMod, Zenon
<1> HIDE DEF q, r
<1>2. CASE r + d < m
  <2>1. r + d \in 0 .. (m - 1) /\ y + d = m * q + (r + d)
    BY <1>1, <1>2
  <2> QED
    BY <1>1, <2>1, ModUnique DEF r
<1>3. CASE r + d >= m
  <2>1. r + d - m \in 0 .. (m - 1) /\ y + d = m * (q + 1) + (r + d - m) /\ q + 1 \in Int
    BY <1>1, <1>3
  <2>2. (y + d) % m = r + d - m
    BY <2>1, ModUnique, Zenon
  <2> QED
    BY <1>1, <2>2 DEF r
<1> QED
  BY <1>1, <1>2, <1>3

LEMMA Int32Small ==
  ASSUME NEW n \in Int, -Int32Half <= n, n < Int32Half
  PROVE  ToInt32(n) = n
  BY AccountingAssumption DEF ToInt32

\* A difference of two 32-bit times is right as long as it fits 32 bits itself,
\* also across a wrap of the clock.
LEMMA Int32Difference ==
  ASSUME NEW x \in Int, NEW y \in Int, y <= x, x - y < Int32Half
  PROVE  ToInt32(ToInt32(x) - ToInt32(y)) = x - y
<1> DEFINE H == Int32Half
           d == x - y
<1>0. H \in Nat \ {0} /\ d \in 0 .. (2 * H - 1) /\ 2 * H \in Nat \ {0} /\ y + H \in Int
      /\ x + H = (y + H) + d
  BY AccountingAssumption
<1>1. ((x + H) % (2 * H)) - ((y + H) % (2 * H)) \in {d, d - 2 * H}
  BY <1>0, ModDifference, Zenon
<1>2. (x + H) % (2 * H) \in Int /\ (y + H) % (2 * H) \in Int
  BY <1>0, DivMod
<1>3. ToInt32(x) - ToInt32(y) \in {d, d - 2 * H}
  BY <1>0, <1>1, <1>2 DEF ToInt32
<1>4. ToInt32(d) = d
  BY <1>0, Int32Small
<1>5. ToInt32(d - 2 * H) = d
  BY <1>0 DEF ToInt32
<1> QED
  BY <1>3, <1>4, <1>5, Zenon

-----------------------------------------------------------------------------
(* The quota.                                                              *)

\* What is left of the quota of a package without an exempted quota.
Left(p, now) == p.quota - (IF p.counting THEN GetModifiedTime(p, 0, now) ELSE 0)

\* Accounting of the package started at a time this service has seen.
BaseKnown(p, now) ==
    p.counting => \E t \in Nat : BootTime <= t /\ t <= now /\ p.base = ToInt32(t)

\* A package whose application had u time counted.
Good(p, u, now) ==
    /\ p \in Package
    /\ BaseKnown(p, now)
    /\ ~p.present => p.quota = INIT_QUOTA /\ ~p.counting
    /\ Left(p, now) > 0 => u + Left(p, now) <= INIT_QUOTA

\* q charges as much as p does.
Kept(p, q, now) ==
    /\ q \in Package
    /\ q.present = p.present
    /\ BaseKnown(q, now)
    /\ Left(q, now) > 0 => Left(q, now) = Left(p, now)

InService(now) == now \in Nat /\ BootTime <= now /\ now < BootTime + Int32Half

QuotaInv ==
    /\ InService(clock)
    /\ \A a \in App \ ExemptedApp : Good(pkg[a], used[a], clock)

LEMMA ModifiedIsElapsed ==
  ASSUME NEW p \in Package, NEW now \in Nat, NEW t \in Nat, t <= now,
         now - t < Int32Half, p.base = ToInt32(t)
  PROVE  GetModifiedTime(p, 0, now) = now - t
<1>1. ToInt32(now) \in Int /\ ToInt32(t) \in Int
  BY Int32Type
<1>2. ToInt32(now) - p.base - 0 = ToInt32(now) - ToInt32(t)
  BY <1>1
<1>3. ToInt32(ToInt32(now) - ToInt32(t)) = now - t
  BY Int32Difference
<1>4. NonNegative(now - t) = now - t
  BY DEF NonNegative
<1> QED
  BY <1>2, <1>3, <1>4, Zenon DEF GetModifiedTime

LEMMA LeftType ==
  ASSUME NEW p \in Package, NEW now \in Nat
  PROVE  Left(p, now) \in Int /\ p.quota \in Nat
<1>1. p.quota \in Nat
  BY AccountingAssumption DEF Package
<1>2. GetModifiedTime(p, 0, now) \in Nat
  BY ModifiedType, Zenon
<1> QED
  BY <1>1, <1>2 DEF Left

LEMMA UpdateKept ==
  ASSUME NEW p \in Package, NEW now, InService(now)
  PROVE  /\ Kept(p, UpdateQuota(p, 0, now), now)
         /\ Left(UpdateQuota(p, 0, now), now) = UpdateQuota(p, 0, now).quota
         /\ UpdateQuota(p, 0, now).quota = NonNegative(Left(p, now))
<1> DEFINE q == UpdateQuota(p, 0, now)
<1>0. now \in Nat /\ 0 \in Nat /\ Int32Half \in Nat \ {0} /\ BootTime <= now
  BY AccountingAssumption, Zenon DEF InService
<1>1. q \in Package /\ q.present = p.present /\ q.counting = p.counting
  BY <1>0, UpdateQuotaFacts, Zenon
<1>2. /\ q.quota = NonNegative(p.quota - (IF p.counting THEN GetModifiedTime(p, 0, now) ELSE 0))
      /\ p.counting => q.base = ToInt32(now)
  BY Zenon DEF UpdateQuota, Package
<1> HIDE DEF q
<1>3. q.quota = NonNegative(Left(p, now))
  BY <1>2, Zenon DEF Left
<1>4. p.counting => GetModifiedTime(q, 0, now) = 0
  BY <1>0, <1>1, <1>2, ModifiedIsElapsed
<1>5. Left(q, now) = q.quota
  BY <1>0, <1>1, <1>4, LeftType DEF Left
<1>6. BaseKnown(q, now)
  BY <1>0, <1>1, <1>2 DEF BaseKnown
<1>7. q.quota > 0 => q.quota = Left(p, now)
  BY <1>0, <1>3, LeftType, SMTT(30) DEF NonNegative
<1> QED
  BY <1>1, <1>3, <1>5, <1>6, <1>7, Zenon DEF Kept, q

LEMMA StopKept ==
  ASSUME NEW p \in Package, NEW now, InService(now)
  PROVE  Kept(p, StopPackage(p, 0, now), now)
<1> DEFINE u == UpdateQuota(p, 0, now)
           q == StopPackage(p, 0, now)
<1>0. now \in Nat /\ 0 \in Nat
  BY Zenon DEF InService
<1>1. Kept(p, u, now) /\ Left(u, now) = u.quota /\ u \in Package
  BY UpdateKept, Zenon DEF Kept
<1>2. q \in Package /\ q.present = p.present
  BY <1>0, PackageFacts, Zenon
<1>3. ~q.counting /\ q.quota = u.quota
  <2> HIDE DEF u
  <2>1. q = [u EXCEPT !.counting = FALSE, !.base = 0]
    BY Zenon DEF StopPackage, u
  <2> QED
    BY <1>1, <2>1, Zenon DEF Package
<1>4. Left(q, now) = u.quota
  <2>1. u.quota \in Nat
    BY <1>0, <1>1, LeftType, Zenon
  <2>2. Left(q, now) = u.quota - 0
    <3> HIDE DEF q, u
    <3> QED
      BY <1>3, Zenon DEF Left
  <2> QED
    BY <2>1, <2>2
<1> QED
  BY <1>1, <1>2, <1>3, <1>4, Zenon DEF Kept, BaseKnown

LEMMA StartKept ==
  ASSUME NEW p \in Package, NEW S, NEW now, InService(now), BaseKnown(p, now)
  PROVE  Kept(p, StartPackage(p, S, 0, now), now)
<1> DEFINE u == UpdateQuota(p, 0, now)
           q == StartPackage(p, S, 0, now)
<1>0. now \in Nat /\ 0 \in Nat /\ BootTime <= now /\ Int32Half \in Nat \ {0}
  BY AccountingAssumption, Zenon DEF InService
<1>1. Kept(p, u, now) /\ Left(u, now) = u.quota /\ u \in Package
  BY UpdateKept, Zenon DEF Kept
<1>2. q \in Package /\ q.present = p.present
  BY <1>0, PackageFacts
<1>3. CASE S = {} \/ p.counting
  <2>1. q = p
    BY <1>3, Zenon DEF StartPackage
  <2> QED
    BY <2>1, Zenon DEF Kept
<1>4. CASE ~(S = {} \/ p.counting)
  <2>1. q.counting /\ q.quota = u.quota /\ q.base = ToInt32(now)
    <3> HIDE DEF u
    <3>1. q = [u EXCEPT !.counting = TRUE, !.base = ToInt32(now)]
      BY <1>4, Zenon DEF StartPackage, u
    <3> QED
      BY <1>1, <3>1, Zenon DEF Package
  <2>2. GetModifiedTime(q, 0, now) = 0
    BY <1>0, <1>2, <2>1, ModifiedIsElapsed
  <2>3. Left(q, now) = u.quota
    <3>1. u.quota \in Nat
      BY <1>0, <1>1, LeftType, Zenon
    <3>2. Left(q, now) = u.quota - 0
      BY <2>1, <2>2, Zenon DEF Left
    <3> QED
      BY <3>1, <3>2
  <2>4. BaseKnown(q, now)
    BY <1>0, <2>1 DEF BaseKnown
  <2> QED
    BY <1>1, <1>2, <2>3, <2>4, Zenon DEF Kept
<1> QED
  BY <1>3, <1>4, Zenon

LEMMA RemoveKept ==
  ASSUME NEW p \in Package, NEW L, NEW S, NEW now, InService(now), BaseKnown(p, now)
  PROVE  Kept(p, RemovePackage(p, L, S, 0, now), now)
  BY StopKept, Zenon DEF RemovePackage, Kept

LEMMA GoodKept ==
  ASSUME NEW p, NEW u \in Nat, NEW now, Good(p, u, now), p.present,
         NEW q, Kept(p, q, now)
  PROVE  Good(q, u, now)
  BY Zenon DEF Good, Kept

LEMMA GoodNew ==
  ASSUME NEW p, NEW u \in Nat, NEW now \in Nat, Good(p, u, now), ~p.present
  PROVE  Good(NewPackage, u, now)
<1>1. NewPackage \in Package /\ NewPackage.present /\ ~NewPackage.counting
      /\ NewPackage.quota = INIT_QUOTA
  BY NoPackageType, Zenon DEF NewPackage, NoPackage
<1>2. Left(NewPackage, now) = INIT_QUOTA - 0 /\ Left(p, now) = INIT_QUOTA - 0
  <2>1. ~p.counting /\ p.quota = INIT_QUOTA
    BY Zenon DEF Good
  <2> QED
    BY <1>1, <2>1, Zenon DEF Left
<1>3. Left(p, now) > 0 => u + Left(p, now) <= INIT_QUOTA
  BY Zenon DEF Good
<1> QED
  BY <1>1, <1>2, <1>3, AccountingAssumption, Zenon DEF Good, BaseKnown

\* After the daily reset the time counted is 0 and so is the time charged.
LEMMA GoodDay ==
  ASSUME IInv, QuotaInv, ResetDayQuota, NEW a \in App \ ExemptedApp
  PROVE  /\ used'[a] \in Nat
         /\ Good(DayPackage(a), used'[a], clock)
<1>0. /\ InService(clock) /\ Good(pkg[a], used[a], clock) /\ used \in [App -> Nat]
      /\ clock \in Nat /\ pkg[a] \in Package
  BY Zenon DEF QuotaInv, IInv, TypeOK
<1>1. CASE ~IsAfterOneDay
  BY <1>0, <1>1, Zenon DEF DayPackage, ResetDayQuota
<1>2. CASE IsAfterOneDay
  <2>1. used'[a] = 0
    BY <1>2, Zenon DEF ResetDayQuota
  <2>2. CASE ~pkg[a].present
    <3>1. DayPackage(a) = pkg[a]
      BY <2>2, Zenon DEF DayPackage
    <3>2. ~pkg[a].counting /\ pkg[a].quota = INIT_QUOTA
      BY <1>0, <2>2, Zenon DEF Good
    <3>3. Left(pkg[a], clock) = INIT_QUOTA - 0
      BY <3>2, Zenon DEF Left
    <3> QED
      BY <1>0, <2>1, <3>1, <3>3, AccountingAssumption DEF Good
  <2>3. CASE pkg[a].present /\ reqs[a] = {}
    <3>1. DayPackage(a) = NoPackage
      BY <1>2, <2>3, Zenon DEF DayPackage
    <3>2. ~NoPackage.counting /\ NoPackage.quota = INIT_QUOTA
      BY Zenon DEF NoPackage
    <3>3. Left(NoPackage, clock) = INIT_QUOTA - 0
      BY <3>2, ZenonT(30) DEF Left
    <3> QED
      BY <2>1, <3>1, <3>2, <3>3, NoPackageType, AccountingAssumption DEF Good, BaseKnown
  <2>4. CASE pkg[a].present /\ reqs[a] # {}
    <3> DEFINE u == UpdateQuota(pkg[a], 0, clock)
               q == ResetQuota(pkg[a], 0, clock)
    <3>1. DayPackage(a) = q
      BY <1>2, <2>4, ZenonT(30) DEF DayPackage, Exempted
    <3>2. Kept(pkg[a], u, clock) /\ u \in Package
      BY <1>0, UpdateKept, Zenon DEF Kept
    <3>3. q \in Package /\ q.present /\ q.quota = INIT_QUOTA /\ q.counting = u.counting
          /\ q.base = u.base
      <4>1. q \in Package /\ q.present
        BY <1>0, <2>4, PackageFacts, Zenon
      <4> HIDE DEF u
      <4>2. q = [u EXCEPT !.quota = INIT_QUOTA]
        BY Zenon DEF ResetQuota, u
      <4> QED
        BY <3>2, <4>1, <4>2, Zenon DEF Package
    <3>4. u.counting => u.base = ToInt32(clock)
      BY <1>0, Zenon DEF UpdateQuota, Package
    <3>5. q.counting => GetModifiedTime(q, 0, clock) = 0
      BY <1>0, <3>3, <3>4, ModifiedIsElapsed, AccountingAssumption
    <3>6. Left(q, clock) = INIT_QUOTA - 0
      <4> HIDE DEF q
      <4> QED
        BY <3>3, <3>5, Zenon DEF Left
    <3>7. BaseKnown(q, clock)
      BY <3>2, <3>3, Zenon DEF Kept, BaseKnown
    <3> QED
      <4> HIDE DEF q
      <4> QED
        BY <2>1, <3>1, <3>3, <3>6, <3>7, AccountingAssumption DEF Good
  <2> QED
    BY <2>1, <2>2, <2>3, <2>4, Zenon
<1> QED
  BY <1>1, <1>2, Zenon

LEMMA GoodOpen ==
  ASSUME IInv, QuotaInv, ResetDayQuota, NEW a \in App \ ExemptedApp
  PROVE  /\ Good(OpenPackage(a), used'[a], clock)
         /\ Good(CurrentPackage(a), used'[a], clock)
         /\ \A S : Good(StartPackage(CurrentPackage(a), S, Exempted(a), clock), used'[a], clock)
<1>0. InService(clock) /\ clock \in Nat /\ Exempted(a) = 0
  BY Zenon DEF QuotaInv, InService, Exempted
<1>1. used'[a] \in Nat /\ Good(DayPackage(a), used'[a], clock)
  BY GoodDay, Zenon
<1>2. Good(OpenPackage(a), used'[a], clock) /\ OpenPackage(a).present
  BY <1>0, <1>1, GoodNew, NoPackageType, Zenon DEF OpenPackage
<1>3. Good(CurrentPackage(a), used'[a], clock) /\ CurrentPackage(a).present
  <2>1. Kept(OpenPackage(a), CurrentPackage(a), clock)
    BY <1>0, <1>2, UpdateKept, Zenon DEF CurrentPackage, Good
  <2> QED
    BY <1>1, <1>2, <2>1, GoodKept, Zenon DEF Kept
<1>4. ASSUME NEW S
      PROVE  Good(StartPackage(CurrentPackage(a), S, Exempted(a), clock), used'[a], clock)
  <2>1. Kept(CurrentPackage(a), StartPackage(CurrentPackage(a), S, 0, clock), clock)
    BY <1>0, <1>3, StartKept, Zenon DEF Good
  <2> QED
    BY <1>0, <1>1, <1>3, <2>1, GoodKept, Zenon
<1> QED
  BY <1>2, <1>3, <1>4, Zenon

LEMMA QuotaRequest ==
  ASSUME IInv, QuotaInv, NEW c \in App, NEW cb \in Callback, RequestSuspendDelay(c, cb)
  PROVE  QuotaInv'
<1>0. clock' = clock /\ ResetDayQuota
  BY Zenon DEF RequestSuspendDelay
<1>1. ASSUME NEW a \in App \ ExemptedApp
      PROVE  Good(pkg'[a], used'[a], clock)
  <2>1. \/ pkg'[a] = DayPackage(a)
        \/ pkg'[a] = OpenPackage(a)
        \/ pkg'[a] = CurrentPackage(a)
        \/ \E S : pkg'[a] = StartPackage(CurrentPackage(a), S, Exempted(a), clock)
    <3>1. CASE RefuseNotInPresetTime(c)
      BY <3>1, Zenon DEF RefuseNotInPresetTime
    <3>2. CASE RefuseExceedsThreshold(c)
      BY <3>2, Zenon DEF RefuseExceedsThreshold
    <3>3. CASE RefuseTimeInsufficient(c)
      BY <3>3, Zenon DEF RefuseTimeInsufficient
    <3>4. CASE Grant(c, cb)
      <4>1. PICK S : pkg' = [b \in App |-> IF b = c THEN StartPackage(CurrentPackage(c), S, Exempted(c), clock)
                                           ELSE DayPackage(b)]
        BY <3>4, Zenon DEF Grant
      <4> QED
        BY <4>1, Zenon
    <3> QED
      BY <3>1, <3>2, <3>3, <3>4, Zenon DEF RequestSuspendDelay
  <2> QED
    BY <1>0, <2>1, GoodDay, GoodOpen, ZenonT(30)
<1> QED
  BY <1>0, <1>1, Zenon DEF QuotaInv

\* A step that charges every package as before.
LEMMA QuotaKept ==
  ASSUME IInv, QuotaInv, UNCHANGED <<clock, used>>,
         \A a \in App \ ExemptedApp :
           pkg'[a] = pkg[a] \/ (pkg[a].present /\ Kept(pkg[a], pkg'[a], clock))
  PROVE  QuotaInv'
<1>1. used \in [App -> Nat]
  BY Zenon DEF IInv, TypeOK
<1> QED
  BY <1>1, GoodKept, Zenon DEF QuotaInv

LEMMA QuotaTick ==
  ASSUME MaxTime < BootTime + Int32Half, IInv, QuotaInv, Tick
  PROVE  QuotaInv'
<1>0. /\ clock' = clock + 1 /\ pkg' = pkg /\ clock \in Nat
      /\ used' = [a \in App |-> IF AnyCounted(a) THEN used[a] + 1 ELSE used[a]]
      /\ used \in [App -> Nat] /\ BootTime <= clock
      /\ CountedIsCharged
  BY Zenon DEF Tick, IInv, TypeOK, Inv, QuotaInv, InService, accounts
<1>1. InService(clock')
  BY <1>0, TransientAssumption, AccountingAssumption DEF InService, Tick
<1>2. ASSUME NEW a \in App \ ExemptedApp
      PROVE  Good(pkg[a], used'[a], clock')
  <2> DEFINE p == pkg[a]
  <2>1. Good(p, used[a], clock) /\ p \in Package
    BY Zenon DEF QuotaInv, Good
  <2>2. used[a] \in Nat /\ used'[a] \in Nat /\ (p.counting => used'[a] <= used[a] + 1)
        /\ (~p.counting => used'[a] = used[a])
    BY <1>0, SMTT(30) DEF CountedIsCharged
  <2>3. BaseKnown(p, clock')
    BY <1>0, <2>1, TransientAssumption DEF Good, BaseKnown
  <2> SUFFICES Good(p, used'[a], clock')
    BY Zenon
  <2> HIDE DEF p
  <2>4. CASE p.counting
    <3>1. PICK t \in Nat : BootTime <= t /\ t <= clock /\ p.base = ToInt32(t)
      BY <2>1, <2>4, Zenon DEF Good, BaseKnown
    <3>2. GetModifiedTime(p, 0, clock) = clock - t /\ GetModifiedTime(p, 0, clock') = clock' - t
      <4>1. clock - t < Int32Half /\ clock' - t < Int32Half /\ t <= clock'
        BY <1>0, <1>1, <3>1, AccountingAssumption, TransientAssumption DEF InService
      <4> QED
        BY <1>0, <2>1, <3>1, <4>1, ModifiedIsElapsed, SMTT(30)
    <3>3. Left(p, clock) = p.quota - (clock - t) /\ Left(p, clock') = p.quota - (clock' - t)
      BY <2>4, <3>2, Zenon DEF Left
    <3>4. p.quota \in Nat
      BY <1>0, <2>1, LeftType, Zenon
    <3> QED
      BY <1>0, <2>1, <2>2, <2>3, <2>4, <3>1, <3>3, <3>4, AccountingAssumption, SMTT(30) DEF Good
  <2>5. CASE ~p.counting
    <3>1. Left(p, clock') = Left(p, clock)
      BY <2>5, Zenon DEF Left
    <3> QED
      BY <2>1, <2>2, <2>3, <2>5, <3>1, Zenon DEF Good
  <2> QED
    BY <2>4, <2>5, Zenon
<1> QED
  BY <1>0, <1>1, <1>2, Zenon DEF QuotaInv


LEMMA QuotaStep ==
  ASSUME MaxTime < BootTime + Int32Half, IInv, QuotaInv, [Next]_vars
  PROVE  QuotaInv'
<1>0. /\ InService(clock) /\ pkg \in [App -> Package]
      /\ \A a \in App \ ExemptedApp : BaseKnown(pkg[a], clock) /\ Exempted(a) = 0
  BY Zenon DEF QuotaInv, IInv, TypeOK, Good, Exempted
<1>1. CASE Cancels
  <2>0. UNCHANGED <<clock, used>>
    BY <1>1, Zenon DEF Cancels
  <2>1. PICK S \in SUBSET Ids : CancelLocked(S)
    BY <1>1, Zenon DEF Cancels
  <2>2. ASSUME NEW a \in App \ ExemptedApp
        PROVE  pkg'[a] = pkg[a] \/ (pkg[a].present /\ Kept(pkg[a], pkg'[a], clock))
    <3>1. pkg'[a] = RemovePackage(pkg[a], reqs[a], RemoveOf(a, S), 0, clock)
      BY <1>0, <2>1, Zenon DEF CancelLocked
    <3>2. CASE reqs[a] = {}
      BY <3>1, <3>2, Zenon DEF RemovePackage
    <3>3. CASE reqs[a] # {}
      <4>1. pkg[a].present
        BY <3>3, Zenon DEF IInv, Inv, ListedIsPresent
      <4> QED
        <5>1. pkg[a] \in Package /\ InService(clock) /\ BaseKnown(pkg[a], clock)
          BY <1>0, ZenonT(30)
        <5>2. Kept(pkg[a], RemovePackage(pkg[a], reqs[a], RemoveOf(a, S), 0, clock), clock)
          BY <5>1, RemoveKept, Zenon
        <5> QED
          BY <3>1, <4>1, <5>2, Zenon
    <3> QED
      BY <3>2, <3>3, Zenon
  <2> QED
    BY <2>0, <2>2, QuotaKept, Zenon
<1>2. CASE Starts
  <2>0. UNCHANGED <<clock, used>>
    BY <1>2, Zenon DEF Starts
  <2>1. PICK A \in SUBSET App : StartAccounting(A) /\ \A a \in A : MayTryStart(a)
    BY <1>2, Zenon DEF Starts
  <2>2. ASSUME NEW a \in App \ ExemptedApp
        PROVE  pkg'[a] = pkg[a] \/ (pkg[a].present /\ Kept(pkg[a], pkg'[a], clock))
    <3>1. pkg'[a] = IF a \in A THEN StartPackage(pkg[a], reqs[a], 0, clock) ELSE pkg[a]
      BY <1>0, <2>1, Zenon DEF StartAccounting
    <3>2. Kept(pkg[a], StartPackage(pkg[a], reqs[a], 0, clock), clock)
      BY <1>0, StartKept, Zenon
    <3> QED
      BY <2>1, <3>1, <3>2, Zenon DEF MayTryStart
  <2> QED
    BY <2>0, <2>2, QuotaKept, Zenon
<1>3. CASE Stops
  <2>0. UNCHANGED <<clock, used>>
    BY <1>3, Zenon DEF Stops
  <2>1. PICK A \in SUBSET App : StopAccountingAll(A) /\ \A a \in A : pkg[a].present
    BY <1>3, Zenon DEF Stops
  <2>2. ASSUME NEW a \in App \ ExemptedApp
        PROVE  pkg'[a] = pkg[a] \/ (pkg[a].present /\ Kept(pkg[a], pkg'[a], clock))
    <3>1. pkg'[a] = IF a \in A THEN StopPackage(pkg[a], 0, clock) ELSE pkg[a]
      BY <1>0, <2>1, Zenon DEF StopAccountingAll
    <3>2. Kept(pkg[a], StopPackage(pkg[a], 0, clock), clock)
      BY <1>0, StopKept, Zenon
    <3> QED
      BY <2>1, <3>1, <3>2, Zenon
  <2> QED
    BY <2>0, <2>2, QuotaKept, Zenon
<1>4. ASSUME NEW c \in App, GetQuota(c)
      PROVE  QuotaInv'
  <2>0. UNCHANGED <<clock, used>> /\ pkg[c].present
        /\ pkg' = [pkg EXCEPT ![c] = UpdateQuota(@, Exempted(c), clock)]
    BY <1>4, Zenon DEF GetQuota
  <2>1. ASSUME NEW a \in App \ ExemptedApp
        PROVE  pkg'[a] = pkg[a] \/ (pkg[a].present /\ Kept(pkg[a], pkg'[a], clock))
    <3>1. Kept(pkg[a], UpdateQuota(pkg[a], 0, clock), clock)
      BY <1>0, UpdateKept, Zenon
    <3> QED
      BY <1>0, <2>0, <3>1, Zenon
  <2> QED
    BY <2>0, <2>1, QuotaKept, Zenon
<1>5. CASE Timers \/ (Passes /\ UNCHANGED <<clock, used>>)
  <2>1. UNCHANGED <<clock, used, pkg>>
    BY <1>5, Zenon DEF Timers, Passes, HandleRequestExpired, TakeTimer, TakeWatchdog, accounts
  <2> QED
    BY <2>1, Zenon DEF QuotaInv
<1> QED
  BY Zenon, <1>1, <1>2, <1>3, <1>4, <1>5, NextKinds, QuotaRequest, QuotaTick
     DEF StepKinds, Requests, Queries, Passes

LEMMA QuotaInitially == Init => QuotaInv
<1> SUFFICES ASSUME Init
             PROVE  QuotaInv
  BY Zenon
<1>1. InService(clock)
  BY TransientAssumption, AccountingAssumption, SMTT(30) DEF Init, InService
<1>2. ASSUME NEW a \in App \ ExemptedApp
      PROVE  Good(pkg[a], used[a], clock)
  <2>1. pkg[a] = NoPackage /\ used[a] = 0
    BY Zenon DEF Init
  <2>2. ~NoPackage.counting /\ NoPackage.quota = INIT_QUOTA
    BY Zenon DEF NoPackage
  <2>3. Left(NoPackage, clock) = INIT_QUOTA - 0
    BY <2>2, Zenon DEF Left
  <2> QED
    BY <2>1, <2>2, <2>3, NoPackageType, AccountingAssumption, SMTT(30) DEF Good, BaseKnown
<1> QED
  BY <1>1, <1>2, Zenon DEF QuotaInv

\* No sequence of starts, stops, queries and daily resets lets counted time go
\* uncharged, wherever the uptime is, as long as the service has not run longer than a
\* 32-bit difference of times can tell.
THEOREM CountedTimeIsAlwaysSpent ==
  ASSUME MaxRequests + 1 < IntMax, MaxTime < BootTime + Int32Half
  PROVE  Spec => []CountedTimeIsSpent
<1>1. IInv /\ QuotaInv /\ [Next]_vars => QuotaInv'
  BY QuotaStep, Zenon
<1>2. QuotaInv => CountedTimeIsSpent
  BY Zenon DEF QuotaInv, Good, CountedTimeIsSpent, QuotaLeft, Left
<1> QED
  BY <1>1, <1>2, QuotaInitially, InvariantHolds, PTL DEF Spec
=============================================================================
