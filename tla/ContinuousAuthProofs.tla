------------------------- MODULE ContinuousAuthProofs -------------------------
(***************************************************************************)
(* Proofs about ContinuousAuth, for any number of applications, processes, *)
(* requests and banners.                                                   *)
(***************************************************************************)
EXTENDS ContinuousAuth, TLAPS

(***************************************************************************)
(* The inductive invariant.  TypeOK says nothing of the events on their    *)
(* way; what they carry decides what the records become.                   *)
(***************************************************************************)
Events ==
    ({"button"} \X Apps \X Granted)
    \cup ({"dialog"} \X Apps \X (Granted \cup {"DENIED", "QUIT"}))
    \cup ({"canceled", "stopped"} \X Apps \X {"none"})
    \cup ({"died"} \X Callbacks \X {"none"})

Typed == TypeOK /\ posted \subseteq Events

\* A grant on its way to the manager was chosen, as are those that have arrived.
Grants ==
    /\ GrantsAreChosen
    /\ \A e \in posted : e[1] \in {"button", "dialog"} /\ e[3] \in Granted => e[3] \in chosen[e[2]]

\* The request of a callback has been made.
Made(c, p) == c[2] < p[c[1]].gen \/ (c[2] = p[c[1]].gen /\ c[3] <= p[c[1]].n)

\* A registered callback has not been answered, and belongs to the application it
\* is registered for; so an answer to one leaves the others unanswered.
Once ==
    /\ ~twice
    /\ \A c \in given : Made(c, proc)
    /\ \A a \in Apps : cbs[a] # NoCallback => cbs[a][1] = a /\ Made(cbs[a], proc) /\ cbs[a] \notin given

-----------------------------------------------------------------------------
\* What a request does to the manager: the user is asked, or an answer that is
\* known is given; a grant among them is the one of the record.
LEMMA RequestOutcome ==
    ASSUME Typed, NEW a \in Apps, NEW c, NEW api, NEW bad, NEW ok,
           RequestAuthFromUserInner(a, c, api, bad, ok)
    PROVE  \/ Asked(a, c, api, bad)
           \/ \E answer \in UserAuthResult \cup {"none"} :
                /\ NotAsked(c, answer)
                /\ answer \in Granted => answer = rec[a].res
                /\ UNCHANGED <<nidx, shade>> \/ PublishBannerNotification(a, bad)
<1>1. rec[a].res \in UserAuthResult \cup {"none"}
  BY Zenon DEF Typed, TypeOK, Record
<1> QED
  BY <1>1, Zenon DEF RequestAuthFromUserInner, UserAuthResult, Granted

LEMMA NoRecordTyped == NoRecord \in Record /\ NoRecords \in [Apps -> Record]
BY DEF NoRecord, Record, NoRecords

LEMMA TypedInit == Init => Typed
<1> SUFFICES ASSUME Init PROVE Typed
  BY Zenon
<1>1. proc \in [Apps -> [gen : Nat, alive : BOOLEAN, n : Nat, does : {"idle", "opens"}]]
  BY Zenon DEF Init
<1>2. cbs \in [Apps -> Callbacks \cup {NoCallback}]
  BY Zenon DEF Init, NoCallbacks
<1>3. chosen \in [Apps -> SUBSET Granted]
  BY Zenon DEF Init
<1>4. rec \in [Apps -> Record] /\ saved \in [Apps -> Record] /\ backup \in [Apps -> Record]
  BY NoRecordTyped, Zenon DEF Init
<1> QED
  BY <1>1, <1>2, <1>3, <1>4, Zenon DEF Init, Typed, TypeOK

\* Parts of the handlers keep the types.
LEMMA SetRecordTyped ==
    ASSUME Typed, NEW a \in Apps, NEW r \in Record, SetRecord(a, r)
    PROVE  rec' \in [Apps -> Record] /\ saved' \in [Apps -> Record] /\ damaged' \in BOOLEAN
BY Zenon DEF Typed, TypeOK, SetRecord

LEMMA AnswerTyped ==
    ASSUME Typed, NEW a \in Apps, NEW res \in UserAuthResult, Answer(a, res)
    PROVE  /\ cbs' \in [Apps -> Callbacks \cup {NoCallback}]
           /\ given' \subseteq Callbacks /\ twice' \in BOOLEAN
           /\ jsq' \subseteq Callbacks \X UserAuthResult
<1>1. cbs' \in [Apps -> Callbacks \cup {NoCallback}]
  BY Zenon DEF Typed, TypeOK, Answer
<1>2. CASE cbs[a] = NoCallback
  BY <1>1, <1>2, Zenon DEF Typed, TypeOK, Answer, ansVars
<1>3. CASE cbs[a] # NoCallback
  <2>1. cbs[a] \in Callbacks
    BY <1>3, Zenon DEF Typed, TypeOK
  <2>2. OnExpiredAuth(cbs[a], res)
    BY <1>3, Zenon DEF Answer
  <2> QED BY <1>1, <2>1, <2>2 DEF Typed, TypeOK, OnExpiredAuth
<1> QED BY <1>2, <1>3

LEMMA WithdrawTyped ==
    ASSUME Typed, NEW a \in Apps, NEW e, Withdraw(a, e)
    PROVE  shade' \subseteq Apps \X Nat /\ posted' \subseteq Events
<1>1. shade' \subseteq Apps \X Nat
  BY Zenon DEF Typed, TypeOK, Withdraw
<1>2. <<"canceled", a, "none">> \in Events
  BY Zenon DEF Events
<1> QED BY <1>1, <1>2 DEF Typed, Withdraw

LEMMA TypedRequest == Typed /\ RequestAuth => Typed'
<1> SUFFICES ASSUME Typed, RequestAuth PROVE Typed'
  BY Zenon
<1>0. PICK a \in Apps, api \in Apis, bad \in Refusals, ok \in {"told", "asked", "error"} :
        LET c == <<a, proc[a].gen, proc[a].n + 1>>
        IN  /\ RequestAuthFromUserInner(a, c, api, bad, ok)
            /\ insts' = IF ok = "error" THEN insts ELSE insts \cup {c}
            /\ proc' = [proc EXCEPT ![a].n = @ + 1,
                                    ![a].does = IF ok = "asked" /\ api = "dialog" THEN "opens" ELSE "idle"]
            /\ UNCHANGED <<ready, backup, dialogs, posted, chosen>>
  BY ZenonT(30) DEF RequestAuth
<1> DEFINE c == <<a, proc[a].gen, proc[a].n + 1>>
<1>1. c \in Callbacks
  BY DEF Typed, TypeOK, Callbacks
<1>2. proc' \in [Apps -> [gen : Nat, alive : BOOLEAN, n : Nat, does : {"idle", "opens"}]]
  <2> DEFINE does == IF ok = "asked" /\ api = "dialog" THEN "opens" ELSE "idle"
  <2>1. does \in {"idle", "opens"}
    BY Zenon
  <2>2. proc' = [proc EXCEPT ![a].n = @ + 1, ![a].does = does]
    BY <1>0, Zenon
  <2> HIDE DEF does
  <2>3. /\ proc \in [Apps -> [gen : Nat, alive : BOOLEAN, n : Nat, does : {"idle", "opens"}]]
        /\ proc[a].n + 1 \in Nat
    BY DEF Typed, TypeOK
  <2>4. DOMAIN proc' = Apps /\ \A b \in Apps \ {a} : proc'[b] = proc[b]
    BY <2>2, <2>3, Zenon
  <2>5. proc'[a] = [gen |-> proc[a].gen, alive |-> proc[a].alive, n |-> proc[a].n + 1, does |-> does]
    BY <2>2, <2>3, Zenon
  <2> QED BY <2>1, <2>2, <2>3, <2>4, <2>5
<1>3. insts' \subseteq Callbacks
  BY <1>0, <1>1, Zenon DEF Typed, TypeOK
<1> HIDE DEF c
<1>4. RequestAuthFromUserInner(a, c, api, bad, ok)
  BY <1>0, Zenon DEF c
<1>5. ASSUME PublishBannerNotification(a, bad)
      PROVE  nidx' \in Nat /\ shade' \subseteq Apps \X Nat
  BY <1>5 DEF Typed, TypeOK, PublishBannerNotification
<1>6. CASE Asked(a, c, api, bad)
  <2>1. cbs' \in [Apps -> Callbacks \cup {NoCallback}]
    BY <1>1, <1>6, Zenon DEF Typed, TypeOK, Asked
  <2>2. nidx' \in Nat /\ shade' \subseteq Apps \X Nat
    BY <1>5, <1>6, Zenon DEF Typed, TypeOK, Asked
  <2>3. [res |-> "NOT_DETERMINED", nid |-> IF api = "banner" THEN nidx + 1 ELSE -1] \in Record
    BY DEF Typed, TypeOK, Record, UserAuthResult
  <2>4. rec' \in [Apps -> Record] /\ saved' \in [Apps -> Record] /\ damaged' \in BOOLEAN
    BY <1>6, <2>3, Zenon DEF Typed, TypeOK, Asked
  <2> QED BY <1>0, <1>2, <1>3, <1>6, <2>1, <2>2, <2>4 DEF Typed, TypeOK, Asked, ansVars
<1>7. ASSUME NEW answer \in UserAuthResult \cup {"none"}, NotAsked(c, answer),
             UNCHANGED <<nidx, shade>> \/ PublishBannerNotification(a, bad)
      PROVE  Typed'
  <2>1. nidx' \in Nat /\ shade' \subseteq Apps \X Nat
    BY <1>5, <1>7, Zenon DEF Typed, TypeOK
  <2>2. /\ given' \subseteq Callbacks /\ twice' \in BOOLEAN
        /\ jsq' \subseteq Callbacks \X UserAuthResult
    <3>1. CASE answer = "none"
      BY <1>7, <3>1, Zenon DEF Typed, TypeOK, NotAsked
    <3>2. CASE answer # "none"
      <4>1. given' = given \cup {c} /\ twice' = (twice \/ c \in given) /\ jsq' = jsq \cup {<<c, answer>>}
        BY <1>7, <3>2, Zenon DEF NotAsked
      <4>2. <<c, answer>> \in Callbacks \X UserAuthResult
        BY <1>1, <3>2, Zenon
      <4> QED BY <1>1, <4>1, <4>2 DEF Typed, TypeOK
    <3> QED BY <3>1, <3>2
  <2> QED BY <1>0, <1>2, <1>3, <1>7, <2>1, <2>2 DEF Typed, TypeOK, NotAsked
<1> QED BY <1>4, <1>6, <1>7, RequestOutcome

LEMMA TypedStep == Typed /\ [Next]_vars => Typed'
<1> SUFFICES ASSUME Typed, [Next]_vars PROVE Typed'
  BY Zenon
<1> USE NoRecordTyped
<1>1. CASE RequestAuth
  BY <1>1, TypedRequest, Zenon
<1>2. CASE CreateUIExtension
  BY <1>2 DEF Typed, TypeOK, CreateUIExtension
<1>3. CASE RemoveAuthRecordInner
  <2>1. PICK a \in Apps :
          /\ IF ~ready THEN UNCHANGED <<rec, cbs, saved, damaged>>
             ELSE /\ cbs' = [cbs EXCEPT ![a] = NoCallback]
                  /\ IF rec[a] = NoRecord THEN UNCHANGED <<rec, saved, damaged>> ELSE SetRecord(a, NoRecord)
          /\ insts' = insts \ {<<a, proc[a].gen, proc[a].n>>}
          /\ proc' = [proc EXCEPT ![a].does = "idle"]
          /\ UNCHANGED <<ready, backup, nidx, shade, dialogs, posted, jsq, chosen, given, twice>>
    BY <1>3, Zenon DEF RemoveAuthRecordInner
  <2>2. rec' \in [Apps -> Record] /\ saved' \in [Apps -> Record] /\ damaged' \in BOOLEAN
    BY <2>1, SetRecordTyped, Zenon DEF Typed, TypeOK
  <2>3. cbs' \in [Apps -> Callbacks \cup {NoCallback}]
    BY <2>1, Zenon DEF Typed, TypeOK
  <2> QED BY <2>1, <2>2, <2>3, Zenon DEF Typed, TypeOK
<1>4. CASE SetAuthCallback
  BY <1>4 DEF Typed, TypeOK, SetAuthCallback
<1>5. CASE ClickBanner
  BY <1>5 DEF Typed, TypeOK, ClickBanner, appVars, Events
<1>6. CASE SwipeBanner
  BY <1>6 DEF Typed, TypeOK, SwipeBanner, appVars, Events
<1>7. CASE EnableNotification
  BY <1>7 DEF Typed, TypeOK, EnableNotification, appVars, Events
<1>8. CASE SetBackgroundTaskState
  <2>1. PICK a \in Apps, res \in Choices :
          /\ SetRecord(a, [rec[a] EXCEPT !.res = res])
          /\ chosen' = [chosen EXCEPT ![a] = @ \cup ({res} \cap Granted)]
    BY <1>8, Zenon DEF SetBackgroundTaskState
  <2>2. [rec[a] EXCEPT !.res = res] \in Record
    BY AuthAssumption, Zenon DEF Typed, TypeOK, Record
  <2>3. rec' \in [Apps -> Record] /\ saved' \in [Apps -> Record] /\ damaged' \in BOOLEAN
    BY <2>1, <2>2, SetRecordTyped, Zenon
  <2> QED BY <1>8, <2>1, <2>3, Zenon DEF Typed, TypeOK, SetBackgroundTaskState, appVars
<1>9. ASSUME NEW a \in Apps, OnBannerNotificationActionButtonClick(a)
      PROVE  Typed'
  <2>1. PICK e \in posted :
          /\ e[2] = a /\ e[1] = "button"
          /\ IF rec[a] = NoRecord
             THEN Handled(e) /\ UNCHANGED <<rec, cbs, saved, damaged, shade, ansVars>>
             ELSE /\ SetRecord(a, [rec[a] EXCEPT !.res = e[3]])
                  /\ IF rec[a].nid = -1 THEN UNCHANGED <<shade, cbs, ansVars>> /\ Handled(e)
                     ELSE Withdraw(a, e) /\ Answer(a, e[3])
          /\ UNCHANGED <<ready, backup, nidx, dialogs, proc, insts, chosen>>
    BY <1>9, Zenon DEF OnBannerNotificationActionButtonClick
  <2>2. e[3] \in UserAuthResult
    BY <2>1, Zenon DEF Typed, Events, UserAuthResult
  <2>3. [rec[a] EXCEPT !.res = e[3]] \in Record
    BY <2>2, Zenon DEF Typed, TypeOK, Record
  <2>4. rec' \in [Apps -> Record] /\ saved' \in [Apps -> Record] /\ damaged' \in BOOLEAN
    BY <2>1, <2>3, SetRecordTyped, Zenon DEF Typed, TypeOK
  <2>5. shade' \subseteq Apps \X Nat /\ posted' \subseteq Events
    BY <2>1, WithdrawTyped, Zenon DEF Typed, TypeOK, Handled
  <2>6. /\ cbs' \in [Apps -> Callbacks \cup {NoCallback}]
        /\ given' \subseteq Callbacks /\ twice' \in BOOLEAN
        /\ jsq' \subseteq Callbacks \X UserAuthResult
    BY <2>1, <2>2, AnswerTyped, Zenon DEF Typed, TypeOK, ansVars
  <2> QED BY <2>1, <2>4, <2>5, <2>6 DEF Typed, TypeOK
<1>10. ASSUME NEW a \in Apps, OnPermissionDialogButtonClickInner(a)
       PROVE  Typed'
  <2>1. PICK e \in posted :
          /\ e[2] = a /\ e[1] = "dialog"
          /\ Handled(e)
          /\ IF e[3] = "QUIT" \/ rec[a] = NoRecord THEN UNCHANGED <<rec, cbs, saved, damaged, ansVars>>
             ELSE SetRecord(a, [rec[a] EXCEPT !.res = e[3]]) /\ Answer(a, e[3])
          /\ UNCHANGED <<ready, backup, nidx, shade, dialogs, proc, insts, chosen>>
    BY <1>10, Zenon DEF OnPermissionDialogButtonClickInner
  <2>2. CASE e[3] = "QUIT" \/ rec[a] = NoRecord
    BY <2>1, <2>2, Zenon DEF Typed, TypeOK, Handled, ansVars
  <2>3. CASE ~(e[3] = "QUIT" \/ rec[a] = NoRecord)
    <3>1. e[3] \in UserAuthResult
      BY <2>1, <2>3, Zenon DEF Typed, Events, UserAuthResult
    <3>2. [rec[a] EXCEPT !.res = e[3]] \in Record
      BY <3>1, Zenon DEF Typed, TypeOK, Record
    <3>3. rec' \in [Apps -> Record] /\ saved' \in [Apps -> Record] /\ damaged' \in BOOLEAN
      BY <2>1, <2>3, <3>2, SetRecordTyped, Zenon
    <3>4. /\ cbs' \in [Apps -> Callbacks \cup {NoCallback}]
          /\ given' \subseteq Callbacks /\ twice' \in BOOLEAN
          /\ jsq' \subseteq Callbacks \X UserAuthResult
      BY <2>1, <2>3, <3>1, AnswerTyped, Zenon
    <3> QED BY <2>1, <3>3, <3>4 DEF Typed, TypeOK, Handled
  <2> QED BY <2>2, <2>3
<1>11. CASE StopBannerContinuousTaskByUserInner
  <2>1. PICK e \in posted :
          /\ e[1] = "canceled"
          /\ Handled(e)
          /\ IF rec[e[2]] = NoRecord \/ rec[e[2]].res \in Granted THEN UNCHANGED <<rec, saved, damaged>>
             ELSE SetRecord(e[2], NoRecord)
          /\ UNCHANGED <<ready, cbs, backup, nidx, shade, dialogs, appVars, chosen, given, twice>>
    BY <1>11, Zenon DEF StopBannerContinuousTaskByUserInner
  <2>2. e[2] \in Apps
    BY <2>1, Zenon DEF Typed, Events
  <2>3. rec' \in [Apps -> Record] /\ saved' \in [Apps -> Record] /\ damaged' \in BOOLEAN
    BY <2>1, <2>2, SetRecordTyped, Zenon DEF Typed, TypeOK
  <2> QED BY <2>1, <2>3 DEF Typed, TypeOK, Handled, appVars
<1>12. CASE HandleAuthExpiredCallbackDeathInner
  <2>1. PICK e \in posted :
          /\ IF \E a \in Apps : cbs[a] = e[2]
             THEN LET a == CHOOSE a \in Apps : cbs[a] = e[2]
                  IN  /\ cbs' = [cbs EXCEPT ![a] = NoCallback]
                      /\ IF rec[a] = NoRecord THEN UNCHANGED <<rec, saved, damaged, shade>> /\ Handled(e)
                         ELSE SetRecord(a, NoRecord) /\ Withdraw(a, e)
             ELSE Handled(e) /\ UNCHANGED <<rec, cbs, saved, damaged, shade>>
          /\ UNCHANGED <<ready, backup, nidx, dialogs, appVars, chosen, given, twice>>
    BY <1>12, Zenon DEF HandleAuthExpiredCallbackDeathInner
  <2>2. CASE \E a \in Apps : cbs[a] = e[2]
    <3> DEFINE a == CHOOSE a \in Apps : cbs[a] = e[2]
    <3>1. a \in Apps
      BY <2>2, Zenon
    <3>2. /\ cbs' = [cbs EXCEPT ![a] = NoCallback]
          /\ IF rec[a] = NoRecord THEN UNCHANGED <<rec, saved, damaged, shade>> /\ Handled(e)
             ELSE SetRecord(a, NoRecord) /\ Withdraw(a, e)
      BY <2>1, <2>2, Zenon
    <3> HIDE DEF a
    <3>3. rec' \in [Apps -> Record] /\ saved' \in [Apps -> Record] /\ damaged' \in BOOLEAN
      BY <3>1, <3>2, SetRecordTyped, Zenon DEF Typed, TypeOK
    <3>4. shade' \subseteq Apps \X Nat /\ posted' \subseteq Events
      BY <3>1, <3>2, WithdrawTyped, Zenon DEF Typed, TypeOK, Handled
    <3>5. cbs' \in [Apps -> Callbacks \cup {NoCallback}]
      BY <3>2, Zenon DEF Typed, TypeOK
    <3> QED BY <2>1, <3>3, <3>4, <3>5 DEF Typed, TypeOK, appVars
  <2>3. CASE ~ \E a \in Apps : cbs[a] = e[2]
    BY <2>1, <2>3, Zenon DEF Typed, TypeOK, Handled, appVars
  <2> QED BY <2>2, <2>3
<1>13. CASE OnAppStopped
  <2>1. rec' \in [Apps -> Record] /\ saved' \in [Apps -> Record] /\ damaged' \in BOOLEAN
    <3>1. PICK over : /\ rec' = [a \in Apps |-> IF a \in over THEN NoRecord ELSE rec[a]]
                      /\ IF over = {} THEN UNCHANGED <<saved, damaged>> ELSE saved' = rec' /\ damaged' = FALSE
      BY <1>13, Zenon DEF OnAppStopped
    <3>2. rec' \in [Apps -> Record]
      BY <3>1, Zenon DEF Typed, TypeOK
    <3> QED BY <3>1, <3>2, Zenon DEF Typed, TypeOK
  <2> QED BY <1>13, <2>1 DEF OnAppStopped, Typed, TypeOK, Handled, appVars
<1>14. CASE OnBundleInfoChanged
  <2>1. rec' \in [Apps -> Record] /\ saved' \in [Apps -> Record] /\ damaged' \in BOOLEAN
    BY <1>14, SetRecordTyped, Zenon DEF OnBundleInfoChanged
  <2> QED BY <1>14, <2>1 DEF OnBundleInfoChanged, Typed, TypeOK, appVars
<1>15. CASE AppDies
  <2>1. PICK a \in Apps :
          /\ proc' = [proc EXCEPT ![a].alive = FALSE, ![a].does = "idle"]
          /\ insts' = {c \in insts : c[1] # a}
          /\ jsq' = {x \in jsq : x[1][1] # a}
          /\ dialogs' = dialogs \ {a}
          /\ posted' = IF ~ready THEN posted
                       ELSE posted \cup {<<"stopped", a, "none">>}
                              \cup {<<"died", c, "none">> : c \in {cbs[a]} \ {NoCallback}}
                              \cup (IF a \in dialogs THEN {<<"dialog", a, "QUIT">>} ELSE {})
          /\ UNCHANGED <<ready, rec, cbs, saved, backup, nidx, shade, chosen, given, twice, damaged>>
    BY <1>15, Zenon DEF AppDies
  <2>2. \A c \in {cbs[a]} \ {NoCallback} : c \in Callbacks
    BY Zenon DEF Typed, TypeOK
  <2>3. posted' \subseteq Events
    BY <2>1, <2>2 DEF Typed, Events
  <2>4. proc' \in [Apps -> [gen : Nat, alive : BOOLEAN, n : Nat, does : {"idle", "opens"}]]
    BY <2>1, ZenonT(30) DEF Typed, TypeOK
  <2> QED BY <2>1, <2>3, <2>4 DEF Typed, TypeOK
<1>16. CASE AppStarts
  BY <1>16 DEF Typed, TypeOK, AppStarts
<1>17. CASE Crash
  <2>1. NoCallbacks \in [Apps -> Callbacks \cup {NoCallback}]
    BY Zenon DEF NoCallbacks
  <2> QED BY <1>17, <2>1, Zenon DEF Typed, TypeOK, Crash, usrVars, appVars
<1>18. CASE HandlePersistenceData
  <2>1. rec' \in [Apps -> Record]
    BY <1>18, Zenon DEF Typed, TypeOK, HandlePersistenceData, Merge
  <2> QED BY <1>18, <2>1 DEF Typed, TypeOK, HandlePersistenceData, usrVars, appVars
<1>19. CASE OnBackup
  BY <1>19, Zenon DEF Typed, TypeOK, OnBackup, svcVars, appVars
<1>20. CASE OnRestore
  <2>1. Merge(rec, backup) \in [Apps -> Record]
    BY Zenon DEF Typed, TypeOK, Merge
  <2> QED BY <1>20, <2>1, Zenon DEF Typed, TypeOK, OnRestore, usrVars, appVars
<1>21. CASE UNCHANGED vars
  BY <1>21, Zenon DEF Typed, TypeOK, vars
<1> QED
  BY <1>1, <1>2, <1>3, <1>4, <1>5, <1>6, <1>7, <1>8, <1>9, <1>10, <1>11, <1>12, <1>13, <1>14,
     <1>15, <1>16,
     <1>17, <1>18, <1>19, <1>20, <1>21, Zenon
     DEF Next, Handling, User, Client, System

\* The state has its types in every behaviour, whatever requests, answers, late
\* events, deaths, crashes and restored files come.
THEOREM AuthTyped == Spec => []TypeOK
<1>1. Typed => TypeOK
  BY Zenon DEF Typed
<1> QED BY <1>1, TypedInit, TypedStep, PTL DEF Spec

-----------------------------------------------------------------------------
(* Answers.                                                                 *)

Later(p, q) == \A a \in Apps : q[a].gen > p[a].gen \/ (q[a].gen = p[a].gen /\ q[a].n >= p[a].n)

LEMMA MadeStays ==
    ASSUME Typed, Typed', Later(proc, proc'), NEW c \in Callbacks, Made(c, proc)
    PROVE  Made(c, proc')
<1>1. c[1] \in Apps /\ c[2] \in Nat /\ c[3] \in Nat
  BY Zenon DEF Callbacks
<1>2. /\ proc[c[1]].gen \in Nat /\ proc[c[1]].n \in Nat
      /\ proc'[c[1]].gen \in Nat /\ proc'[c[1]].n \in Nat
  BY <1>1, Zenon DEF Typed, TypeOK
<1> QED BY <1>1, <1>2 DEF Made, Later

\* Steps that answer nobody and register no callback.
LEMMA OnceKept ==
    ASSUME Typed, Typed', Once, Later(proc, proc'), UNCHANGED <<given, twice>>,
           \A a \in Apps : cbs'[a] = cbs[a] \/ cbs'[a] = NoCallback
    PROVE  Once'
<1>1. \A c \in given' : c \in Callbacks /\ Made(c, proc')
  BY MadeStays, Zenon DEF Once, Typed, TypeOK
<1>2. ASSUME NEW a \in Apps, cbs'[a] # NoCallback
      PROVE  cbs'[a][1] = a /\ Made(cbs'[a], proc') /\ cbs'[a] \notin given'
  <2>1. cbs'[a] = cbs[a] /\ cbs[a] \in Callbacks
    BY <1>2, Zenon DEF Typed, TypeOK
  <2> QED BY <1>2, <2>1, MadeStays DEF Once
<1> QED BY <1>1, <1>2 DEF Once

LEMMA SameIsLater == ASSUME Typed PROVE Later(proc, proc)
BY DEF Typed, TypeOK, Later

LEMMA OnceAnswer ==
    ASSUME Typed, Typed', Once, NEW a \in Apps, NEW res, Answer(a, res), UNCHANGED proc
    PROVE  Once'
<1>1. CASE cbs[a] = NoCallback
  <2>1. \A b \in Apps : cbs'[b] = cbs[b] \/ cbs'[b] = NoCallback
    BY Zenon DEF Answer, Typed, TypeOK
  <2> QED BY <1>1, <2>1, OnceKept, SameIsLater DEF Answer, ansVars
<1>2. CASE cbs[a] # NoCallback
  <2>1. cbs' = [cbs EXCEPT ![a] = NoCallback] /\ given' = given \cup {cbs[a]} /\ twice' = (twice \/ cbs[a] \in given)
    BY <1>2, Zenon DEF Answer, OnExpiredAuth
  <2>2. ~twice' /\ \A c \in given' : Made(c, proc')
    BY <1>2, <2>1, Zenon DEF Once
  <2>3. ASSUME NEW b \in Apps, cbs'[b] # NoCallback
        PROVE  cbs'[b][1] = b /\ Made(cbs'[b], proc') /\ cbs'[b] \notin given'
    <3>1. b # a /\ cbs'[b] = cbs[b]
      BY <2>1, <2>3, Zenon DEF Typed, TypeOK
    <3>2. cbs[b] # cbs[a]
      BY <1>2, <2>3, <3>1, Zenon DEF Once
    <3> QED BY <2>1, <2>3, <3>1, <3>2 DEF Once
  <2> QED BY <2>2, <2>3 DEF Once
<1> QED BY <1>1, <1>2

\* The callback of a new request is none of those that are known.
LEMMA OnceRequest == ASSUME Typed, Typed', Once, RequestAuth PROVE Once'
<1>0. PICK a \in Apps, api \in Apis, bad \in Refusals, ok \in {"told", "asked", "error"} :
        LET c == <<a, proc[a].gen, proc[a].n + 1>>
        IN  /\ RequestAuthFromUserInner(a, c, api, bad, ok)
            /\ insts' = IF ok = "error" THEN insts ELSE insts \cup {c}
            /\ proc' = [proc EXCEPT ![a].n = @ + 1,
                                    ![a].does = IF ok = "asked" /\ api = "dialog" THEN "opens" ELSE "idle"]
            /\ UNCHANGED <<ready, backup, dialogs, posted, chosen>>
  BY ZenonT(30) DEF RequestAuth
<1> DEFINE c == <<a, proc[a].gen, proc[a].n + 1>>
<1>1. c \in Callbacks /\ c[1] = a
  BY DEF Typed, TypeOK, Callbacks
<1>2. proc[a].gen \in Nat /\ proc[a].n \in Nat
  BY Zenon DEF Typed, TypeOK
<1>3. ~Made(c, proc)
  BY <1>2 DEF Made
<1>4. /\ \A b \in Apps \ {a} : proc'[b] = proc[b]
      /\ proc'[a].gen = proc[a].gen /\ proc'[a].n = proc[a].n + 1
  BY <1>0 DEF Typed, TypeOK
<1>5. Made(c, proc')
  BY <1>2, <1>4 DEF Made
<1>6. Later(proc, proc')
  BY <1>2, <1>4, SMTT(30) DEF Later, Typed, TypeOK
<1>7. RequestAuthFromUserInner(a, c, api, bad, ok)
  BY <1>0, Zenon
<1> HIDE DEF c
<1>8. c \notin given /\ \A b \in Apps : cbs[b] # c
  <2>1. c # NoCallback
    BY Zenon DEF NoCallback, c
  <2> QED BY <1>3, <2>1 DEF Once
<1>9. \A d \in given : Made(d, proc')
  BY <1>6, MadeStays, Zenon DEF Once, Typed, TypeOK
<1>10. \A b \in Apps : cbs[b] # NoCallback => cbs[b][1] = b /\ Made(cbs[b], proc') /\ cbs[b] \notin given
  BY <1>6, MadeStays, Zenon DEF Once, Typed, TypeOK
<1>11. CASE Asked(a, c, api, bad)
  <2>1. cbs' = [cbs EXCEPT ![a] = c] /\ UNCHANGED <<given, twice>>
    BY <1>11, Zenon DEF Asked, ansVars
  <2>2. \A b \in Apps : cbs'[b] = IF b = a THEN c ELSE cbs[b]
    BY <2>1, Zenon DEF Typed, TypeOK
  <2> QED BY <1>1, <1>5, <1>8, <1>9, <1>10, <2>1, <2>2 DEF Once
<1>12. ASSUME NEW answer, NotAsked(c, answer)
       PROVE  Once'
  <2>1. UNCHANGED cbs
    BY <1>12, Zenon DEF NotAsked
  <2>2. \/ UNCHANGED <<given, twice>>
        \/ given' = given \cup {c} /\ twice' = (twice \/ c \in given)
    BY <1>12, Zenon DEF NotAsked
  <2>3. ~twice' /\ \A d \in given' : Made(d, proc')
    <3>1. CASE UNCHANGED <<given, twice>>
      BY <1>9, <3>1, Zenon DEF Once
    <3>2. CASE given' = given \cup {c} /\ twice' = (twice \/ c \in given)
      <4>1. ~twice'
        BY <1>8, <3>2, Zenon DEF Once
      <4> QED BY <1>5, <1>9, <3>2, <4>1
    <3> QED BY <2>2, <3>1, <3>2
  <2>4. \A b \in Apps : cbs'[b] # NoCallback => cbs'[b][1] = b /\ Made(cbs'[b], proc') /\ cbs'[b] \notin given'
    BY <1>8, <1>10, <2>1, <2>2, Zenon
  <2> QED BY <2>3, <2>4 DEF Once
<1> QED BY <1>7, <1>11, <1>12, RequestOutcome

LEMMA OnceInit == Init => Once
BY Zenon DEF Init, Once, NoCallbacks, NoCallback

LEMMA OnceStep == Typed /\ Typed' /\ Once /\ [Next]_vars => Once'
<1> SUFFICES ASSUME Typed, Typed', Once, [Next]_vars PROVE Once'
  BY Zenon
<1>1. CASE RequestAuth
  BY <1>1, OnceRequest, Zenon
<1>2. CASE CreateUIExtension
  <2>1. Later(proc, proc')
    BY <1>2 DEF CreateUIExtension, Later, Typed, TypeOK
  <2> QED BY <1>2, <2>1, OnceKept DEF CreateUIExtension
<1>3. CASE RemoveAuthRecordInner
  <2>1. Later(proc, proc')
    BY <1>3 DEF RemoveAuthRecordInner, Later, Typed, TypeOK
  <2>2. \A a \in Apps : cbs'[a] = cbs[a] \/ cbs'[a] = NoCallback
    BY <1>3 DEF RemoveAuthRecordInner, Typed, TypeOK
  <2> QED BY <1>3, <2>1, <2>2, OnceKept DEF RemoveAuthRecordInner
<1>4. ASSUME UNCHANGED <<cbs, given, twice, proc>>
      PROVE  Once'
  BY <1>4, OnceKept, SameIsLater, Zenon
<1>5. CASE SetAuthCallback \/ ClickBanner \/ SwipeBanner \/ EnableNotification \/ SetBackgroundTaskState
  BY <1>4, <1>5, Zenon
     DEF SetAuthCallback, ClickBanner, SwipeBanner, EnableNotification, SetBackgroundTaskState,
     appVars
<1>6. CASE StopBannerContinuousTaskByUserInner \/ OnAppStopped \/ OnBundleInfoChanged
  BY <1>4, <1>6, Zenon
     DEF StopBannerContinuousTaskByUserInner, OnAppStopped, OnBundleInfoChanged, appVars
<1>7. CASE HandlePersistenceData \/ OnBackup \/ OnRestore \/ UNCHANGED vars
  BY <1>4, <1>7, Zenon DEF HandlePersistenceData, OnBackup, OnRestore, svcVars, appVars, vars
<1>8. ASSUME NEW a \in Apps, OnBannerNotificationActionButtonClick(a)
      PROVE  Once'
  <2>1. UNCHANGED proc
    BY <1>8, Zenon DEF OnBannerNotificationActionButtonClick
  <2>2. UNCHANGED <<cbs, given, twice>> \/ \E res : Answer(a, res)
    BY <1>8, Zenon DEF OnBannerNotificationActionButtonClick, ansVars
  <2> QED BY <1>4, <2>1, <2>2, OnceAnswer
<1>9. ASSUME NEW a \in Apps, OnPermissionDialogButtonClickInner(a)
      PROVE  Once'
  <2>1. UNCHANGED proc
    BY <1>9, Zenon DEF OnPermissionDialogButtonClickInner
  <2>2. UNCHANGED <<cbs, given, twice>> \/ \E res : Answer(a, res)
    BY <1>9, Zenon DEF OnPermissionDialogButtonClickInner, ansVars
  <2> QED BY <1>4, <2>1, <2>2, OnceAnswer
<1>10. CASE HandleAuthExpiredCallbackDeathInner
  <2>1. UNCHANGED <<given, twice, proc>>
    BY <1>10, Zenon DEF HandleAuthExpiredCallbackDeathInner, appVars
  <2>2. UNCHANGED cbs \/ \E a : cbs' = [cbs EXCEPT ![a] = NoCallback]
    BY <1>10, Zenon DEF HandleAuthExpiredCallbackDeathInner
  <2>3. \A a \in Apps : cbs'[a] = cbs[a] \/ cbs'[a] = NoCallback
    BY <2>2, Zenon DEF Typed, TypeOK
  <2> QED BY <2>1, <2>3, OnceKept, SameIsLater
<1>11. CASE AppDies
  <2>1. Later(proc, proc')
    BY <1>11 DEF AppDies, Later, Typed, TypeOK
  <2> QED BY <1>11, <2>1, OnceKept DEF AppDies
<1>12. CASE AppStarts
  <2>1. Later(proc, proc')
    BY <1>12 DEF AppStarts, Later, Typed, TypeOK
  <2> QED BY <1>12, <2>1, OnceKept, Zenon DEF AppStarts
<1>13. CASE Crash
  <2>1. \A a \in Apps : cbs'[a] = NoCallback
    BY <1>13, Zenon DEF Crash, NoCallbacks
  <2> QED BY <1>13, <2>1, OnceKept, SameIsLater DEF Crash, appVars
<1> QED
  BY <1>1, <1>2, <1>3, <1>5, <1>6, <1>7, <1>8, <1>9, <1>10, <1>11, <1>12, <1>13, Zenon
     DEF Next, Handling, User, Client, System

\* No callback is answered a second time, however banner, dialog, settings, deaths
\* and restarts follow one another: a registered callback has not been answered,
\* and an answer removes it.
THEOREM AnsweredAtMostOnce == Spec => []AnsweredOnce
<1>1. Typed /\ Once => AnsweredOnce
  BY Zenon DEF Once, AnsweredOnce
<1> QED BY <1>1, TypedInit, TypedStep, OnceInit, OnceStep, PTL DEF Spec

-----------------------------------------------------------------------------
(* Grants.  Chosen(r, h) is GrantsAreChosen for one set of records.         *)

Chosen(r, h) == \A a \in Apps : r[a].res \in Granted => r[a].res \in h[a]
AnswersChosen(q, h) == \A x \in q : x[2] \in Granted => x[2] \in h[x[1][1]]
EventsChosen(p, h) == \A e \in p : e[1] \in {"button", "dialog"} /\ e[3] \in Granted => e[3] \in h[e[2]]

GrantParts ==
    /\ Chosen(rec, chosen) /\ Chosen(saved, chosen) /\ Chosen(backup, chosen)
    /\ AnswersChosen(jsq, chosen) /\ EventsChosen(posted, chosen)

LEMMA GrantsIsParts == Grants <=> GrantParts
BY Zenon DEF Grants, GrantParts, GrantsAreChosen, Chosen, AnswersChosen, EventsChosen

LEMMA NoRecordGrantsNothing ==
    NoRecord.res \notin Granted /\ \A h : Chosen(NoRecords, h)
BY Zenon DEF NoRecord, NoRecords, Granted, Chosen

LEMMA SetRecordChosen ==
    ASSUME Typed, Chosen(rec, chosen), NEW a \in Apps, NEW r, SetRecord(a, r),
           r.res \in Granted => r.res \in chosen[a]
    PROVE  Chosen(rec', chosen) /\ Chosen(saved', chosen)
BY Zenon DEF Typed, TypeOK, SetRecord, Chosen

\* A registered callback belongs to the application it is registered for.
Own == \A a \in Apps : cbs[a] # NoCallback => cbs[a][1] = a

LEMMA AnswerChosen ==
    ASSUME Typed, Own, AnswersChosen(jsq, chosen), NEW a \in Apps, NEW res, Answer(a, res),
           res \in Granted => res \in chosen[a]
    PROVE  AnswersChosen(jsq', chosen)
<1>1. CASE cbs[a] = NoCallback
  BY <1>1, Zenon DEF Answer, ansVars
<1>2. CASE cbs[a] # NoCallback
  <2>1. jsq' = jsq \/ jsq' = jsq \cup {<<cbs[a], res>>}
    BY <1>2, Zenon DEF Answer, OnExpiredAuth
  <2>2. cbs[a][1] = a
    BY <1>2, Zenon DEF Own
  <2> QED BY <2>1, <2>2 DEF AnswersChosen
<1> QED BY <1>1, <1>2

LEMMA WithdrawChosen ==
    ASSUME EventsChosen(posted, chosen), NEW a, NEW e, Withdraw(a, e)
    PROVE  EventsChosen(posted', chosen)
BY DEF EventsChosen, Withdraw

LEMMA GrantsInit == Init => Grants
<1> SUFFICES ASSUME Init PROVE GrantParts
  BY GrantsIsParts, Zenon
<1> QED BY NoRecordGrantsNothing DEF Init, GrantParts, AnswersChosen, EventsChosen

LEMMA GrantsRequest ==
    ASSUME Typed, GrantParts, RequestAuth
    PROVE  GrantParts'
<1>0. PICK a \in Apps, api \in Apis, bad \in Refusals, ok \in {"told", "asked", "error"} :
        LET c == <<a, proc[a].gen, proc[a].n + 1>>
        IN  /\ RequestAuthFromUserInner(a, c, api, bad, ok)
            /\ insts' = IF ok = "error" THEN insts ELSE insts \cup {c}
            /\ proc' = [proc EXCEPT ![a].n = @ + 1,
                                    ![a].does = IF ok = "asked" /\ api = "dialog" THEN "opens" ELSE "idle"]
            /\ UNCHANGED <<ready, backup, dialogs, posted, chosen>>
  BY ZenonT(30) DEF RequestAuth
<1> DEFINE c == <<a, proc[a].gen, proc[a].n + 1>>
<1>1. c[1] = a
  BY Zenon
<1>2. RequestAuthFromUserInner(a, c, api, bad, ok)
  BY <1>0, Zenon
<1> HIDE DEF c
<1>3. CASE Asked(a, c, api, bad)
  <2> DEFINE r == [res |-> "NOT_DETERMINED", nid |-> IF api = "banner" THEN nidx + 1 ELSE -1]
  <2>1. rec' = [rec EXCEPT ![a] = r] /\ (UNCHANGED saved \/ saved' = rec') /\ UNCHANGED jsq
    BY <1>3, Zenon DEF Asked, ansVars
  <2>2. r.res \notin Granted
    BY Zenon DEF Granted
  <2> HIDE DEF r
  <2>3. Chosen(rec', chosen)
    BY <2>1, <2>2, Zenon DEF GrantParts, Chosen, Typed, TypeOK
  <2> QED BY <1>0, <2>1, <2>3, Zenon DEF GrantParts
<1>4. ASSUME NEW answer, NotAsked(c, answer), answer \in Granted => answer = rec[a].res
      PROVE  GrantParts'
  <2>1. UNCHANGED <<rec, saved>> /\ (UNCHANGED jsq \/ jsq' = jsq \cup {<<c, answer>>})
    BY <1>4, Zenon DEF NotAsked
  <2>2. answer \in Granted => answer \in chosen[a]
    BY <1>4, Zenon DEF GrantParts, Chosen
  <2>3. AnswersChosen(jsq', chosen)
    BY <1>1, <2>1, <2>2 DEF GrantParts, AnswersChosen
  <2> QED BY <1>0, <2>1, <2>3 DEF GrantParts
<1> QED BY <1>2, <1>3, <1>4, RequestOutcome

\* A choice of the user adds to what was chosen, and an event may carry it.
LEMMA GrantsGrow ==
    ASSUME Typed, GrantParts, NEW a \in Apps, NEW new,
           chosen' = [chosen EXCEPT ![a] = @ \cup new],
           UNCHANGED <<backup, jsq>>
    PROVE  /\ \A b \in Apps : chosen[b] \subseteq chosen'[b]
           /\ Chosen(rec, chosen') /\ Chosen(saved, chosen') /\ Chosen(backup', chosen')
           /\ AnswersChosen(jsq', chosen') /\ EventsChosen(posted, chosen')
<1>1. \A b \in Apps : chosen[b] \subseteq chosen'[b]
  BY Zenon DEF Typed, TypeOK
<1>2. Chosen(rec, chosen') /\ Chosen(saved, chosen') /\ Chosen(backup', chosen')
  BY <1>1, Zenon DEF GrantParts, Chosen
<1>3. \A x \in jsq : x[1][1] \in Apps
  BY Zenon DEF Typed, TypeOK, Callbacks
<1>4. AnswersChosen(jsq', chosen')
  BY <1>1, <1>3, Zenon DEF GrantParts, AnswersChosen
<1>5. \A e \in posted : e[1] \in {"button", "dialog"} => e[2] \in Apps
  BY Zenon DEF Typed, Events
<1>6. EventsChosen(posted, chosen')
  BY <1>1, <1>5, Zenon DEF GrantParts, EventsChosen
<1> QED BY <1>1, <1>2, <1>4, <1>6

LEMMA GrantsStep == Typed /\ Once /\ Grants /\ [Next]_vars => Grants'
<1> SUFFICES ASSUME Typed, Once, GrantParts, [Next]_vars PROVE GrantParts'
  BY GrantsIsParts, Zenon
     DEF Grants, GrantParts, GrantsAreChosen, Chosen, AnswersChosen, EventsChosen
<1> USE NoRecordGrantsNothing
<1>0. Own
  BY Zenon DEF Once, Own
<1>1. CASE RequestAuth
  BY <1>1, GrantsRequest, Zenon
<1>2. ASSUME UNCHANGED <<rec, saved, backup, jsq, posted, chosen>>
      PROVE  GrantParts'
  BY <1>2, Zenon DEF GrantParts
<1>3. CASE CreateUIExtension \/ UNCHANGED vars
  BY <1>2, <1>3, Zenon DEF CreateUIExtension, vars
<1>4. CASE RemoveAuthRecordInner
  <2>1. UNCHANGED <<rec, saved>> \/ \E a \in Apps : SetRecord(a, NoRecord)
    BY <1>4, Zenon DEF RemoveAuthRecordInner
  <2>2. Chosen(rec', chosen) /\ Chosen(saved', chosen)
    BY <2>1, SetRecordChosen, Zenon DEF GrantParts
  <2> QED BY <1>4, <2>2 DEF RemoveAuthRecordInner, GrantParts
<1>5. CASE SetAuthCallback
  <2>1. jsq' \subseteq jsq /\ UNCHANGED <<rec, saved, backup, posted, chosen>>
    BY <1>5, Zenon DEF SetAuthCallback
  <2> QED BY <2>1 DEF GrantParts, AnswersChosen
<1>6. CASE ClickBanner
  <2>1. PICK b \in shade, res \in Granted :
          /\ posted' = IF ready THEN posted \cup {<<"button", b[1], res>>} ELSE posted
          /\ chosen' = [chosen EXCEPT ![b[1]] = @ \cup {res}]
          /\ UNCHANGED <<rec, saved, backup, jsq>>
    BY <1>6, Zenon DEF ClickBanner, appVars
  <2>2. b[1] \in Apps
    BY Zenon DEF Typed, TypeOK
  <2>3. res \in chosen'[b[1]]
    BY <2>1, <2>2, Zenon DEF Typed, TypeOK
  <2>4. EventsChosen(posted, chosen')
    BY <2>1, <2>2, GrantsGrow, Zenon
  <2>5. EventsChosen(posted', chosen')
    BY <2>1, <2>3, <2>4 DEF EventsChosen
  <2> QED BY <2>1, <2>2, <2>5, GrantsGrow, Zenon DEF GrantParts
<1>7. CASE SwipeBanner
  <2>1. /\ posted' = posted \/ \E b : posted' = posted \cup {<<"canceled", b, "none">>}
        /\ UNCHANGED <<rec, saved, backup, jsq, chosen>>
    BY <1>7, Zenon DEF SwipeBanner, appVars
  <2>2. EventsChosen(posted', chosen)
    BY <2>1 DEF GrantParts, EventsChosen
  <2> QED BY <2>1, <2>2 DEF GrantParts
<1>8. CASE EnableNotification
  <2>1. PICK a \in dialogs, res \in Granted \cup {"DENIED", "QUIT"} :
          /\ posted' = IF ready THEN posted \cup {<<"dialog", a, res>>} ELSE posted
          /\ chosen' = [chosen EXCEPT ![a] = @ \cup ({res} \cap Granted)]
          /\ UNCHANGED <<rec, saved, backup, jsq>>
    BY <1>8, Zenon DEF EnableNotification, appVars
  <2>2. a \in Apps
    BY Zenon DEF Typed, TypeOK
  <2>3. res \in Granted => res \in chosen'[a]
    BY <2>1, <2>2, Zenon DEF Typed, TypeOK
  <2>4. EventsChosen(posted, chosen')
    BY <2>1, <2>2, GrantsGrow, Zenon
  <2>5. EventsChosen(posted', chosen')
    BY <2>1, <2>3, <2>4 DEF EventsChosen
  <2> QED BY <2>1, <2>2, <2>5, GrantsGrow, Zenon DEF GrantParts
<1>9. CASE SetBackgroundTaskState
  <2>1. PICK a \in Apps, res \in Choices :
          /\ SetRecord(a, [rec[a] EXCEPT !.res = res])
          /\ chosen' = [chosen EXCEPT ![a] = @ \cup ({res} \cap Granted)]
          /\ UNCHANGED <<backup, posted, jsq>>
    BY <1>9, Zenon DEF SetBackgroundTaskState, appVars
  <2>2. [rec[a] EXCEPT !.res = res].res = res
    BY DEF Typed, TypeOK, Record
  <2>3. res \in Granted => res \in chosen'[a]
    BY <2>1, Zenon DEF Typed, TypeOK
  <2>4. Chosen(rec', chosen') /\ Chosen(saved', chosen')
    <3> DEFINE r == [rec[a] EXCEPT !.res = res]
    <3>1. rec' = [rec EXCEPT ![a] = r] /\ saved' = rec' /\ r.res = res
      BY <2>1, <2>2, Zenon DEF SetRecord
    <3>2. Chosen(rec, chosen')
      BY <2>1, GrantsGrow, Zenon
    <3> HIDE DEF r
    <3> QED BY <2>3, <3>1, <3>2 DEF Chosen, Typed, TypeOK
  <2> QED BY <2>1, <2>4, GrantsGrow, Zenon DEF GrantParts
<1>10. ASSUME NEW a \in Apps, OnBannerNotificationActionButtonClick(a)
       PROVE  GrantParts'
  <2>1. PICK e \in posted :
          /\ e[2] = a /\ e[1] = "button"
          /\ IF rec[a] = NoRecord
             THEN Handled(e) /\ UNCHANGED <<rec, cbs, saved, damaged, shade, ansVars>>
             ELSE /\ SetRecord(a, [rec[a] EXCEPT !.res = e[3]])
                  /\ IF rec[a].nid = -1 THEN UNCHANGED <<shade, cbs, ansVars>> /\ Handled(e)
                     ELSE Withdraw(a, e) /\ Answer(a, e[3])
          /\ UNCHANGED <<ready, backup, nidx, dialogs, proc, insts, chosen>>
    BY <1>10, Zenon DEF OnBannerNotificationActionButtonClick
  <2>2. e[3] \in Granted => e[3] \in chosen[a]
    BY <2>1, Zenon DEF GrantParts, EventsChosen
  <2>3. [rec[a] EXCEPT !.res = e[3]].res = e[3]
    BY DEF Typed, TypeOK, Record
  <2>4. Chosen(rec', chosen) /\ Chosen(saved', chosen)
    BY <2>1, <2>2, <2>3, SetRecordChosen, Zenon DEF GrantParts
  <2>5. EventsChosen(posted', chosen)
    <3>1. CASE Handled(e)
      BY <3>1, Zenon DEF Handled, GrantParts, EventsChosen
    <3>2. CASE Withdraw(a, e)
      BY <3>2, WithdrawChosen, Zenon DEF GrantParts
    <3> QED BY <2>1, <3>1, <3>2
  <2>6. AnswersChosen(jsq', chosen)
    <3>1. UNCHANGED jsq \/ Answer(a, e[3])
      BY <2>1, Zenon DEF ansVars
    <3> QED BY <1>0, <2>2, <3>1, AnswerChosen DEF GrantParts
  <2> QED BY <2>1, <2>4, <2>5, <2>6 DEF GrantParts
<1>11. ASSUME NEW a \in Apps, OnPermissionDialogButtonClickInner(a)
       PROVE  GrantParts'
  <2>1. PICK e \in posted :
          /\ e[2] = a /\ e[1] = "dialog"
          /\ Handled(e)
          /\ IF e[3] = "QUIT" \/ rec[a] = NoRecord THEN UNCHANGED <<rec, cbs, saved, damaged, ansVars>>
             ELSE SetRecord(a, [rec[a] EXCEPT !.res = e[3]]) /\ Answer(a, e[3])
          /\ UNCHANGED <<ready, backup, nidx, shade, dialogs, proc, insts, chosen>>
    BY <1>11, Zenon DEF OnPermissionDialogButtonClickInner
  <2>2. e[3] \in Granted => e[3] \in chosen[a]
    BY <2>1, Zenon DEF GrantParts, EventsChosen
  <2>3. [rec[a] EXCEPT !.res = e[3]].res = e[3]
    BY DEF Typed, TypeOK, Record
  <2>4. Chosen(rec', chosen) /\ Chosen(saved', chosen)
    BY <2>1, <2>2, <2>3, SetRecordChosen, Zenon DEF GrantParts
  <2>5. EventsChosen(posted', chosen)
    BY <2>1, Zenon DEF Handled, GrantParts, EventsChosen
  <2>6. AnswersChosen(jsq', chosen)
    <3>1. UNCHANGED jsq \/ Answer(a, e[3])
      BY <2>1, Zenon DEF ansVars
    <3> QED BY <1>0, <2>2, <3>1, AnswerChosen DEF GrantParts
  <2> QED BY <2>1, <2>4, <2>5, <2>6 DEF GrantParts
<1>12. CASE StopBannerContinuousTaskByUserInner
  <2>1. PICK e \in posted :
          /\ e[1] = "canceled"
          /\ Handled(e)
          /\ UNCHANGED <<rec, saved>> \/ SetRecord(e[2], NoRecord)
          /\ UNCHANGED <<backup, jsq, chosen>>
    BY <1>12, Zenon DEF StopBannerContinuousTaskByUserInner, appVars
  <2>2. e[2] \in Apps
    BY <2>1, Zenon DEF Typed, Events
  <2>3. Chosen(rec', chosen) /\ Chosen(saved', chosen)
    BY <2>1, <2>2, SetRecordChosen, Zenon DEF GrantParts
  <2>4. EventsChosen(posted', chosen)
    BY <2>1, Zenon DEF Handled, GrantParts, EventsChosen
  <2> QED BY <2>1, <2>3, <2>4 DEF GrantParts
<1>13. CASE HandleAuthExpiredCallbackDeathInner
  <2>1. PICK e \in posted :
          /\ \/ UNCHANGED <<rec, saved>> /\ Handled(e)
             \/ \E a \in Apps : SetRecord(a, NoRecord) /\ Withdraw(a, e)
          /\ UNCHANGED <<backup, jsq, chosen>>
    BY <1>13, Zenon DEF HandleAuthExpiredCallbackDeathInner, appVars
  <2>2. Chosen(rec', chosen) /\ Chosen(saved', chosen)
    BY <2>1, SetRecordChosen, Zenon DEF GrantParts
  <2>3. EventsChosen(posted', chosen)
    <3>1. CASE Handled(e)
      BY <3>1, Zenon DEF Handled, GrantParts, EventsChosen
    <3>2. CASE \E a : Withdraw(a, e)
      BY <3>2, WithdrawChosen, Zenon DEF GrantParts
    <3> QED BY <2>1, <3>1, <3>2
  <2> QED BY <2>1, <2>2, <2>3 DEF GrantParts
<1>14. CASE OnAppStopped
  <2>1. PICK over : /\ rec' = [a \in Apps |-> IF a \in over THEN NoRecord ELSE rec[a]]
                    /\ UNCHANGED saved \/ saved' = rec'
    BY <1>14, Zenon DEF OnAppStopped
  <2>2. Chosen(rec', chosen)
    BY <2>1, Zenon DEF GrantParts, Chosen
  <2>3. posted' \subseteq posted /\ UNCHANGED <<backup, jsq, chosen>>
    BY <1>14, Zenon DEF OnAppStopped, Handled, appVars
  <2> QED BY <2>1, <2>2, <2>3 DEF GrantParts, EventsChosen
<1>15. CASE OnBundleInfoChanged
  <2>1. Chosen(rec', chosen) /\ Chosen(saved', chosen)
    BY <1>15, SetRecordChosen, Zenon DEF OnBundleInfoChanged, GrantParts
  <2> QED BY <1>15, <2>1 DEF OnBundleInfoChanged, appVars, GrantParts
<1>16. CASE AppDies
  <2>1. jsq' \subseteq jsq /\ UNCHANGED <<rec, saved, backup, chosen>>
    BY <1>16, Zenon DEF AppDies
  <2>2. \A e \in posted' : e \in posted \/ e[1] \in {"stopped", "died"} \/ e[3] = "QUIT"
    BY <1>16 DEF AppDies
  <2>3. EventsChosen(posted', chosen)
    BY <2>2, Zenon DEF GrantParts, EventsChosen, Granted
  <2> QED BY <2>1, <2>3 DEF GrantParts, AnswersChosen
<1>17. CASE AppStarts
  BY <1>2, <1>17, Zenon DEF AppStarts
<1>18. CASE Crash
  <2>1. rec' = NoRecords /\ posted' = {} /\ UNCHANGED <<saved, backup, jsq, chosen>>
    BY <1>18, Zenon DEF Crash, usrVars, appVars
  <2> QED BY <2>1 DEF GrantParts, EventsChosen
<1>19. CASE HandlePersistenceData
  <2>1. /\ rec' = NoRecords \/ rec' = Merge(NoRecords, saved)
        /\ UNCHANGED <<saved, backup, jsq, posted, chosen>>
    BY <1>19, Zenon DEF HandlePersistenceData, usrVars, appVars
  <2>2. Chosen(Merge(NoRecords, saved), chosen)
    BY Zenon DEF GrantParts, Chosen, Merge
  <2> QED BY <2>1, <2>2 DEF GrantParts
<1>20. CASE OnBackup
  BY <1>20, Zenon DEF OnBackup, svcVars, appVars, GrantParts
<1>21. CASE OnRestore
  <2>1. Chosen(Merge(rec, backup), chosen)
    BY Zenon DEF GrantParts, Chosen, Merge
  <2>2. /\ (rec' = Merge(rec, backup) /\ saved' = rec') \/ (saved' = NoRecords /\ UNCHANGED rec)
        /\ UNCHANGED <<backup, jsq, posted, chosen>>
    BY <1>21, Zenon DEF OnRestore, usrVars, appVars
  <2> QED BY <2>1, <2>2 DEF GrantParts
<1> QED
  BY Zenon, <1>1, <1>3, <1>4, <1>5, <1>6, <1>7, <1>8, <1>9, <1>10, <1>11, <1>12, <1>13, <1>14,
     <1>15, <1>16, <1>17,
     <1>18, <1>19, <1>20, <1>21
     DEF Next, Handling, User, Client, System

\* Whatever is granted, in a record, in the file, in a backup or in an answer, was
\* chosen by the user for that application, through late clicks, answers of dialogs
\* that were overtaken, crashes and restored backups.
THEOREM GrantsAlwaysChosen == Spec => []GrantsAreChosen
<1>1. Typed /\ Once /\ Grants => GrantsAreChosen
  BY Zenon DEF Grants
<1> QED
  BY <1>1, TypedInit, TypedStep, OnceInit, OnceStep, GrantsInit, GrantsStep, PTL DEF Spec

-----------------------------------------------------------------------------
(* The file.                                                                *)

LEMMA FileStep == Typed /\ FileMatchesRecords /\ [Next]_vars => FileMatchesRecords'
<1> SUFFICES ASSUME Typed, FileMatchesRecords, [Next]_vars PROVE FileMatchesRecords'
  BY Zenon
<1>1. ASSUME UNCHANGED <<ready, rec, saved, damaged>>
      PROVE  FileMatchesRecords'
  BY <1>1, Zenon DEF FileMatchesRecords
<1>2. ASSUME saved' = rec'
      PROVE  FileMatchesRecords'
  BY <1>2, Zenon DEF FileMatchesRecords
<1>3. CASE RequestAuth
  <2>0. PICK a \in Apps, api \in Apis, bad \in Refusals, ok \in {"told", "asked", "error"} :
          /\ RequestAuthFromUserInner(a, <<a, proc[a].gen, proc[a].n + 1>>, api, bad, ok)
          /\ UNCHANGED ready
    BY <1>3, SMTT(30) DEF RequestAuth
  <2> DEFINE c == <<a, proc[a].gen, proc[a].n + 1>>
  <2> HIDE DEF c
  <2>1. RequestAuthFromUserInner(a, c, api, bad, ok) /\ UNCHANGED ready
    BY <2>0, Zenon DEF c
  <2>2. CASE Asked(a, c, api, bad)
    BY <2>2, Zenon DEF Asked, FileMatchesRecords
  <2>3. CASE \E answer : NotAsked(c, answer)
    BY <1>1, <2>1, <2>3, Zenon DEF NotAsked
  <2> QED BY <2>1, <2>2, <2>3, RequestOutcome
<1>4. CASE CreateUIExtension \/ SetAuthCallback \/ AppStarts \/ AppDies \/ OnBackup \/ UNCHANGED vars
  BY <1>1, <1>4, Zenon
     DEF CreateUIExtension, SetAuthCallback, AppStarts, AppDies, OnBackup, svcVars, vars
<1>5. CASE ClickBanner \/ SwipeBanner \/ EnableNotification
  BY <1>1, <1>5, Zenon DEF ClickBanner, SwipeBanner, EnableNotification
<1>6. CASE RemoveAuthRecordInner \/ SetBackgroundTaskState \/ OnBundleInfoChanged
  BY <1>1, <1>2, <1>6, Zenon
     DEF RemoveAuthRecordInner, SetBackgroundTaskState, OnBundleInfoChanged, SetRecord
<1>7. CASE \E a \in Apps : OnBannerNotificationActionButtonClick(a) \/ OnPermissionDialogButtonClickInner(a)
  BY <1>1, <1>2, <1>7, Zenon
     DEF OnBannerNotificationActionButtonClick, OnPermissionDialogButtonClickInner, SetRecord
<1>8. CASE StopBannerContinuousTaskByUserInner \/ HandleAuthExpiredCallbackDeathInner
  BY <1>1, <1>2, <1>8, Zenon
     DEF StopBannerContinuousTaskByUserInner, HandleAuthExpiredCallbackDeathInner, SetRecord
<1>9. CASE OnAppStopped
  <2>1. PICK over : /\ rec' = [a \in Apps |-> IF a \in over THEN NoRecord ELSE rec[a]]
                    /\ IF over = {} THEN UNCHANGED <<saved, damaged>> ELSE saved' = rec' /\ damaged' = FALSE
                    /\ UNCHANGED ready
    BY <1>9, Zenon DEF OnAppStopped
  <2>2. over = {} => rec' = rec
    BY <2>1, Zenon DEF Typed, TypeOK
  <2> QED BY <1>1, <1>2, <2>1, <2>2, SMTT(30)
<1>10. CASE Crash
  BY <1>10, Zenon DEF Crash, FileMatchesRecords
<1>11. CASE HandlePersistenceData
  <2>1. Merge(NoRecords, saved) = saved
    BY Zenon DEF Merge, NoRecords, Typed, TypeOK
  <2> QED BY <1>11, <2>1, Zenon DEF HandlePersistenceData, FileMatchesRecords
<1>12. CASE OnRestore
  BY <1>12, Zenon DEF OnRestore, FileMatchesRecords
<1> QED
  BY <1>3, <1>4, <1>5, <1>6, <1>7, <1>8, <1>9, <1>10, <1>11, <1>12, Zenon
     DEF Next, Handling, User, Client, System

\* Whenever the service runs and no write of the file has failed since, the file
\* holds exactly the records: a crash at any moment loses no answer of the user.
THEOREM FileAlwaysMatchesRecords == Spec => []FileMatchesRecords
<1>1. Init => FileMatchesRecords
  BY Zenon DEF Init, FileMatchesRecords
<1> QED BY <1>1, TypedInit, TypedStep, FileStep, PTL DEF Spec

-----------------------------------------------------------------------------
(* Denials.                                                                 *)

\* The step turns no denial of a into a grant, except by a choice it handles.
LEMMA DeniedStep ==
    ASSUME Typed, [Next]_vars, NEW a \in Apps, ready, rec[a].res = "DENIED", rec'[a].res \in Granted
    PROVE  \/ SetBackgroundTaskState
           \/ \E e \in posted \ posted' : e[2] = a /\ e[3] = rec'[a].res
<1>1. rec' # rec /\ rec'[a] # rec[a] /\ rec[a] # NoRecord /\ rec'[a] # NoRecord
  BY NoRecordGrantsNothing DEF Granted, NoRecord
<1>2. ASSUME NEW b \in Apps, NEW r, SetRecord(b, r)
      PROVE  b = a /\ rec'[a] = r
  BY <1>1, <1>2, Zenon DEF SetRecord, Typed, TypeOK
<1>3. CASE RequestAuth
  <2>0. PICK b \in Apps, api \in Apis, bad \in Refusals, ok \in {"told", "asked", "error"} :
          RequestAuthFromUserInner(b, <<b, proc[b].gen, proc[b].n + 1>>, api, bad, ok)
    BY <1>3, ZenonT(30) DEF RequestAuth
  <2> DEFINE c == <<b, proc[b].gen, proc[b].n + 1>>
  <2> HIDE DEF c
  <2>1. RequestAuthFromUserInner(b, c, api, bad, ok)
    BY <2>0, Zenon DEF c
  <2>2. ~ \E answer : NotAsked(c, answer)
    BY <1>1, Zenon DEF NotAsked
  <2> DEFINE r == [res |-> "NOT_DETERMINED", nid |-> IF api = "banner" THEN nidx + 1 ELSE -1]
  <2>3. rec' = [rec EXCEPT ![b] = r]
    BY <2>1, <2>2, RequestOutcome, Zenon DEF Asked
  <2>4. r.res = "NOT_DETERMINED"
    BY Zenon
  <2> HIDE DEF r
  <2> QED BY <1>1, <2>3, <2>4 DEF Granted, Typed, TypeOK
<1>4. CASE CreateUIExtension \/ SetAuthCallback \/ AppStarts \/ AppDies \/ OnBackup \/ UNCHANGED vars
  BY <1>1, <1>4, Zenon
     DEF CreateUIExtension, SetAuthCallback, AppStarts, AppDies, OnBackup, svcVars, vars
<1>5. CASE ClickBanner \/ SwipeBanner \/ EnableNotification
  BY <1>1, <1>5, Zenon DEF ClickBanner, SwipeBanner, EnableNotification
<1>6. CASE RemoveAuthRecordInner \/ OnBundleInfoChanged
  BY <1>1, <1>2, <1>6, Zenon DEF RemoveAuthRecordInner, OnBundleInfoChanged
<1>7. ASSUME NEW b \in Apps, OnBannerNotificationActionButtonClick(b)
      PROVE  \E e \in posted \ posted' : e[2] = a /\ e[3] = rec'[a].res
  <2>1. PICK e \in posted :
          /\ e[2] = b /\ e[1] = "button"
          /\ SetRecord(b, [rec[b] EXCEPT !.res = e[3]])
          /\ Handled(e) \/ Withdraw(b, e)
    BY <1>1, <1>7, Zenon DEF OnBannerNotificationActionButtonClick
  <2>2. b = a /\ rec'[a] = [rec[b] EXCEPT !.res = e[3]]
    BY <1>2, <2>1, Zenon
  <2>3. rec'[a].res = e[3]
    BY <2>2 DEF Typed, TypeOK, Record
  <2>4. e \notin posted'
    BY <2>1 DEF Handled, Withdraw
  <2> QED BY <2>1, <2>2, <2>3, <2>4
<1>8. ASSUME NEW b \in Apps, OnPermissionDialogButtonClickInner(b)
      PROVE  \E e \in posted \ posted' : e[2] = a /\ e[3] = rec'[a].res
  <2>1. PICK e \in posted :
          /\ e[2] = b /\ e[1] = "dialog"
          /\ SetRecord(b, [rec[b] EXCEPT !.res = e[3]])
          /\ Handled(e)
    BY <1>1, <1>8, Zenon DEF OnPermissionDialogButtonClickInner
  <2>2. b = a /\ rec'[a] = [rec[b] EXCEPT !.res = e[3]]
    BY <1>2, <2>1, Zenon
  <2>3. rec'[a].res = e[3]
    BY <2>2 DEF Typed, TypeOK, Record
  <2> QED BY <2>1, <2>2, <2>3 DEF Handled
<1>9. CASE StopBannerContinuousTaskByUserInner
  <2>1. PICK e \in posted : e[1] = "canceled" /\ SetRecord(e[2], NoRecord)
    BY <1>1, <1>9, Zenon DEF StopBannerContinuousTaskByUserInner
  <2>2. e[2] \in Apps
    BY <2>1, Zenon DEF Typed, Events
  <2> QED BY <1>1, <1>2, <2>1, <2>2
<1>10. CASE HandleAuthExpiredCallbackDeathInner
  <2>1. PICK b \in Apps : SetRecord(b, NoRecord)
    BY <1>1, <1>10, Zenon DEF HandleAuthExpiredCallbackDeathInner
  <2> QED BY <1>1, <1>2, <2>1
<1>11. CASE OnAppStopped
  <2>1. PICK over : rec' = [b \in Apps |-> IF b \in over THEN NoRecord ELSE rec[b]]
    BY <1>11, Zenon DEF OnAppStopped
  <2> QED BY <1>1, <2>1, SMTT(30)
<1>12. CASE Crash
  BY <1>1, <1>12, Zenon DEF Crash, NoRecords
<1>13. CASE HandlePersistenceData
  BY <1>13, Zenon DEF HandlePersistenceData
<1>14. CASE OnRestore
  <2>1. Merge(rec, backup)[a] = rec[a]
    BY <1>1, Zenon DEF Merge
  <2> QED BY <1>1, <1>14, <2>1 DEF OnRestore
<1> QED
  BY <1>3, <1>4, <1>5, <1>6, <1>7, <1>8, <1>9, <1>10, <1>11, <1>12, <1>13, <1>14, Zenon
     DEF Next, Handling, User, Client, System

\* What the user has denied is granted only by a later choice of the user: not by
\* the restoring of a backup, by a stale event of another kind, by the end of a
\* process or by a new request.
THEOREM DeniedAlwaysStays == Spec => DeniedStays
<1>1. Typed /\ [Next]_vars =>
        [\A a \in Apps :
          ready /\ ~damaged /\ rec[a].res = "DENIED" /\ rec'[a].res \in Granted =>
            \/ SetBackgroundTaskState
            \/ \E e \in posted \ posted' : e[2] = a /\ e[3] = rec'[a].res]_vars
  BY DeniedStep, Zenon
<1> QED BY <1>1, TypedInit, TypedStep, PTL DEF Spec, DeniedStays
=============================================================================
