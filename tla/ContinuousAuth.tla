---------------------------- MODULE ContinuousAuth ----------------------------
(***************************************************************************)
(* The user's permission for tasks of special scenarios: the request of an *)
(* application through its JS binding, the records and callbacks of        *)
(* BgContinuousTaskMgr, the banner and the dialog that ask the user, the   *)
(* settings, backup and restore.                                           *)
(*                                                                         *)
(* An application stands for a (user, bundle, clone) triple, of which the  *)
(* key of a record and the label of its banner are made.  Operations on    *)
(* the manager's thread are single actions; what is on its way to it, or   *)
(* to the thread of an application's JS code, is kept in sets, so that it  *)
(* comes late and in any order.                                            *)
(***************************************************************************)
EXTENDS Integers, FiniteSets

CONSTANTS
    Apps,
    BundleOf,                   \* the bundle and clone of each
    Choices,                    \* the results that the settings set
    MaxGen, MaxReq, MaxNid      \* bounds: processes, requests of each, banners

Granted == {"GRANTED_ONCE", "GRANTED_ALWAYS"}
UserAuthResult == Granted \cup {"NOT_SUPPORTED", "NOT_DETERMINED", "DENIED"}
Apis == {"banner", "dialog"}

ASSUME AuthAssumption ==
    /\ Choices \subseteq UserAuthResult
    /\ {MaxGen, MaxReq, MaxNid} \subseteq Nat

\* BannerNotificationRecord: the result and the number of the banner, -1 without.
\* "none" is the result of an application that has no record.
NoRecord == [res |-> "none", nid |-> -1]
Record == [res : UserAuthResult \cup {"none"}, nid : Int]
NoRecords == [a \in Apps |-> NoRecord]

\* The callback of the nth request of a process.
Callbacks == Apps \X Nat \X Nat
NoCallback == <<>>
NoCallbacks == [a \in Apps |-> NoCallback]

VARIABLES
    ready,      \* the service runs and has read its files
    rec,        \* bannerNotificationRecord_
    cbs,        \* expiredCallbackMap_
    saved,      \* the file of records
    backup,     \* the last backup of it
    nidx,       \* numbers of banners used
    shade,      \* the banners that are shown: <<application, number>>
    dialogs,    \* the applications whose dialog is open
    posted,     \* events on their way to the manager
    proc,       \* processes: number, whether it lives, requests made, what it does
    insts,      \* authCallbackInstances_ of the processes
    jsq,        \* answers on their way to JS code
    chosen,     \* history: the grants that the user has ever chosen for an application
    given,      \* history: the callbacks that the manager has answered
    twice,      \* history: one of them was answered again
    damaged     \* history: the file was not written, or written by a failed restore

svcVars == <<rec, cbs, saved>>
usrVars == <<backup, shade, dialogs, chosen>>
appVars == <<proc, insts, jsq>>
ansVars == <<jsq, given, twice>>
vars == <<ready, rec, cbs, saved, backup, nidx, shade, dialogs, posted, proc, insts, jsq,
          chosen, given, twice, damaged>>

-----------------------------------------------------------------------------
(* Parts of the handlers.                                                  *)

\* A record is not written to the file.
MutSetRecordUnsaved(a, r) ==
    rec' = [rec EXCEPT ![a] = r] /\ UNCHANGED <<saved, damaged>>

\* Every change of a record is followed by RefreshAuthRecord, which writes them all.
SetRecord(a, r) ==
    /\ rec' = [rec EXCEPT ![a] = r]
    /\ saved' = rec'
    /\ damaged' = FALSE

\* AuthCallbackInstance::OnExpiredAuth: the JS code is called later, on its
\* thread, if the instance is known.
OnExpiredAuth(c, res) ==
    /\ given' = given \cup {c}
    /\ twice' = (twice \/ c \in given)
    /\ jsq' = IF c \in insts THEN jsq \cup {<<c, res>>} ELSE jsq

\* The callback stays registered.
MutAnswerKeepsCallback(a, res) ==
    /\ UNCHANGED cbs
    /\ IF cbs[a] = NoCallback THEN UNCHANGED ansVars ELSE OnExpiredAuth(cbs[a], res)

\* The callback is forgotten without an answer.
MutAnswerForgets(a, res) == cbs' = [cbs EXCEPT ![a] = NoCallback] /\ UNCHANGED ansVars

\* The registered callback of the application, if any, is answered and forgotten.
Answer(a, res) ==
    /\ cbs' = [cbs EXCEPT ![a] = NoCallback]
    /\ IF cbs[a] = NoCallback THEN UNCHANGED ansVars ELSE OnExpiredAuth(cbs[a], res)

\* NotificationTools::CancelNotification of the banner of a record; the subscriber
\* of notifications hears of it like of a removal by the user.
Withdraw(a, e) ==
    LET shown == {<<a, rec[a].nid>>} \cap shade
    IN  /\ shade' = shade \ shown
        /\ posted' = (posted \ {e}) \cup {<<"canceled", a, "none">> : b \in shown}

-----------------------------------------------------------------------------
(* The request.                                                            *)

\* What may go wrong with a request: nothing, the bundle does not declare
\* the mode, the name or the text of the banner cannot be made, the banner is
\* refused, the file cannot be written.
Refusals == {"", "undeclared", "name", "text", "publish", "file"}

CheckAuthParam(a, c, api, bad) ==
    LET res == rec[a].res
    IN  CASE \E b \in Apps : cbs[b] = c -> "CALLBACK_EXISTS"
          [] res = "NOT_SUPPORTED" -> "NOT_DEPLOY"
          [] res \in Granted \/ (api = "dialog" /\ res = "DENIED") -> "TRIGGER_CALLBACK"
          [] res = "NOT_DETERMINED" \/ (api = "banner" /\ res = "DENIED") -> "EXIST_OR_AUTHORIZED"
          [] OTHER -> IF api = "banner" /\ bad = "name" THEN "BANNER_FAIL" ELSE "OK"

\* PublishBannerNotification uses up a number even when it fails.
PublishBannerNotification(a, bad) ==
    /\ nidx' = nidx + 1
    /\ shade' = IF bad = "publish" THEN shade ELSE shade \cup {<<a, nidx + 1>>}

\* The user can be asked: the banner is shown, or the dialog may be opened.
Asked(a, c, api, bad) ==
    /\ cbs' = [cbs EXCEPT ![a] = c]
    /\ rec' = [rec EXCEPT ![a] = [res |-> "NOT_DETERMINED",
                                  nid |-> IF api = "banner" THEN nidx + 1 ELSE -1]]
    /\ IF bad = "file" THEN UNCHANGED saved /\ damaged' = TRUE
       ELSE saved' = rec' /\ damaged' = FALSE
    /\ IF api = "banner" THEN PublishBannerNotification(a, bad) ELSE UNCHANGED <<nidx, shade>>
    /\ UNCHANGED ansVars

\* Nobody is asked; an answer that is known is given at once.
NotAsked(c, answer) ==
    /\ UNCHANGED <<rec, cbs, saved, damaged>>
    /\ IF answer = "none" THEN UNCHANGED <<given, twice, jsq>>
       ELSE given' = given \cup {c} /\ twice' = (twice \/ c \in given) /\ jsq' = jsq \cup {<<c, answer>>}

\* RequestAuthFromUserInner; ok is what the JS binding sees.
RequestAuthFromUserInner(a, c, api, bad, ok) ==
    LET ret == CheckAuthParam(a, c, api, bad)
    IN  \/ /\ ret = "TRIGGER_CALLBACK"
           /\ ok = "told" /\ NotAsked(c, rec[a].res) /\ UNCHANGED <<nidx, shade>>
        \/ /\ ret = "OK" /\ api = "dialog" /\ bad = "undeclared"
           /\ ok = "error" /\ NotAsked(c, "NOT_SUPPORTED") /\ UNCHANGED <<nidx, shade>>
        \/ /\ ret = "OK" /\ api = "banner" /\ bad = "text"
           /\ ok = "error" /\ NotAsked(c, "none") /\ UNCHANGED <<nidx, shade>>
        \/ /\ ret = "OK" /\ api = "banner" /\ bad = "publish"
           /\ ok = "error" /\ NotAsked(c, "none") /\ PublishBannerNotification(a, bad)
        \/ /\ ret = "OK" /\ ~(api = "dialog" /\ bad = "undeclared")
           /\ ~(api = "banner" /\ bad \in {"text", "publish"})
           /\ ok = (IF bad = "file" THEN "error" ELSE "asked") /\ Asked(a, c, api, bad)
        \/ /\ ret \notin {"OK", "TRIGGER_CALLBACK"}
           /\ ok = "error" /\ NotAsked(c, "none") /\ UNCHANGED <<nidx, shade>>

\* SendRequest of the binding: AddCallback, the call, and RemoveCallback on an
\* error.  The dialog is opened by the next step.
RequestAuth ==
    \E a \in Apps, api \in Apis, bad \in Refusals,
       ok \in {"told", "asked", "error"} :
        LET c == <<a, proc[a].gen, proc[a].n + 1>>
        IN  /\ ready /\ proc[a].alive /\ proc[a].does = "idle"
            /\ proc[a].n < MaxReq /\ nidx < MaxNid
            /\ RequestAuthFromUserInner(a, c, api, bad, ok)
            /\ insts' = IF ok = "error" THEN insts ELSE insts \cup {c}
            /\ proc' = [proc EXCEPT ![a].n = @ + 1,
                                    ![a].does = IF ok = "asked" /\ api = "dialog" THEN "opens" ELSE "idle"]
            /\ UNCHANGED <<ready, backup, dialogs, posted, chosen>>

\* UIExtensionHelper::CreateUIExtension.
CreateUIExtension ==
    \E a \in Apps :
        /\ proc[a].alive /\ proc[a].does = "opens"
        /\ dialogs' = dialogs \cup {a}
        /\ proc' = [proc EXCEPT ![a].does = "idle"]
        /\ UNCHANGED <<ready, rec, cbs, saved, backup, nidx, shade, posted, insts, jsq, chosen,
                       given, twice, damaged>>

\* The dialog could not be opened: RemoveAuthRecord and RemoveCallback.  The call
\* fails when the service is not ready.
RemoveAuthRecordInner ==
    \E a \in Apps :
        /\ proc[a].alive /\ proc[a].does = "opens"
        /\ IF ~ready THEN UNCHANGED <<rec, cbs, saved, damaged>>
           ELSE /\ cbs' = [cbs EXCEPT ![a] = NoCallback]
                /\ IF rec[a] = NoRecord THEN UNCHANGED <<rec, saved, damaged>> ELSE SetRecord(a, NoRecord)
        /\ insts' = insts \ {<<a, proc[a].gen, proc[a].n>>}
        /\ proc' = [proc EXCEPT ![a].does = "idle"]
        /\ UNCHANGED <<ready, backup, nidx, shade, dialogs, posted, jsq, chosen, given, twice>>

\* The JS code is called and the instance forgotten; not while it waits for a call.
SetAuthCallback ==
    \E x \in jsq :
        /\ proc[x[1][1]].does = "idle"
        /\ jsq' = jsq \ {x}
        /\ insts' = insts \ {x[1]}
        /\ UNCHANGED <<ready, rec, cbs, saved, backup, nidx, shade, dialogs, posted, proc, chosen,
                       given, twice, damaged>>

-----------------------------------------------------------------------------
(* The user.                                                               *)

\* A button of a banner: the event names the label and the button.  The banner
\* stays until the manager withdraws it.
ClickBanner ==
    \E b \in shade, res \in Granted :
        /\ posted' = IF ready THEN posted \cup {<<"button", b[1], res>>} ELSE posted
        /\ chosen' = [chosen EXCEPT ![b[1]] = @ \cup {res}]
        /\ UNCHANGED <<ready, rec, cbs, saved, backup, nidx, shade, dialogs, appVars, given, twice, damaged>>

SwipeBanner ==
    \E b \in shade :
        /\ shade' = shade \ {b}
        /\ posted' = IF ready THEN posted \cup {<<"canceled", b[1], "none">>} ELSE posted
        /\ UNCHANGED <<ready, rec, cbs, saved, backup, nidx, dialogs, appVars, chosen, given, twice, damaged>>

\* A button of the dialog, which closes; "QUIT" when it is destroyed without one.
EnableNotification ==
    \E a \in dialogs, res \in Granted \cup {"DENIED", "QUIT"} :
        /\ dialogs' = dialogs \ {a}
        /\ posted' = IF ready THEN posted \cup {<<"dialog", a, res>>} ELSE posted
        /\ chosen' = [chosen EXCEPT ![a] = @ \cup ({res} \cap Granted)]
        /\ UNCHANGED <<ready, rec, cbs, saved, backup, nidx, shade, appVars, given, twice, damaged>>

\* The settings: the record is changed or made; nobody is told.
SetBackgroundTaskState ==
    \E a \in Apps, res \in Choices :
        /\ ready
        /\ SetRecord(a, [rec[a] EXCEPT !.res = res])
        /\ chosen' = [chosen EXCEPT ![a] = @ \cup ({res} \cap Granted)]
        /\ UNCHANGED <<ready, cbs, backup, nidx, shade, dialogs, posted, appVars, given, twice>>

-----------------------------------------------------------------------------
(* Events at the manager.                                                  *)

Handled(e) == posted' = posted \ {e}

OnBannerNotificationActionButtonClick(a) ==
    \E e \in posted :
            /\ e[2] = a /\ e[1] = "button" /\ ready
            /\ IF rec[a] = NoRecord
               THEN Handled(e) /\ UNCHANGED <<rec, cbs, saved, damaged, shade, ansVars>>
               ELSE /\ SetRecord(a, [rec[a] EXCEPT !.res = e[3]])
                    /\ IF rec[a].nid = -1 THEN UNCHANGED <<shade, cbs, ansVars>> /\ Handled(e)
                       ELSE Withdraw(a, e) /\ Answer(a, e[3])
            /\ UNCHANGED <<ready, backup, nidx, dialogs, proc, insts, chosen>>

\* The code of a dialog that was not answered is out of range.
OnPermissionDialogButtonClickInner(a) ==
    \E e \in posted :
            /\ e[2] = a /\ e[1] = "dialog" /\ ready
            /\ Handled(e)
            /\ IF e[3] = "QUIT" \/ rec[a] = NoRecord THEN UNCHANGED <<rec, cbs, saved, damaged, ansVars>>
               ELSE SetRecord(a, [rec[a] EXCEPT !.res = e[3]]) /\ Answer(a, e[3])
            /\ UNCHANGED <<ready, backup, nidx, shade, dialogs, proc, insts, chosen>>

\* A banner that is gone counts as a consent.
MutStopBannerConsents ==
    \E e \in posted :
        /\ e[1] = "canceled" /\ ready
        /\ Handled(e)
        /\ IF rec[e[2]] = NoRecord THEN UNCHANGED <<rec, saved, damaged>>
           ELSE SetRecord(e[2], [rec[e[2]] EXCEPT !.res = "GRANTED_ONCE"])
        /\ UNCHANGED <<ready, cbs, backup, nidx, shade, dialogs, appVars, chosen, given, twice>>

\* A banner is gone, whoever removed it: a record that grants nothing is erased.
StopBannerContinuousTaskByUserInner ==
    \E e \in posted :
        /\ e[1] = "canceled" /\ ready
        /\ Handled(e)
        /\ IF rec[e[2]] = NoRecord \/ rec[e[2]].res \in Granted THEN UNCHANGED <<rec, saved, damaged>>
           ELSE SetRecord(e[2], NoRecord)
        /\ UNCHANGED <<ready, cbs, backup, nidx, shade, dialogs, appVars, chosen, given, twice>>

\* The process of a callback died: its record goes, whatever it says by now.
HandleAuthExpiredCallbackDeathInner ==
    \E e \in posted :
        /\ e[1] = "died" /\ ready
        /\ IF \E a \in Apps : cbs[a] = e[2]
           THEN LET a == CHOOSE a \in Apps : cbs[a] = e[2]
                IN  /\ cbs' = [cbs EXCEPT ![a] = NoCallback]
                    /\ IF rec[a] = NoRecord THEN UNCHANGED <<rec, saved, damaged, shade>> /\ Handled(e)
                       ELSE SetRecord(a, NoRecord) /\ Withdraw(a, e)
           ELSE Handled(e) /\ UNCHANGED <<rec, cbs, saved, damaged, shade>>
        /\ UNCHANGED <<ready, backup, nidx, dialogs, appVars, chosen, given, twice>>

\* The part of OnAppStopped about records: what was granted once is over, for
\* every user of the bundle.
OnAppStopped ==
    \E e \in posted :
        /\ e[1] = "stopped" /\ ready
        /\ Handled(e)
        /\ LET over == {a \in Apps : BundleOf[a] = BundleOf[e[2]] /\ rec[a].res = "GRANTED_ONCE"}
           IN  /\ rec' = [a \in Apps |-> IF a \in over THEN NoRecord ELSE rec[a]]
               /\ IF over = {} THEN UNCHANGED <<saved, damaged>> ELSE saved' = rec' /\ damaged' = FALSE
        /\ UNCHANGED <<ready, cbs, backup, nidx, shade, dialogs, appVars, chosen, given, twice>>

\* A package was changed, replaced or removed.
OnBundleInfoChanged ==
    \E a \in Apps :
        /\ ready
        /\ rec[a] # NoRecord
        /\ SetRecord(a, NoRecord)
        /\ UNCHANGED <<ready, cbs, backup, nidx, shade, dialogs, posted, appVars, chosen, given, twice>>

-----------------------------------------------------------------------------
(* Processes, files and the service.                                       *)

\* The dialog of the application goes with it.
AppDies ==
    \E a \in Apps :
        /\ proc[a].alive
        /\ proc' = [proc EXCEPT ![a].alive = FALSE, ![a].does = "idle"]
        /\ insts' = {c \in insts : c[1] # a}
        /\ jsq' = {x \in jsq : x[1][1] # a}
        /\ dialogs' = dialogs \ {a}
        /\ posted' = IF ~ready THEN posted
                     ELSE posted \cup {<<"stopped", a, "none">>}
                            \cup {<<"died", c, "none">> : c \in {cbs[a]} \ {NoCallback}}
                            \cup (IF a \in dialogs THEN {<<"dialog", a, "QUIT">>} ELSE {})
        /\ UNCHANGED <<ready, rec, cbs, saved, backup, nidx, shade, chosen, given, twice, damaged>>

AppStarts ==
    \E a \in Apps :
        /\ ~proc[a].alive
        /\ proc[a].gen < MaxGen
        /\ proc' = [proc EXCEPT ![a] = [gen |-> @.gen + 1, alive |-> TRUE, n |-> 0, does |-> "idle"]]
        /\ UNCHANGED <<ready, rec, cbs, saved, backup, nidx, shade, dialogs, posted, insts, jsq, chosen,
                       given, twice, damaged>>

\* The process of the service dies.
Crash ==
    /\ ready
    /\ ready' = FALSE
    /\ rec' = NoRecords
    /\ cbs' = NoCallbacks
    /\ posted' = {}
    /\ UNCHANGED <<saved, usrVars, nidx, appVars, given, twice, damaged>>

\* A backup wins over what is known.
MutMergeOverwrites(old, new) == [a \in Apps |-> IF new[a] = NoRecord THEN old[a] ELSE new[a]]

\* RestoreAuthRecord: records that exist are kept.
Merge(old, new) == [a \in Apps |-> IF old[a] = NoRecord THEN new[a] ELSE old[a]]

\* HandlePersistenceData: when the processes cannot be listed the records are not
\* read, and the next change writes the file without them.
HandlePersistenceData ==
    \E listed \in BOOLEAN :
        /\ ~ready
        /\ ready' = TRUE
        /\ rec' = IF listed THEN Merge(NoRecords, saved) ELSE NoRecords
        /\ damaged' = ~listed
        /\ UNCHANGED <<cbs, saved, usrVars, nidx, posted, appVars, given, twice>>

OnBackup ==
    /\ ready
    /\ backup' = saved
    /\ UNCHANGED <<ready, svcVars, nidx, shade, dialogs, posted, appVars, chosen, given, twice, damaged>>

\* The file is overwritten before it is read: a backup that cannot be parsed
\* leaves one without records.
OnRestore ==
    \E parsed \in BOOLEAN :
        /\ ready
        /\ IF parsed THEN rec' = Merge(rec, backup) /\ saved' = rec' /\ damaged' = FALSE
           ELSE saved' = NoRecords /\ damaged' = TRUE /\ UNCHANGED rec
        /\ UNCHANGED <<ready, cbs, usrVars, nidx, posted, appVars, given, twice>>

-----------------------------------------------------------------------------
Init ==
    /\ ready = TRUE
    /\ rec = NoRecords /\ saved = NoRecords /\ backup = NoRecords
    /\ cbs = NoCallbacks
    /\ nidx = 0
    /\ shade = {} /\ dialogs = {} /\ posted = {} /\ insts = {} /\ jsq = {} /\ given = {}
    /\ proc = [a \in Apps |-> [gen |-> 1, alive |-> TRUE, n |-> 0, does |-> "idle"]]
    /\ chosen = [a \in Apps |-> {}]
    /\ twice = FALSE /\ damaged = FALSE

Handling ==
    \/ \E a \in Apps : OnBannerNotificationActionButtonClick(a) \/ OnPermissionDialogButtonClickInner(a)
    \/ StopBannerContinuousTaskByUserInner \/ HandleAuthExpiredCallbackDeathInner
    \/ OnAppStopped

User == ClickBanner \/ SwipeBanner \/ EnableNotification \/ SetBackgroundTaskState

Client == RequestAuth \/ CreateUIExtension \/ RemoveAuthRecordInner \/ SetAuthCallback

System == OnBundleInfoChanged \/ AppDies \/ AppStarts \/ Crash \/ HandlePersistenceData
          \/ OnBackup \/ OnRestore

Next == Handling \/ User \/ Client \/ System

\* The threads of the manager and of JS code do not stop.
Fairness ==
    /\ \A a \in Apps : WF_vars(OnBannerNotificationActionButtonClick(a))
    /\ WF_vars(CreateUIExtension \/ RemoveAuthRecordInner) /\ WF_vars(SetAuthCallback)

Spec == Init /\ [][Next]_vars
FairSpec == Spec /\ Fairness
-----------------------------------------------------------------------------
(* Properties.                                                             *)

TypeOK ==
    /\ ready \in BOOLEAN /\ twice \in BOOLEAN /\ damaged \in BOOLEAN
    /\ rec \in [Apps -> Record] /\ saved \in [Apps -> Record] /\ backup \in [Apps -> Record]
    /\ cbs \in [Apps -> Callbacks \cup {NoCallback}]
    /\ nidx \in Nat
    /\ shade \subseteq Apps \X Nat
    /\ dialogs \subseteq Apps
    /\ proc \in [Apps -> [gen : Nat, alive : BOOLEAN, n : Nat, does : {"idle", "opens"}]]
    /\ insts \subseteq Callbacks /\ given \subseteq Callbacks
    /\ jsq \subseteq Callbacks \X UserAuthResult
    /\ chosen \in [Apps -> SUBSET Granted]

\* Nothing is granted that the user did not choose: not in the records, the file or
\* a backup, through crashes, late events and restored records, nor in an answer.
GrantsAreChosen ==
    /\ \A a \in Apps : {rec[a].res, saved[a].res, backup[a].res} \cap Granted \subseteq chosen[a]
    /\ \A x \in jsq : x[2] \in Granted => x[2] \in chosen[x[1][1]]

\* The callback of a request is answered at most once, by the banner, the dialog or
\* at once.
AnsweredOnce == ~twice

\* Every operation leaves the file with the records, unless writing it failed.
FileMatchesRecords == ready /\ ~damaged => saved = rec

\* A denial turns into a grant only by a choice of the user that this very step
\* makes or handles; restored records do not undo it, unless the records had not
\* been read after a restart.
DeniedStays ==
    [][\A a \in Apps :
        ready /\ ~damaged /\ rec[a].res = "DENIED" /\ rec'[a].res \in Granted =>
            \/ SetBackgroundTaskState
            \/ \E e \in posted \ posted' : e[2] = a /\ e[3] = rec'[a].res]_vars

\* The manager handles a click on the banner of an application that waits for it.
Clicked(c) ==
    /\ c \in insts /\ cbs[c[1]] = c /\ rec[c[1]].nid # -1
    /\ \E res \in Granted : <<"button", c[1], res>> \in posted

\* A click on a banner reaches the JS code that asked for it, unless the record was
\* erased or replaced meanwhile or the service died.
ClickReachesApp ==
    \A c \in Apps \X (1..MaxGen) \X (1..MaxReq) :
        Clicked(c) ~> \/ c \notin insts \/ ~ready
                      \/ cbs[c[1]] = c /\ rec[c[1]].nid = -1
=============================================================================
