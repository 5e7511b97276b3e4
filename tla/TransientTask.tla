---------------------------- MODULE TransientTask ----------------------------
(***************************************************************************)
(* The transient task manager: BgTransientTaskMgr with its DecisionMaker,  *)
(* TimerManager, Watchdog and DeviceInfoManager.                           *)
(*                                                                         *)
(* Four kinds of thread take part.                                         *)
(*  - IPC threads run the calls of applications and of the suspend         *)
(*    manager.                                                             *)
(*  - The runner, one EventRunner thread, runs timers, watchdogs, screen   *)
(*    and battery events and posted tasks, one at a time.                  *)
(*  - The plugin thread delivers process events, one at a time and in      *)
(*    order.                                                               *)
(*  - A binder thread reports the death of callbacks.                      *)
(* An action is one critical section.  A handler that leaves a critical    *)
(* section and enters another is split there, and what it carries across   *)
(* is kept in runner, plugin or inner.                                     *)
(*                                                                         *)
(* An application stands for one (bundle name, uid) pair.                  *)
(***************************************************************************)
EXTENDS DelayAccounting, Sequences

CONSTANTS
    App, Pid, Callback,     \* applications, processes, expiry callback objects
    AppOf,                  \* the application of a process
    NoApp, NoCallback,      \* absent entries
    ExemptedApp,            \* transientTaskExemptedQuatoList_
    ExemptedQuota,          \* transientTaskExemptedQuato_
    DELAY_TIME_NORMAL, DELAY_TIME_LOW_POWER,
    ALLOW_REQUEST_TIME_BG,  \* GetAllowRequestTime()
    QUOTA_UPDATE,           \* length of a quota day
    IntMax,                 \* INT_MAX, scaled
    BootTime,               \* uptime when the service starts, > 0
    MaxTime,                \* bound on the clock
    MaxEvents               \* bound on process events on their way

ASSUME TransientAssumption ==
    /\ AppOf \in [Pid -> App]
    /\ NoApp \notin App
    /\ NoCallback \notin Callback
    /\ ExemptedApp \subseteq App
    /\ ExemptedQuota \in Nat
    /\ DELAY_TIME_NORMAL \in Nat
    /\ DELAY_TIME_LOW_POWER \in Nat
    /\ ALLOW_REQUEST_TIME_BG \in Nat
    /\ QUOTA_UPDATE \in Nat
    /\ IntMax \in Nat \ {0, 1}
    /\ BootTime \in Nat \ {0}
    /\ MaxTime \in Nat
    /\ MaxEvents \in Nat

VARIABLES
    clock,            \* TimeProvider::GetCurrentTime()
    \* DecisionMaker, under lock_
    requestId,        \* requestId_
    lastRequestTime,  \* lastRequestTime_
    pkg,              \* pkgDelaySuspendInfoMap_: quota part of each entry
    reqs,             \* its requestList_
    info,             \* the DelaySuspendInfoEx of each listed request
    timer,            \* TimerManager events: due time of the timer of a request
    bgTime,           \* pkgBgDurationMap_ (32-bit values)
    foreground,       \* foregroundUidPidMap_, under recMutex_
    \* BgTransientTaskMgr, under expiredCallbackLock_
    keyInfo,          \* keyInfoMap_
    callback,         \* expiredCallbackMap_
    watchdog,         \* Watchdog events: due times for each request
    pauseUid,         \* transientPauseUid_, under transientUidLock_
    \* DeviceInfoManager
    screenOn, lowPower, isDump,
    \* handlers between two critical sections
    runner, plugin, inner,
    \* the environment
    display,          \* the screen itself
    procs,            \* processes in the foreground, as AppMgr sees them
    events,           \* process events on their way to the plugin
    dead,             \* callbacks whose death was reported
    \* history
    started, appStarted,  \* TASK_START minus TASK_END posted; APP_TASK_START posted last
    expiredAt,        \* when OnExpired was first called for a request
    queryFailed,      \* the last GetForegroundApplications failed
    bgSince,          \* bgTime in 64 bits
    used              \* time an application had a counted request, this quota day

accounts == <<pkg, reqs, info, timer>>
decision == <<requestId, lastRequestTime, bgTime, bgSince, foreground>>
registry == <<keyInfo, callback, watchdog, dead, expiredAt, started, appStarted>>
device == <<screenOn, lowPower, isDump, display, queryFailed>>
processes == <<procs, events, plugin>>
vars == <<clock, accounts, decision, registry, pauseUid, device, runner, inner,
          processes, used>>

Exempted(a) == IF a \in ExemptedApp THEN ExemptedQuota ELSE 0

Idle == [op |-> "idle", id |-> 0, ids |-> {}, apps |-> {}, checked |-> {}]

RunnerStates ==
    [op : {"idle", "expired", "force", "screenOn", "screenOff", "cache", "caching",
           "die"},
     id : Ids \cup {0}, ids : SUBSET Ids, apps : SUBSET App, checked : SUBSET App]

Init ==
    /\ clock = BootTime
    /\ requestId = 1
    /\ lastRequestTime = 0
    /\ pkg = [a \in App |-> NoPackage]
    /\ reqs = [a \in App |-> {}]
    /\ info = [i \in Ids |-> NoRequest]
    /\ timer = [i \in Ids |-> {}]
    /\ bgTime = [a \in App |-> {}]
    /\ bgSince = [a \in App |-> {}]
    /\ foreground = {}
    /\ keyInfo = [i \in Ids |-> NoApp]
    /\ callback = [i \in Ids |-> NoCallback]
    /\ watchdog = [i \in Ids |-> {}]
    /\ pauseUid = {}
    /\ screenOn = TRUE
    /\ lowPower = FALSE
    /\ isDump = FALSE
    /\ runner = Idle
    /\ plugin = <<>>
    /\ inner = <<>>
    /\ display = TRUE
    /\ procs = {}
    /\ events = <<>>
    /\ dead = {}
    /\ started = [a \in App |-> 0]
    /\ appStarted = {}
    /\ expiredAt = [i \in Ids |-> 0]
    /\ queryFailed = FALSE
    /\ used = [a \in App |-> 0]

-----------------------------------------------------------------------------
(* Helpers of DecisionMaker.                                               *)

IsUidForeground(a) == \E p \in foreground : AppOf[p] = a

CanStartAccounting(a) == ~screenOn \/ ~IsUidForeground(a)

RequestsOf(A) == {i \in Ids : \E a \in A : i \in reqs[a]}

\* PkgDelaySuspendInfo::StartAccounting() on every application of A.
StartAccounting(A) ==
    /\ pkg' = [a \in App |-> IF a \in A
                             THEN StartPackage(pkg[a], reqs[a], Exempted(a), clock)
                             ELSE pkg[a]]
    /\ info' = StartInfo(info, RequestsOf(A), clock)
    /\ timer' = StartTimer(timer, info, RequestsOf(A), clock)
    /\ UNCHANGED reqs

\* PkgDelaySuspendInfo::StopAccountingAll() on every application of A.
StopAccountingAll(A) ==
    /\ pkg' = [a \in App |-> IF a \in A
                             THEN StopPackage(pkg[a], Exempted(a), clock) ELSE pkg[a]]
    /\ info' = StopInfo(info, RequestsOf(A), clock)
    /\ timer' = StopTimer(timer, info, RequestsOf(A))
    /\ UNCHANGED reqs

\* TryStartAccounting without CanStartAccountingLocked.
MutMayTryStartAlways(a) == pkg[a].present

\* TryStartAccounting succeeds.
MayTryStart(a) == pkg[a].present /\ CanStartAccounting(a)

NotInPresetTime(a) == \E t \in bgTime[a] : clock - t > ALLOW_REQUEST_TIME_BG

IsAfterOneDay == clock - lastRequestTime > QUOTA_UPDATE

\* ResetDayQuotaLocked: what it leaves of each package.
DayPackage(a) ==
    IF ~IsAfterOneDay \/ ~pkg[a].present THEN pkg[a]
    ELSE IF reqs[a] = {} THEN NoPackage
    ELSE ResetQuota(pkg[a], Exempted(a), clock)

ResetDayQuota ==
    /\ lastRequestTime' = IF IsAfterOneDay THEN clock ELSE lastRequestTime
    /\ used' = IF IsAfterOneDay THEN [a \in App |-> 0] ELSE used

NewDelaySuspendRequestId == IF requestId = IntMax THEN 1 ELSE requestId

\* APP_TASK_START posted for the second request instead of the first.
MutSecondRequest(a) == Cardinality(reqs[a]) = 1

\* pkgInfo->GetRequestSize() == 1, once the new request is in the list.
FirstRequest(a) == reqs[a] = {}

GetDelayTime == IF lowPower THEN DELAY_TIME_LOW_POWER ELSE DELAY_TIME_NORMAL

\* CancelSuspendDelayLocked, or the body of HandleExpiredCallbackDeath, for
\* the requests of S: watchdog, request, timer, quota, notices and both maps.
RemoveOf(a, S) == {i \in S : keyInfo[i] = a}

CancelLocked(S) ==
    LET gone == {i \in S : \E a \in App : keyInfo[i] = a /\ i \in reqs[a]} IN
    /\ watchdog' = [i \in Ids |-> IF i \in S THEN {} ELSE watchdog[i]]
    /\ keyInfo' = [i \in Ids |-> IF i \in S THEN NoApp ELSE keyInfo[i]]
    /\ callback' = [i \in Ids |-> IF i \in S THEN NoCallback ELSE callback[i]]
    /\ pkg' = [a \in App |-> RemovePackage(pkg[a], reqs[a], RemoveOf(a, S),
                                           Exempted(a), clock)]
    /\ reqs' = [a \in App |-> reqs[a] \ RemoveOf(a, S)]
    /\ timer' = StopTimer(timer, info, gone)
    /\ info' = ForgetInfo(info, gone)
    /\ started' = [a \in App |-> started[a] -
                     (IF pkg[a].present THEN Cardinality(RemoveOf(a, S)) ELSE 0)]
    /\ appStarted' = {a \in appStarted :
                        RemoveOf(a, S) # {} => ~(pkg[a].present /\ reqs'[a] = {})}

-----------------------------------------------------------------------------
(* Calls of applications, on IPC threads.                                  *)

\* Decide refuses: the daily reset is kept, and so are a new package and the
\* quota brought up to date once the refusal came after them.
RefuseNotInPresetTime(a) ==
    /\ NotInPresetTime(a)
    /\ pkg' = [b \in App |-> DayPackage(b)]
    /\ UNCHANGED <<reqs, info, timer, requestId, keyInfo, callback, watchdog,
                   expiredAt, started, appStarted>>

OpenPackage(a) == IF DayPackage(a).present THEN DayPackage(a) ELSE NewPackage

RefuseExceedsThreshold(a) ==
    /\ ~NotInPresetTime(a)
    /\ Cardinality(reqs[a]) >= MAX_REQUEST_ID
    /\ pkg' = [b \in App |-> IF b = a THEN OpenPackage(a) ELSE DayPackage(b)]
    /\ UNCHANGED <<reqs, info, timer, requestId, keyInfo, callback, watchdog,
                   expiredAt, started, appStarted>>

\* IsAllowRequest brings the quota up to date before it compares it.
CurrentPackage(a) == UpdateQuota(OpenPackage(a), Exempted(a), clock)

RefuseTimeInsufficient(a) ==
    /\ ~NotInPresetTime(a)
    /\ Cardinality(reqs[a]) < MAX_REQUEST_ID
    /\ CurrentPackage(a).quota < MIN_ALLOW_QUOTA_TIME
    /\ a \notin ExemptedApp
    /\ pkg' = [b \in App |-> IF b = a THEN CurrentPackage(a) ELSE DayPackage(b)]
    /\ UNCHANGED <<reqs, info, timer, requestId, keyInfo, callback, watchdog,
                   expiredAt, started, appStarted>>

Grant(a, cb) ==
    LET p   == CurrentPackage(a)
        low == p.quota < MIN_ALLOW_QUOTA_TIME
        id  == NewDelaySuspendRequestId
        new == [info EXCEPT ![id] =
                  [NoRequest EXCEPT !.actual =
                     GrantedTime(p, GetDelayTime, low, ExemptedQuota)]]
        S   == IF CanStartAccounting(a) THEN {id} ELSE {}
    IN /\ ~NotInPresetTime(a)
       /\ Cardinality(reqs[a]) < MAX_REQUEST_ID
       /\ low => a \in ExemptedApp
       /\ id \in Ids
       /\ requestId' = id + 1
       /\ pkg' = [b \in App |-> IF b = a THEN StartPackage(p, S, Exempted(a), clock)
                                ELSE DayPackage(b)]
       /\ reqs' = [reqs EXCEPT ![a] = @ \cup {id}]
       /\ info' = StartInfo(new, S, clock)
       /\ timer' = StartTimer(timer, new, S, clock)
       /\ keyInfo' = [keyInfo EXCEPT ![id] = a]
       /\ callback' = [callback EXCEPT ![id] = cb]
       /\ started' = [started EXCEPT ![a] = @ + 1]
       /\ appStarted' = IF FirstRequest(a) THEN appStarted \cup {a} ELSE appStarted
       /\ expiredAt' = [expiredAt EXCEPT ![id] = 0]
       /\ UNCHANGED watchdog

\* CancelCached, below, keeps expiredCallbackLock_ from its first request to its
\* last; every other handler that takes it does so for one action.
ExpiredCallbackLockFree == runner.op # "caching"

\* BgTransientTaskMgr::RequestSuspendDelay with DecisionMaker::Decide.  A
\* callback object that is already registered changes nothing.  The process may
\* have died while its call was on the way; the death is not reported again.
RequestSuspendDelay(a, cb) ==
    /\ ExpiredCallbackLockFree
    /\ \A i \in Ids : callback[i] # cb
    /\ ResetDayQuota
    /\ \/ RefuseNotInPresetTime(a)
       \/ RefuseExceedsThreshold(a)
       \/ RefuseTimeInsufficient(a)
       \/ Grant(a, cb)
    /\ UNCHANGED <<clock, bgTime, bgSince, foreground, dead, pauseUid, device,
                   runner, inner, processes>>

CancelSuspendDelay(a, id) ==
    /\ ExpiredCallbackLockFree
    /\ keyInfo[id] = a
    /\ CancelLocked({id})
    /\ UNCHANGED <<clock, decision, dead, expiredAt, pauseUid, device, runner,
                   inner, processes, used>>

\* GetAllTransientTasks and DumpAllRequestId bring the quota up to date.
GetQuota(a) ==
    /\ pkg[a].present
    /\ pkg' = [pkg EXCEPT ![a] = UpdateQuota(@, Exempted(a), clock)]
    /\ UNCHANGED <<clock, reqs, info, timer, decision, registry, pauseUid, device,
                   runner, inner, processes, used>>

\* The death of a callback that leaves the request behind.
MutDeathKeepsRequest(cb) ==
    /\ ExpiredCallbackLockFree
    /\ cb \notin dead
    /\ dead' = dead \cup {cb}
    /\ callback' = [i \in Ids |-> IF callback[i] = cb THEN NoCallback ELSE callback[i]]
    /\ UNCHANGED <<clock, accounts, decision, keyInfo, watchdog, started, appStarted,
                   expiredAt, pauseUid, device, runner, inner, processes, used>>

\* HandleExpiredCallbackDeath, on a binder thread.
HandleExpiredCallbackDeath(cb) ==
    /\ ExpiredCallbackLockFree
    /\ cb \notin dead
    /\ dead' = dead \cup {cb}
    /\ CancelLocked({i \in Ids : callback[i] = cb})
    /\ UNCHANGED <<clock, decision, expiredAt, pauseUid, device, runner, inner,
                   processes, used>>

AppNext ==
    \/ \E a \in App, cb \in Callback : RequestSuspendDelay(a, cb)
    \/ \E a \in App, id \in Ids : CancelSuspendDelay(a, id)
    \/ \E a \in App : GetQuota(a)
    \/ \E cb \in Callback : HandleExpiredCallbackDeath(cb)

-----------------------------------------------------------------------------
(* The runner.  runner.op names the handler that is between two critical   *)
(* sections, or the event that was taken off the queue and waits for the   *)
(* handler's lock.                                                         *)

DueTimes == UNION {timer[i] \cup watchdog[i] : i \in Ids}

\* EventHandler takes the event that is due first.
Due(t) == t <= clock /\ \A u \in DueTimes : t <= u

\* TimerManager::ProcessEvent and Watchdog::ProcessEvent are entered.
TakeTimer(i) ==
    /\ runner = Idle
    /\ \E t \in timer[i] : Due(t)
    /\ timer' = [timer EXCEPT ![i] = {}]
    /\ runner' = [Idle EXCEPT !.op = "expired", !.id = i]
    /\ UNCHANGED <<clock, pkg, reqs, info, decision, registry, pauseUid, device,
                   inner, processes, used>>

TakeWatchdog(i) ==
    /\ runner = Idle
    /\ \E t \in watchdog[i] :
         /\ Due(t)
         /\ watchdog' = [watchdog EXCEPT ![i] = @ \ {t}]
    /\ runner' = [Idle EXCEPT !.op = "force", !.id = i]
    /\ UNCHANGED <<clock, accounts, decision, keyInfo, callback, dead, expiredAt,
                   started, appStarted, pauseUid, device, inner, processes, used>>

\* A watchdog without its delay.
MutWatchdogAtOnce == clock

WatchdogTime == clock + WATCHDOG_DELAY_TIME

\* HandleRequestExpired: it finds the callback, or returns.
HandleRequestExpired ==
    /\ runner.op = "expired"
    /\ runner' = Idle
    /\ LET i == runner.id IN
       IF callback[i] = NoCallback
       THEN UNCHANGED <<watchdog, expiredAt>>
       ELSE /\ expiredAt' = [expiredAt EXCEPT ![i] = IF @ = 0 THEN clock ELSE @]
            /\ watchdog' = IF keyInfo[i] = NoApp THEN watchdog
                           ELSE [watchdog EXCEPT ![i] = @ \cup {WatchdogTime}]
    /\ UNCHANGED <<clock, accounts, decision, keyInfo, callback, dead, started,
                   appStarted, pauseUid, device, inner, processes, used>>

\* A watchdog that spares a request that is not being counted.
MutForceCancelCounted ==
    /\ runner.op = "force"
    /\ runner' = Idle
    /\ IF keyInfo[runner.id] = NoApp \/ ~Counted(info[runner.id])
       THEN UNCHANGED <<accounts, keyInfo, callback, watchdog, started, appStarted>>
       ELSE CancelLocked({runner.id})
    /\ UNCHANGED <<clock, decision, dead, expiredAt, pauseUid, device, inner,
                   processes, used>>

ForceCancelSuspendDelay ==
    /\ runner.op = "force"
    /\ runner' = Idle
    /\ IF keyInfo[runner.id] = NoApp
       THEN UNCHANGED <<accounts, keyInfo, callback, watchdog, started, appStarted>>
       ELSE CancelLocked({runner.id})
    /\ UNCHANGED <<clock, decision, dead, expiredAt, pauseUid, device, inner,
                   processes, used>>

\* A screen event: DeviceInfoManager::OnInputEvent first, unless a dump command
\* froze it, then DecisionMaker::OnInputEvent.
ScreenEvent ==
    /\ runner = Idle
    /\ display' = ~display
    /\ screenOn' = IF isDump THEN screenOn ELSE display'
    /\ runner' = [Idle EXCEPT !.op = IF display' THEN "screenOn" ELSE "screenOff"]
    /\ UNCHANGED <<clock, accounts, decision, registry, pauseUid, lowPower, isDump, queryFailed,
                   inner, processes, used>>

\* HandleScreenOn; GetForegroundApplications may fail.
HandleScreenOn ==
    /\ runner.op = "screenOn"
    /\ runner' = Idle
    /\ \/ /\ StopAccountingAll({a \in App : /\ pkg[a].present
                                            /\ \E p \in procs : AppOf[p] = a})
          /\ queryFailed' = FALSE
       \/ /\ UNCHANGED accounts
          /\ queryFailed' = TRUE
    /\ UNCHANGED <<clock, decision, registry, pauseUid, screenOn, lowPower, isDump,
                   display, inner, processes, used>>

HandleScreenOff ==
    /\ runner.op = "screenOff"
    /\ runner' = Idle
    /\ StartAccounting({a \in App : a \notin pauseUid /\ MayTryStart(a)})
    /\ UNCHANGED <<clock, decision, registry, pauseUid, device, inner, processes, used>>

\* A battery event: a real one, or one a dump command published.  The command
\* freezes the device state against real events until it is cancelled.
BatteryEvent ==
    /\ runner = Idle
    /\ lowPower' = ~lowPower
    /\ UNCHANGED <<clock, accounts, decision, registry, pauseUid, screenOn, isDump,
                   display, queryFailed, runner, inner, processes, used>>

SetDump(value) ==
    /\ isDump' = value
    /\ UNCHANGED <<clock, accounts, decision, registry, pauseUid, screenOn, lowPower,
                   display, queryFailed, runner, inner, processes, used>>

\* OnAppCacheStateChanged reads the request ids under lock_, releases it, and
\* cancels them one by one under expiredCallbackLock_.
OnAppCacheStateChanged(a) ==
    /\ runner = Idle
    /\ reqs[a] # {}
    /\ runner' = [Idle EXCEPT !.op = "cache", !.ids = reqs[a]]
    /\ UNCHANGED <<clock, accounts, decision, registry, pauseUid, device, inner,
                   processes, used>>

CancelCached(i) ==
    /\ runner.op \in {"cache", "caching"}
    /\ i \in runner.ids
    /\ runner' = IF runner.ids = {i} THEN Idle
                 ELSE [runner EXCEPT !.op = "caching", !.ids = @ \ {i}]
    /\ CancelLocked({i})
    /\ UNCHANGED <<clock, decision, dead, expiredAt, pauseUid, device, inner,
                   processes, used>>

\* HandleSuspendManagerDie holds transientUidLock_ while it starts the accounting
\* of every paused application: runner.apps are those still to do, and the one in
\* runner.checked passed the IsUidForeground check and waits for
\* lock_.  GetBundleNamesForUid may fail for one.
HandleSuspendManagerDie ==
    /\ runner = Idle
    /\ runner' = [Idle EXCEPT !.op = "die", !.apps = pauseUid]
    /\ UNCHANGED <<clock, accounts, decision, registry, pauseUid, device, inner,
                   processes, used>>

DieCheck(a) ==
    /\ runner.op = "die"
    /\ runner.checked = {}
    /\ a \in runner.apps
    /\ \/ runner' = [runner EXCEPT !.apps = @ \ {a}]
       \/ /\ ~IsUidForeground(a)
          /\ runner' = [runner EXCEPT !.checked = {a}]
    /\ UNCHANGED <<clock, accounts, decision, registry, pauseUid, device, inner,
                   processes, used>>

DieStart(a) ==
    /\ runner.op = "die"
    /\ a \in runner.checked
    /\ runner' = [runner EXCEPT !.apps = @ \ {a}, !.checked = {}]
    /\ IF MayTryStart(a) THEN StartAccounting({a}) ELSE UNCHANGED accounts
    /\ UNCHANGED <<clock, decision, registry, pauseUid, device, inner, processes, used>>

DieEnd ==
    /\ runner.op = "die"
    /\ runner.apps = {}
    /\ runner' = Idle
    /\ pauseUid' = {}
    /\ UNCHANGED <<clock, accounts, decision, registry, device, inner, processes, used>>

TimerNext ==
    \/ \E i \in Ids : TakeTimer(i) \/ TakeWatchdog(i)
    \/ HandleRequestExpired
    \/ ForceCancelSuspendDelay

ScreenNext == ScreenEvent \/ HandleScreenOn \/ HandleScreenOff

BatteryNext == BatteryEvent \/ \E value \in BOOLEAN : SetDump(value)

CacheNext ==
    \/ \E a \in App : OnAppCacheStateChanged(a)
    \/ \E i \in Ids : CancelCached(i)

-----------------------------------------------------------------------------
(* Pause and Start, called by the suspend manager one after the other.     *)
(* inner is <<>> or <<step, application>>.                                 *)

PauseTransientTaskTimeForInner(a) ==
    /\ inner = <<>>
    /\ ~IsUidForeground(a)
    /\ inner' = <<"pause", a>>
    /\ UNCHANGED <<clock, accounts, decision, registry, pauseUid, device, runner,
                   processes, used>>

PauseStop(a) ==
    /\ inner = <<"pause", a>>
    /\ IF pkg[a].present
       THEN /\ inner' = <<"paused", a>>
            /\ StopAccountingAll({a})
       ELSE /\ inner' = <<>>
            /\ UNCHANGED accounts
    /\ UNCHANGED <<clock, decision, registry, pauseUid, device, runner, processes, used>>

PauseInsert(a) ==
    /\ inner = <<"paused", a>>
    /\ runner.op # "die"
    /\ inner' = <<>>
    /\ pauseUid' = pauseUid \cup {a}
    /\ UNCHANGED <<clock, accounts, decision, registry, device, runner, processes, used>>

StartTransientTaskTimeForInner(a) ==
    /\ inner = <<>>
    /\ ~IsUidForeground(a)
    /\ inner' = <<"start", a>>
    /\ UNCHANGED <<clock, accounts, decision, registry, pauseUid, device, runner,
                   processes, used>>

StartTry(a) ==
    /\ inner = <<"start", a>>
    /\ IF MayTryStart(a)
       THEN /\ inner' = <<"started", a>>
            /\ StartAccounting({a})
       ELSE /\ inner' = <<>>
            /\ UNCHANGED accounts
    /\ UNCHANGED <<clock, decision, registry, pauseUid, device, runner, processes, used>>

StartErase(a) ==
    /\ inner = <<"started", a>>
    /\ runner.op # "die"
    /\ inner' = <<>>
    /\ pauseUid' = pauseUid \ {a}
    /\ UNCHANGED <<clock, accounts, decision, registry, device, runner, processes, used>>

InnerNext ==
    \/ \E a \in App : \/ PauseTransientTaskTimeForInner(a)
                      \/ PauseStop(a)
                      \/ PauseInsert(a)
                      \/ StartTransientTaskTimeForInner(a)
                      \/ StartTry(a)
                      \/ StartErase(a)
                      \/ DieCheck(a)
                      \/ DieStart(a)
    \/ HandleSuspendManagerDie
    \/ DieEnd

-----------------------------------------------------------------------------
(* Process events, from AppMgr through the plugin.                         *)

\* A process changes state, or dies, and AppMgr sends the event.  The other states
\* (created, ready, terminated) are those of processes that are not in the
\* foreground; their events change nothing.
ProcessChanges(p, kind) ==
    /\ Len(events) < MaxEvents
    /\ kind = "foreground" => p \notin procs
    /\ kind = "background" => p \in procs
    /\ procs' = IF kind = "foreground" THEN procs \cup {p} ELSE procs \ {p}
    /\ events' = Append(events, <<kind, p>>)
    /\ UNCHANGED <<clock, accounts, decision, registry, pauseUid, device, runner,
                   inner, plugin, used>>

\* OnProcessStateChanged and OnProcessDied: UpdateForegroundUidPidMap first.
UpdateForegroundUidPidMap ==
    /\ plugin = <<>>
    /\ events # <<>>
    /\ plugin' = Head(events)
    /\ events' = Tail(events)
    /\ foreground' = IF Head(events)[1] = "foreground"
                     THEN foreground \cup {Head(events)[2]}
                     ELSE foreground \ {Head(events)[2]}
    /\ UNCHANGED <<clock, accounts, requestId, lastRequestTime, bgTime, bgSince,
                   registry, pauseUid, device, runner, inner, procs, used>>

\* The time in the background is not forgotten in the foreground.
MutForegroundKeepsTime(a) ==
    /\ IF pkg[a].present THEN StopAccountingAll({a}) ELSE UNCHANGED accounts
    /\ bgSince' = [bgSince EXCEPT ![a] = {}]
    /\ UNCHANGED bgTime

\* HandleStateChange, or TryStartAccounting when the process died.
HandleForeground(a) ==
    /\ IF pkg[a].present THEN StopAccountingAll({a}) ELSE UNCHANGED accounts
    /\ bgTime' = [bgTime EXCEPT ![a] = {}]
    /\ bgSince' = [bgSince EXCEPT ![a] = {}]

HandleBackground(a) ==
    IF MayTryStart(a)
    THEN /\ StartAccounting({a})
         /\ bgTime' = [bgTime EXCEPT ![a] = {ToInt32(clock)}]
         /\ bgSince' = [bgSince EXCEPT ![a] = {clock}]
    ELSE UNCHANGED <<accounts, bgTime, bgSince>>

HandleDied(a) ==
    /\ IF MayTryStart(a) THEN StartAccounting({a}) ELSE UNCHANGED accounts
    /\ UNCHANGED <<bgTime, bgSince>>

HandleStateChange ==
    /\ plugin # <<>>
    /\ plugin' = <<>>
    /\ LET a == AppOf[plugin[2]] IN
       \/ plugin[1] = "foreground" /\ HandleForeground(a)
       \/ plugin[1] = "background" /\ HandleBackground(a)
       \/ plugin[1] = "died" /\ HandleDied(a)
    /\ UNCHANGED <<clock, requestId, lastRequestTime, foreground, registry, pauseUid,
                   device, runner, inner, procs, events, used>>

ProcessNext ==
    \/ \E p \in Pid, kind \in {"foreground", "background", "died"} :
         ProcessChanges(p, kind)
    \/ UpdateForegroundUidPidMap
    \/ HandleStateChange

-----------------------------------------------------------------------------
(* Time.                                                                   *)

AnyCounted(a) == \E i \in reqs[a] : Counted(info[i])

Tick ==
    /\ clock < MaxTime
    /\ clock' = clock + 1
    /\ used' = [a \in App |-> IF AnyCounted(a) THEN used[a] + 1 ELSE used[a]]
    /\ UNCHANGED <<accounts, decision, registry, pauseUid, device, runner, inner,
                   processes>>

Next ==
    \/ AppNext
    \/ TimerNext
    \/ ScreenNext
    \/ BatteryNext
    \/ CacheNext
    \/ InnerNext
    \/ ProcessNext
    \/ Tick

Spec == Init /\ [][Next]_vars

-----------------------------------------------------------------------------
(* Properties.                                                             *)

\* Every variable has its type; a quota is never negative nor above INIT_QUOTA,
\* which is what the clamp in PkgDelaySuspendInfo::UpdateQuota is for.
TypeOK ==
    /\ clock \in Nat \ {0}
    /\ requestId \in 1 .. (MaxRequests + 1)
    /\ lastRequestTime \in Nat
    /\ pkg \in [App -> Package]
    /\ reqs \in [App -> SUBSET Ids]
    /\ info \in [Ids -> Request]
    /\ timer \in [Ids -> SUBSET Nat]
    /\ bgTime \in [App -> SUBSET Int]
    /\ bgSince \in [App -> SUBSET Nat]
    /\ foreground \in SUBSET Pid
    /\ keyInfo \in [Ids -> App \cup {NoApp}]
    /\ callback \in [Ids -> Callback \cup {NoCallback}]
    /\ watchdog \in [Ids -> SUBSET Nat]
    /\ pauseUid \in SUBSET App
    /\ screenOn \in BOOLEAN /\ lowPower \in BOOLEAN /\ isDump \in BOOLEAN
    /\ display \in BOOLEAN /\ queryFailed \in BOOLEAN
    /\ runner \in RunnerStates
    /\ plugin \in ({"foreground", "background", "died"} \X Pid) \cup {<<>>}
    /\ inner \in ({"pause", "paused", "start", "started"} \X App) \cup {<<>>}
    /\ procs \in SUBSET Pid
    /\ events \in Seq({"foreground", "background", "died"} \X Pid)
    /\ dead \in SUBSET Callback
    /\ started \in [App -> Int]
    /\ appStarted \in SUBSET App
    /\ expiredAt \in [Ids -> Nat]
    /\ used \in [App -> Nat]

\* keyInfoMap_, expiredCallbackMap_ and the request lists of DecisionMaker are
\* three registries under two locks, changed by the request, cancel, callback
\* death, watchdog and app-cache handlers; they always hold the same requests.
RegistriesAgree ==
    \A i \in Ids :
      /\ keyInfo[i] = NoApp <=> callback[i] = NoCallback
      /\ \A a \in App : i \in reqs[a] <=> keyInfo[i] = a

\* A counted request cannot be forgotten: at every moment its timer or its
\* watchdog is pending, or the runner has just taken one of them, whatever
\* stops, restarts and cancellations came between (StartAccounting,
\* StopAccounting, HandleRequestExpired).
CountedIsWatched ==
    \A i \in Ids : Counted(info[i]) =>
      \/ timer[i] # {}
      \/ watchdog[i] # {}
      \/ runner.op \in {"expired", "force"} /\ runner.id = i

\* No event outlives what it is for: a pending timer belongs to a request that
\* is being counted (StopAccounting removes it), a pending watchdog to a
\* request that exists (CancelSuspendDelayLocked removes it).
NoStrayEvents ==
    \A i \in Ids :
      /\ timer[i] # {} => Counted(info[i])
      /\ watchdog[i] # {} => keyInfo[i] # NoApp

\* The quota of an application is being charged whenever one of its requests is
\* being counted: isCounting_ covers every DelaySuspendInfoEx with a base time.
CountedIsCharged ==
    \A a \in App : AnyCounted(a) => pkg[a].counting

\* What is left of the quota and the time the application really had a counted
\* request add up to no more than the quota of the day, as long as some is
\* left: no sequence of starts, stops, queries and daily resets lets counted
\* time go uncharged (UpdateQuota rebases baseTime_ on every call).
QuotaLeft(a) ==
    pkg[a].quota - (IF pkg[a].counting THEN GetModifiedTime(pkg[a], 0, clock) ELSE 0)

CountedTimeIsSpent ==
    \A a \in App \ ExemptedApp :
      QuotaLeft(a) > 0 => used[a] + QuotaLeft(a) <= INIT_QUOTA

\* With the screen on, no request of an application in the foreground is counted
\* once the process events have been handled: OnProcessStateChanged,
\* HandleScreenOn and TryStartAccounting agree although they read the
\* foreground map under another lock.  A failed GetForegroundApplications
\* leaves the accounting of HandleScreenOn undone.
Settled == plugin = <<>> /\ events = <<>> /\ runner.op # "screenOn"

ForegroundNotCounted ==
    Settled /\ screenOn /\ ~queryFailed =>
      \A a \in App : IsUidForeground(a) => ~AnyCounted(a)

\* Subscribers can rebuild the state from the notices: as many TASK_START as
\* TASK_END are missing as requests exist, and APP_TASK_START is the last
\* application notice exactly while there is one.  RemoveRequest posts
\* TASK_END without looking whether the request was in the list.
NoticesMatch ==
    /\ \A a \in App : started[a] = Cardinality(reqs[a])
    /\ appStarted = {a \in App : reqs[a] # {}}

\* OnExpired is called only when no more than the advance time of the request is
\* left, even when the timer was taken off the queue before a stop, and a request
\* is cancelled by force only when its application was told through OnExpired at
\* least WATCHDOG_DELAY_TIME before.
WarnedInTime ==
    [][/\ \A i \in Ids : expiredAt[i] = 0 /\ expiredAt'[i] # 0 =>
            GetRemainDelayTime(info[i], clock) <= AdvanceTime
       /\ runner.op = "force" /\ runner' = Idle /\ keyInfo[runner.id] # NoApp =>
            /\ expiredAt[runner.id] # 0
            /\ clock >= expiredAt[runner.id] + WATCHDOG_DELAY_TIME]_vars

\* README: "The time quota is 3 minutes per time and 10 minutes per day".  The
\* time an application has a counted request is at most INIT_QUOTA in a quota
\* day (AddRequest grants no more than the quota left, UpdateQuota charges it).
DailyQuota == \A a \in App \ ExemptedApp : used[a] <= INIT_QUOTA

\* README: "An application can request a transient task only when it is running
\* in the foreground or before it is suspended in the background".  As long as
\* the uptime fits 32 bits, Decide refuses an application for its time in the
\* background only when it is there and that time is over ALLOW_REQUEST_TIME_BG.
RefusedOnlyAfterWindow ==
    \A a \in App : NotInPresetTime(a) =>
      \E t \in bgSince[a] : clock - t > ALLOW_REQUEST_TIME_BG

\* An application that was warned by OnExpired has its request removed, by itself
\* or by the watchdog, and a request that is counted does not stay so: it is stopped
\* or removed within the time granted and the watchdog delay.  Both as long as time
\* goes on long enough (HandleRequestExpired, ForceCancelSuspendDelay).
RequestsEnd ==
    \A i \in Ids :
      /\ (expiredAt[i] # 0 /\ clock + WATCHDOG_DELAY_TIME <= MaxTime) ~> keyInfo[i] = NoApp
      /\ (Counted(info[i]) /\ clock + info[i].actual + WATCHDOG_DELAY_TIME <= MaxTime)
           ~> ~Counted(info[i])
=============================================================================
