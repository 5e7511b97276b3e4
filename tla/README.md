# Verification of the background task manager

TLA+ models of the background task manager (`src/`), the TLC runs that check
them on small instances and the proofs that hold for every value of the
constants.  `PROJECT.json` lists components, runs, mutants, the map from
definitions to source lines, findings, hazards and theorems.

## The system

One system ability, `BackgroundTaskMgrService`, hosts three managers which share
one `EventRunner` thread ("the runner"):

| part | source | what it does |
| --- | --- | --- |
| transient tasks | `services/transient_task` | An application that goes to the background may delay its suspension. `BgTransientTaskMgr` keeps callbacks and keys, `DecisionMaker` decides and starts and stops accounting, `PkgDelaySuspendInfo` and `DelaySuspendInfoEx` count time, `TimerManager` and `Watchdog` are delayed events of the runner, `InputManager`, `EventHub` and `DeviceInfoManager` deliver screen and battery events. |
| continuous tasks | `services/continuous_task` | Records of long tasks by uid, ability and task id; start, update, stop, suspend, activate; the notification of each; the user's authorisation of special-scenario tasks (banner or dialog). All on the runner. |
| efficiency resources | `services/efficiency_resources` | Resource bits applied by applications and processes, for a time or for good, with a delayed reset; a quota for CPU. On the runner, except the checks on the calling thread. |
| service | `services/core` | Readiness of the managers, permission checks, forwarding, dump. |
| common | `services/common` | Observers of applications and system events, persistence (`DataStorageHelper`), configuration (`BgtaskConfig`), helpers with cached proxies. |
| plugin | `services/plugin` | Process, audio and event messages from the resource scheduler, on its thread. |
| client side | `frameworks`, `interfaces` | Proxy with a death recipient; parcelables; bindings for JavaScript, ArkTS static, C and Cangjie. |
| dialogs | `resources` | User interface of the authorisation. |

Calls of applications come on IPC threads, deaths of remote objects on a binder
thread, process events on the plugin thread.

## Modules

| module | models |
| --- | --- |
| `DelayAccounting` | The arithmetic of one request and of one application's quota, as pure operators: `PkgDelaySuspendInfo`, `DelaySuspendInfoEx`. |
| `TransientTask` | The transient manager: requests, cancellation, expiry, forced cancellation, death of callbacks, application cache, foreground changes, screen, battery and dump events, pause, start, death of the suspend manager, the daily reset. |
| `ResourceRecords` | One record of efficiency resources as pure operators: what applying, resetting, a timeout and a restart make of bits and units. |
| `EfficiencyResources` | The efficiency resource manager: calls on IPC threads, tasks on the runner, delayed resets, deaths, removed packages, dumps, one subscriber, the file, system abilities, the end of the service and its start. |
| `ResourceGrants` | What the manager promises, without records, tasks and files; `EfficiencyResources` implements it. |
| `ContinuousRecord` | A continuous task: its record, key and labels, what the file keeps of it, the checks of modes against declarations. |
| `ContinuousNotices` | What the manager tells others: notifications, subscribers, the file. |
| `ContinuousRequests` | Start, update, activation and stop of tasks. |
| `ContinuousControl` | What others do to tasks: the scheduler, audio, sessions, live views, the user, applications, bundles, accounts. |
| `ContinuousTask` | The continuous task manager: the operations of the three modules above as actions, with late events, refusals, crashes and restarts. |
| `ContinuousAuth` | The user's permission for special-scenario tasks: request, banner, dialog, settings, backup and restore, and the JavaScript side that waits. |
| `TaskService` | The system ability: start and readiness, the checks in front of every operation, the three lists of subscribers. |
| `JsCalls` | What each entry point of the JavaScript bindings checks, refuses, throws and frees, as pure operators. |
| `TaskClient` | An application that uses the service: proxy and mutex, workers, the subscriber object and its registration over restarts, delays and their callbacks. Composed with `TaskService`. |
| `TaskEvents` | An event of a task on its way from the manager to JavaScript functions. |
| `TaskModes` | The tables between modes and submodes of request objects and the modes of the manager. |
| `Parcels` | What the parcelables write and read. |
| `MCTransient`, `MCTransientLive`, `MCResources`, `MCResourcesLive`, `MCContinuous`, `MCAuth`, `MCClient`, `MCExchange` | Instances for TLC: which actions race in a run, which values the inputs have, the fairness of a run. |
| `TransientTaskProofs` | What the operators of the accounting preserve, the inductive invariant, one lemma per kind of step, and the theorems on the registries, the events, the charge, the notices and the quota of transient tasks. |
| `TransientEventProofs` | What follows over time: the window, the warning and the foreground. |
| `EfficiencyResourcesProofs` | Records, steps and theorems on efficiency resources, with the refinement of `ResourceGrants`. |
| `ContinuousTaskProofs` | Every operation of the continuous task manager, its loops, the restart and the theorems on map, file, subscriber and ids. |
| `ContinuousAuthProofs` | Invariants, steps and theorems on authorisations. |
| `TaskClientProofs` | The same for the service and the application that uses it. |
| `SubscriptionProofs` | The subscription of the application against what the service has of it. |
| `ExchangeProofs` | Events on their way to functions, and the conversion of modes. |

### State and actions of TransientTask

The variables are named after the members they stand for; the comment at each
declaration gives the member and the lock that guards it.  `clock` is
`TimeProvider::GetCurrentTime()`.  `display`, `procs`, `events` and `dead` are
the environment.  `started`, `appStarted`, `expiredAt`, `queryFailed`, `bgSince`
and `used` are history: no guard reads them.

An action is one critical section.  A handler that leaves a lock and takes
another is split there, and what it carries over is kept in `runner`, `plugin`
or `inner`:

- The runner takes a timer or watchdog event off its queue in one step
  (`TakeTimer`, `TakeWatchdog`) and gets the lock of the handler in a later one,
  so that a stop or a cancellation may come in between.
- `OnAppCacheStateChanged` collects the ids of an application under the decision
  maker's lock and cancels them afterwards.
- Screen events reach `DeviceInfoManager` and `DecisionMaker` one after the other,
  in the order in which they are registered, and `HandleScreenOn` reads the
  foreground applications before it takes the lock.
- A process event first changes the foreground map under a lock of its own and
  then the accounting.
- Pause and start change the accounting and `transientPauseUid_` under two locks.

`requestList_` is a set of ids: its order is not observable, as every loop over it
treats its elements independently.  Times are abstract units; 32-bit values are
kept modulo `2 * Int32Half`.

### State and actions of EfficiencyResources

A resource number is a set of kinds.  The two maps of records are one function
`rec`: a pid is a key of `procResourceApplyMap_`, a uid one of
`appResourceApplyMap_`.  `view` and `watching` are a subscriber; `proc` and
`notices` are the processes and the deaths that `AppStateObserver` has not been
told yet; `restored`, `last` and `since` are history, read by no guard except for
the first connection at a start and for the moment of a subscription.

- A call is checked on its IPC thread (`ApplyEfficiencyResources`,
  `ResetAllEfficiencyResources`) and posted in a later step (`SendProcessPart`,
  `SendAppPart`), as deaths may come in between.  A call of a process makes two
  tasks: CPU for the process, the other kinds for the application, with the CPU
  level that `GetPreAppCpuLevel` reads off the runner.
- Posted tasks run in order (`queue`).  Delayed resets are pairs of owner and due
  time that run in any order once they are due (`timers`).
- Writing the file is a step of its own at the end of a task
  (`RefreshResourceRecord`), during which the runner does nothing else: the
  service may end before it, or in it, and then the file cannot be parsed.
  Timeouts and dumps do not write it.  The file keeps every field that a record
  has in the model.
- `OnAddSystemAbility` posts the start as a synchronous task and holds
  `sysAbilityLock_` until it is done (`starting`).
- Deaths of a process and of its application are told in either order.
- `Faults` selects what may go wrong in an instance: the service ends, a write is
  cut short, the device restarts, a system ability goes away, the first connection
  to the application manager fails.

The clock stands for uptime both with and without sleep.  The library of CPU
quotas is outside the repository; a call that it refuses changes nothing.

### State and actions of ContinuousTask

Every function of the manager runs to its end on the runner, so each operation is
one action.  The operators of `ContinuousNotices`, `ContinuousRequests` and
`ContinuousControl` have the names of the functions and compute on one record
`mgr`, whose fields are the members, the file (`saved`), the notifications that the
user can see (`shade`) and what a subscribed system ability has been told (`heard`,
`busy`).  `stuck`, `shared` and `hushed` are history.

- A task has the key (uid, ability, id), with id -1 for tasks that were not started
  by a request object; the map has no order, so a loop over it takes any order where
  the order matters and a fold where it does not.
- `bad`, one of `Faults`, is what fails while an operation runs: the notification
  service refuses labels, queries of other services fail, a listener cannot be
  registered.
- A call of an application overtakes what is posted: the end of an application and the
  removal of a notification by the user wait in `posted`, are handled in any order
  and, after a crash, never.
- `Crash` keeps the file and the shade.  `InitNecessaryState` reads the file, compares
  it with the processes that live, republishes and writes it again.
- Texts are abstracted to how far they could be read at the start (`texts`), because
  an operation fails or goes on by that.
- Requests enter with their modes, submodes and flags as records; permission checks
  that depend on the caller alone are traits of an application.

### State and actions of ContinuousAuth

An application stands for a (user, bundle, clone).  Its record and its callback on the
manager's side, the banner, the dialog, and on the application's side the process, the
callback objects and the answers on their way to the JavaScript thread are
functions or sets over applications.  Clicks, swipes and dialog answers are events
in `posted`: they carry no number of the request they belong to, as in the code, so a
late one meets whatever record is there.  The file may fail to be written in the
step of a request (`damaged`).  `chosen`, `given` and `twice` are history.

### State and actions of TaskService and TaskClient

`svc` is the process of the service (its generation, whether it is published, which
managers are ready); `cont`, `tran` and `eff` are the subscribers of the three
managers, `watch` their death recipients and `dying` the deaths not yet told.  The gates
are one operator per group of operations, in the order of the checks in the code.

A thread of the application goes through the stages of a call: mutex and cached
proxy, look-up, death recipient, sending, answer.  The service may die at each of them.
The thread that hears of added and removed system abilities and the JavaScript thread
meet in `currentCallBackType_`, which both write without a lock.  `ghost` records the
events after which the code is known to lose something (below).

The arguments of a JavaScript call are abstracted to the set of what is wrong with
them; `JsCalls` gives, for each entry point, the first check that fails, whether the
refusal is thrown and what becomes of the block of the call.

### TaskEvents, TaskModes and Parcels

`TaskEvents` follows an event from the manager's choice of subscribers over the
one-way call and the task of the JavaScript thread to the functions that are
registered then, while functions are registered and taken back.  `TaskModes` is the
check and the conversion of every request with up to two modes and submodes.
`Parcels` gives for each of the twelve parcelables the sequence of what is written and
of what is read; an object has a distinct value in each field, or the default.

## Runs

| run | question | instance |
| --- | --- | --- |
| `expiry` | Do requests, cancellations, callback deaths, timers, watchdogs and application caching keep the registries, the events and the notices consistent? Is an expiry never early and a forced cancellation always preceded by a warning? | Two callbacks, two requests, five time units; the clock goes on while an event waits, so that events are late. |
| `accounting` | Is counted time charged, whatever the order of pause, start, the death of the suspend manager, screen events, dump commands and foreground changes? Is a request in the foreground never counted, and one refused only after the window? | Two requests, a quota day of two units and a clock of three, so that the day changes. |
| `expiry_live` | Is a warned request removed, and does counting end? | Two changes of the process state, as a process changes finitely often in a finite time. |
| `daily_quota` | README.md:50, ten minutes per day: violated. | A request that was paused keeps the time it was granted. |
| `resource_promises` | Do records, units and delayed resets implement `ResourceGrants`? Does a start bring back the kinds that outlive their application? | Requests for one or two units or for ever, overlapping; dumps, removed packages, crashes, torn writes, reboots. |
| `resource_faults` | Do bits, units and delayed resets agree? | Crashes, system abilities that go and come back, a failed connection. |
| `resource_live` | Does a reset by an application reach its processes, does a subscriber know what is in force, is what was applied for a time reset? | Two processes of one application, a running service without faults. |
| `continuous` | Do the map, the file, the shade and a subscriber agree after every operation? Is a running task shown and no notification left over? | One application; seven scenes, each with requests and one other kind of event (limit, scheduler, audio and sessions, user and deaths, live views, foreground, clearing); the notification service accepts, refuses or finds audio silent. |
| `continuous_restart` | Does a restart keep the tasks whose process lives, with their state and unique ids, and clear the notifications of the others? | The service crashes between any two operations, with deaths, removals by the user or the scheduler; failing registration, queries and publication at the start. |
| `auth` | Is nothing granted that the user did not choose, no callback answered twice, no decision lost from the file, no denial undone, and does a click reach the application? | Up to two requests, processes and banners of one application, beside backup and restore, deaths or further requests. |
| `client` | Do registrations survive restarts and no stray flag stay? Is every call settled, truthfully, its block freed, a refusal reported, an expired delay told? Do the three managers know the same subscribers, and who may act on the tasks of others? | Two generations of the service; scenes for subscriptions, calls, delays, subscribing services and gates. |
| `exchange` | Does every accepted request keep its meaning, every parcel its fields, every event its functions, once? | All requests of up to two modes and submodes, twelve parcelables, two events and three registrations. |

Bounds.  The transient runs take the constants down to a few units (an advance time
and a watchdog delay of 1, quotas of 2 to 4, a clock of 3 to 7 steps) and keep the
relations of the real ones: a granted time is longer than the advance time, the
smallest quota that allows a request is less than the quota of the day.  Two requests
and two callbacks are enough for what the properties tell apart: a property relates a
request to its own events or to the other requests of its application, and one other
request represents them.  Symmetry is used for callbacks only.

For resources one application suffices, as no handler relates the records of two; one
process, except for what two processes do to each other; two kinds, of which one outlives
its application (TIMER) and one belongs to processes (CPU); two calls, of which one
may overtake, extend or undo the other.  The clock goes on past `MaxTime` as long as
a reset is due, so that no timeout is cut off.

For continuous tasks one application with one ability and up to two tasks: a property
relates a task to its own notification, file entry and subscriber entry, or to one
other task it may be merged with or confused with.  The bound of tasks per ability is 2
instead of 10.  The requests are a merged playback, a transfer with a second
notification, navigation, a call, and a call by a system ability; which of them are
made depends on the scene.  Scenes and bounds are chosen because the product of all
events is out of reach; what two kinds of event from different scenes do to
each other is not explored, except where they share a scene.

For authorisations one application: records of different applications meet only in the
end of an application, which clears the single grants of every user of a bundle (below).
For the client two workers, two subscriber objects, two functions and two generations.

`CHECK_DEADLOCK FALSE` is set where calls, clock or numbers are bounded and the
system stops at the bound.

Fairness.  In `expiry_live` time passes, and the runner takes due events and returns
from its handlers: it is a thread that does nothing else, and its handlers wait only for
locks that are released in bounded time.  In `resource_live` also an IPC thread posts
what it has checked.  In `auth` the manager handles the clicks
on banners that have been posted, a process that is opening its dialog goes on, and
the JavaScript thread takes what is queued for it.
In `client` some thread of the application that can go on does.  In `exchange` the
binder and JavaScript threads deliver what is on its way.  Nothing is assumed of
users, applications, processes and the life of the service.


## Finding

`daily_quota`.  `AddRequest` grants a request what is left of the quota;
`StartAccounting` restarts a paused request with what it was granted, although the
quota was spent by another request in the meantime.

## Proofs

`TransientTaskProofs` proves, for every set of applications, processes and
callbacks and every value of the time constants, under
`MaxRequests + 1 < IntMax` (the request id does not wrap):

| theorem | property |
| --- | --- |
| `TypeCorrect` | `TypeOK`, with the quota between 0 and the quota of the day |
| `RegistriesAlwaysAgree` | `RegistriesAgree` |
| `CountedIsAlwaysWatched` | `CountedIsWatched` |
| `EventsAreNeverStray` | `NoStrayEvents` |
| `CountedIsAlwaysCharged` | `CountedIsCharged` |

None of these is inductive by itself.  The invariant `IInv` adds that ids not yet
handed out are unused (`FreshIds`: a new request overwrites nothing), that only
listed requests are counted (`CountedIsListed`: removing a list leaves no counted
request behind), that a listed request has a package (`ListedIsPresent`), that
accounting started in the past (`BaseInPast`: time spent is not negative, which
the quota's type needs) and that the id the runner holds is one
(`TakenIsId`).  `StartPreserves`, `StopPreserves`, `CancelPreserves`,
`GrantPreserves` and `FramePreserves` treat the five ways in which a step may
change the accounts; the lemmas on steps (`AppStep`, `TimerStep`, `DeviceStep`,
`CacheStep`, `InnerStep`, `ProcessStep`, `TickStep`) reduce each action to one of
them.

The second half of `TransientTaskProofs` (notices and quota) and `TransientEventProofs`
build on `IInv`, all under `MaxRequests + 1 < IntMax`:

| theorem | property | assumed besides |
| --- | --- | --- |
| `NoticesAlwaysMatch` | `NoticesMatch` | |
| `CountedTimeIsAlwaysSpent` | `CountedTimeIsSpent` | `MaxTime < BootTime + Int32Half` |
| `RefusedAlwaysAfterWindow` | `RefusedOnlyAfterWindow` | `BootTime <= MaxTime`, `MaxTime < Int32Half` |
| `AlwaysWarnedInTime` | `WarnedInTime` | `MaxTime < BootTime + Int32Half` |
| `ForegroundIsNeverCounted` | `ForegroundNotCounted` | |

The bounds on the clock say where the code's 32-bit times are right.  The quota and the
time a request has left are computed from differences, so it is enough that the service
has not run for 2^31 ms, wherever the uptime stands: `Int32Difference` shows that the
difference of two times cut to 32 bits is right across a wrap.  The window compares a
cut time with the 64-bit clock and is right only while the uptime itself fits.

`NextKinds` sorts the steps into seven kinds (requests, cancellations, starts, stops,
queries, timers, and the rest, in which at most time passes), so that each proof
treats seven cases and not every action.  `NoticesMatch` is inductive with
`IInv`, as a step removes listed requests only.  `QuotaInv` says what each package
has left (`Good`): its base time is one the service has seen, and what is left with
what was used is at most the day's quota; starts, stops and queries change base
and quota together and keep the sum (`Kept`).  `WarnInv` follows an event from the moment
it is posted: a timer is due when no more than the advance time is left, a watchdog
at least its delay after the warning (`Fine`), and an event that the runner has taken
was due even if its request was stopped, restarted or cancelled since
(`TakenWasDue`); a request may be restarted only with less time left, never more.
`ForegroundInv` relates three views of the processes: where the foreground map and the
process list differ the last event on its way makes them agree (`EventsReconcile`),
and an application that is counted although it is in the foreground is about to be told
(`CountedIsTold`).

`EfficiencyResourcesProofs` proves, for every set of applications, processes, kinds
and timeouts and any number of calls:

| theorem | property | assumed |
| --- | --- | --- |
| `ResourcesTyped` | `TypeOK` | |
| `BitsAlwaysMatchUnits` | `BitsMatchUnits` | `EarlyBoot = 0`: no start in the first minutes |
| `TimedAlwaysWillBeReset` | `TimedWillBeReset` | timeouts below 2^31, no reboot |
| `SubscriberAlwaysSeesAll` | `SubscriberSeesAll` | `EarlyBoot = 0`, system abilities stay |
| `StartAlwaysRestoresKept` | `StartRestoresKept` | the first connection succeeds |
| `PromisesAreAlwaysKept` | `KeepsPromises` | `EarlyBoot = 0`, system abilities stay, `[]InTime` |
| `AppResetAlwaysReaches` | `AppResetReaches` | `EarlyBoot = 0`, system abilities stay, no crash, no reboot |

The assumptions are needed: what happens without them is described below (early
starts, long timeouts, system abilities that come back).  The reboot is excluded
because end times are uptimes of an earlier boot then.  A crash loses the tasks that
reset an application's processes.  `InTime` says that the number which stands for
"for ever" in `ResourceGrants` is later than the clock and every end time asked for.

`TInv` strengthens the types: a posted or checked request asks for something, and
one for a time has one of the timeouts.  With it `BitsMatchUnits` is
inductive: applying adds a unit for each bit, and a timeout or a reset takes
away only bits that are set, so that flipping clears them (`ErasedSound`).
`TimedWillBeReset` needs `EndsNear`, that no unit in memory or in the file ends
2^31 or more from now, so that the 32-bit delay of a restored unit is right; each
step then keeps every unit `Covered`, and a reset that is taken only uncovers units
that it erases.  `SubscriberSeesAll` needs `BitsMatchUnits` and `StartsOnce`: the
start is posted once in the life of the service (`QueueMoves` says what the
other steps do to the queue) and comes before anyone can subscribe.

`StartRestoresKept` is an action property; it needs `SleepsFirst`, that before the first
start of a process of the service there are no records, delayed resets or calls and
nothing but the start is in the queue.  The refinement maps what is in force to the
records once they are restored and to the file before; with `PromiseInv` each
step is shown to be a step of `ResourceGrants` or a stutter: `ApplyPromises`,
`ResetWithdraws`, `DumpWithdraws`, `TimeoutLapses`, `RefreshSaves`, `StartForgets` and
`ServiceEndsPromise` are the steps that matter.  It needs `BitsMatchUnits`, as only bits with
their units say until when a kind is in force, and `EndsInTime`.  `AppResetReaches`
is proved as `Reached`, kind by kind: a kind a process holds was applied for since
the last reset of its application, or a reset of it is in the queue, where
`PendingMoves` and `PendingPosted` follow it; `FreshFile` excludes that a start brings
back what was reset.

`ContinuousTaskProofs` proves, for every set of applications, abilities and requests, any
number of tasks, any failures and any number of restarts:

| theorem | property | assumed |
| --- | --- | --- |
| `Consistent` | `IndInv`, the invariant below | |
| `FileIsCurrent` | `FileMatchesTasks` | |
| `SubscriberIsCurrent` | `SubscriberView` | |
| `IdsNameOneTask` | `TaskIdsUnique` | `ProcessesListed` |
| `TasksOutliveService` | `TasksSurvive` | `ProcessesListed` |

`ProcessesListed` says that the running processes can be listed whenever the service
starts.  It is needed: when `GetAllRunningProcesses` fails, `HandlePersistenceData`
returns before `CheckPersistenceData` (mgr:310), so the ids begin again at their
first value below those of the restored tasks, and the tasks of dead processes stay.

The invariant `IndInv` has two sides.  While the service is ready, `Good(mgr, {})`: the
records have their shape and stand under their keys (`Well`), the file has the tasks with
their suspension, process and id (`Filed`), the subscriber knows the tasks and the
applications that have some (`Told`), ids are unique and none is above the last one given
(`Numbered`).  While it is not, `Asleep`: no tasks, no subscriber, and the file has the
tasks that the service had when it died (`Kept`), which is what makes a restart bring them
back.  Inside an operation less holds.  The file is behind until `RefreshTaskRecord`
(`Live` is `Good` without `Filed`), and between the end of an application's last task and
`HandleAppContinuousTaskStop` the subscriber takes the application for one with tasks:
the second argument of `Told`, `Live` and `Good` is the set of these.

Most operations are loops over the tasks of an application, written as folds.  For each
body of a loop a lemma says that one turn takes `Good` to `Good` and touches its own key
only (`Turned`).  `SubsetInduction`, which is stated with a set and not with a formula and
so can be used by the provers, then gives the rules for a fold over a set
(`SetRunRule`, `PendingRule`) and over an order (`SeqRunRule`): a loop computes the last of
the states `Turns`, and every one of these is good.  The loops are told apart by a
name, and `LoopTurn` is the turn of the loop with that name, so that the rules are
proved once.  `RestoreKeeps` is the restart: `CheckRecordsKeep` says which records are left
after the loop that compares them with the processes, and `GreatestId` that the numbers go
on above those of the file.  `StartKeeps` needs that the new id is above all others,
`DumpCancelTaskKeeps` that the uids told at its end are those of the tasks at its begin.

`ContinuousAuthProofs` proves, for every set of applications and any number of
requests, processes, banners and events:

| theorem | property |
| --- | --- |
| `AuthTyped` | `TypeOK` |
| `AnsweredAtMostOnce` | `AnsweredOnce` |
| `GrantsAlwaysChosen` | `GrantsAreChosen` |
| `FileAlwaysMatchesRecords` | `FileMatchesRecords` |
| `DeniedAlwaysStays` | `DeniedStays` |

`Typed` adds to the types that what has been posted is one of the events; all others
rest on it.  `AnsweredOnce` is inductive with `Once`: a registered callback has not
been answered, belongs to the application it is registered for and has been made
before, so that answering it cannot be a second time and a new one is a new one.
`GrantsAreChosen` needs `Grants`: an event or a dialog's answer that carries a
grant carries one that the user chose, because a record is only written from
an event that may have waited long.  `DeniedStays` is an action property and follows
step by step from the types.

`TaskClientProofs` proves, for any number of services, applications, workers, calls,
callbacks and lives of the service:

| theorem | property |
| --- | --- |
| `OthersTasksAlwaysGuarded` | `OthersTasksGuarded` |
| `RegistriesAlwaysAgree` | `RegistriesAgree` |
| `CallsAlwaysEndCleanly` | `CallsEndCleanly` |
| `AnswersAlwaysTrue` | `AnswersTrue` |

`RegistriesAgree` speaks of services that are not in a call; `NativeInv` says what
holds inside one.  A live service is watched by exactly the managers that know it, and its
call has reached the managers before the one it is at and none after
(`LiveAgrees`); a dead one is watched by nobody, and every entry it still has is about
to be removed, unless it died inside its call (`DeadAgrees`).  `AnswersInv` says for
each stage of a call whether it was served (`Truthful`) and that a thread calls the
service for one queued call only (`Carried`), so that no answer is taken for that
of another call.  Both rest on the types of the client (`TypeOK` of that module), of
which `OpsKnown` is the part that is not only a type: which thread makes which calls.

`SubscriptionProofs` proves `SubscriptionsAlwaysAgree` (`SubscriptionsAgree`) for any number
of callback types, functions, subscriber objects and lives of the service.  The property
speaks of the moments at which no call is under way; `SubInv` says what holds at all
others, in six parts.  `Reached`: a process is reached by proxies of its own life only and
has nothing of the application before it is published.  `Locked`: from the look at `proxy_`
to the answer the thread holds `mutex_`, so that the proxy it looked at is the one it sends
through.  `Listens`: a function is entered for flags that are noted, and only with a
listener; the newest notice in the queue says whether the service is published now.
`Apart`: unless the listener and the JavaScript thread met (the fault `race`), each
finds its own flags in `currentCallBackType_`.  `Recovers`: what a restarted service lacks
is on its way to it (`Restoring`), or a notice is still to be heard which leads to that
(`Recovering`).  `GivesBack`: what the service has of the application is noted in
`allCallBackTypes_` or is being given back, and the service cannot refuse to take it back,
as it passes the checks that it passed when it came (`May`).  `OnCallStep`, `OffCallStep` and
`RestoreCallStep` follow the three calls through proxy, service and answer, with a
death of the service anywhere between; `OnBegins`, `OnEnds`, `OffBegins`, `OffEnds`,
`RemovalHeard`, `AdditionHeard` and `RestoreEnds` are the steps of the bindings, and
`StartsAgree`, `ReadiesAgree` and `DiesAgree` the life of the service.

`ExchangeProofs` proves `CallsAlwaysMatchEvents` (`CallsMatchEvents`) for any number of
events, functions and registrations, and `ModesAlwaysConvert` (`ModesConvert`) for
requests with any number of modes and submodes.  `EventInv` says that a message on its way,
on the one-way call or in a task of the JavaScript thread, was caused by an event and is
there once, and that a function that was called belongs to a message that is no longer
on its way.

Assumptions on constants are named in the modules that declare them
(`AccountingAssumption`, `TransientAssumption`, `ResourcesAssumption`,
`SubscribersAssumption`, `ClientAssumption`, `BoundsAssumption` and others): constants
have their types, threads and callback types are told apart, the subscriber objects are
numbered from 1.

Only model-checked:

- The liveness properties (`RequestsEnd`, `TimedIsReset`, `ClickReachesApp`,
  `CallsSettle`, `DelayTold`, `EventReaches`), which are out of the prover's reach.
- `NotificationsOwned` and `RunningIsShown` of `ContinuousTask`.  Both hold in the scenes of
  the runs and not in all behaviours of `Spec`: `SendNotificationByDeteTask` gives
  a task a number that is not written to the file, so a crash after it leaves a
  notification without a task.
- `RoundTrip` of `Parcels`, whose reader is a fold over what was written, for twelve fixed
  parcelables: TLC checks every one of them, and no constant is left to prove it for.

## What the properties do not say

The properties are as strong as the code allows.  A stronger form fails in these
cases, each met while the property was being found.  Line numbers of
`bg_continuous_task_mgr.cpp` are given as mgr:n.

Transient tasks

- With the screen off, `HandleStateChange` stamps the application when one of its
  processes leaves the foreground although another one is there; `Decide` then refuses
  it once the window is over (decision_maker.cpp:133, README.md:54).
  `RefusedOnlyAfterWindow` therefore measures the window from the stamp, not from the
  moment at which the last process left.
- `pkgBgDurationMap_` holds `int32_t` and the clock is 64 bits wide.  After 2^31 ms of
  uptime the difference is always over the window.

Efficiency resources

- A reset by a process of a kind other than CPU is turned into one of its application.
  `RemoveAppRecord` keeps TIMER besides WORK_SCHEDULER.
- A call that was checked before its process died posts its task after the death was
  handled; its record stays.  When the service ends before it has handled a death,
  `CheckPersistenceData` keeps the whole record of an application that holds TIMER or
  WORK_SCHEDULER.
- `RecoverResourceNumber` drops bits and keeps their units at a start in the first
  minutes; `ResetTimeOutResource` flips the bits of units that are over and so sets
  them.  `RecoverDelayedTask` cuts the time left to 32 bits.
- `GetAllEfficiencyResourcesInner` shifts the index instead of 1: WORK_SCHEDULER (8) is
  reported as 6.
- When a system ability comes back, records are compared with the running processes
  again and dropped without a word to subscribers.  A failed connection at the start
  overwrites the file with empty records.
- The tasks that reset an application's processes are lost when the service ends.  The
  level that `GetPreAppCpuLevel` reads is old when the task runs.

Continuous tasks

- The second notification of a transfer is left over when data is cleared, the account
  is switched, the dump cancels everything or audio suspends twice.  Suspending a
  task cancels the notification it shares with an active one; activating tasks
  whose numbers interleave gives one the notification of another; removal by the user
  goes by label and misses merged tasks whose first owner has stopped.  `stuck` and
  `shared` mark these cases in `NotificationsOwned` and `RunningIsShown`.
- A suspended task gets a notification again by a progress of a transfer, by the end of
  a live view or by a session; a task may be merged into a suspended one.
- An update that fails in the middle keeps what it had changed (mgr:1205), and updates do
  not pass the rule for starts in the background.
- A changed notification id is not written by `SendNotificationByDete`; a crash between
  publication and writing leaves a notification without a task; a notification id of 0
  counts as none.
- When the running processes cannot be queried at a restart, numbers start at their
  first value again; records of authorisations are not read, and the next change
  overwrites their file.  A failed registration of a listener is never repeated.
- A change of resources clears the cached name of an application, an empty name is
  cached like another one.
- The stop of a task after its suspension is not told (mgr:2134 says otherwise); after a
  suspension by standby one by audio is not told either (mgr:3087).
- The end of an application that is handled late stops the tasks of its successor; the
  user's removal may be overtaken by a republication; stopping by context ends with the
  first notification that cannot be cancelled.
- A silent audio task stays unshown (mgr:2480 says so): `hushed`.

Authorisation

- A swiped banner leaves its callback unanswered.  A choice in the settings is lost to
  the application when its callback died or its dialog could not be opened.
- After a restart an undecided record refuses further requests; a single grant
  outlives an application that ends while the service is down; the end of an application
  drops the single grant of another user of the same bundle.
- A late event meets a later request: a "canceled" erases its record, a click overrides a
  decision in the settings.  A banner that is left over decides without a callback.
- `RefreshAuthRecord` reports a failure after the record and the callback are there;
  `OnRestore` writes the file before it has validated it.

Client

- A service that dies between look-up and `AddDeathRecipient` leaves a stale proxy; the
  next call fails.  A registration that fails after a restart is not repeated.
- `currentCallBackType_` is written by two threads without a lock; a failed subscription
  leaves its flag in `allCallBackTypes_`; the service may die between the success of a
  subscription and its registration.  `ghost` marks these in `SubscriptionsAgree`.
- An expiry that comes before the callback is registered is dropped; one that comes
  after a cancellation is delivered.  A refused delay registers its callback under -1;
  callbacks are never cleaned up and ids start again after a restart.
- An answer may be lost after the call was served; calls that are not awaited are
  served in any order, and tasks of the JavaScript thread likewise.
- A native subscriber that died before it was registered stays; one that is unknown is
  told that the system is not ready.
- An application that watches states gets the cancellation of tasks of others through
  the functions for its own.

## Not modelled

- Bindings for ArkTS static (ANI), C and Cangjie: the same calls as those of JavaScript
  in other languages, without a state of their own beyond the callback tables that
  `TaskClient` has.  The argument conversion of the JavaScript bindings is abstracted to
  the checks that may fail.
- `BackgroundTaskObserver`, which reports each event as JSON to the resource scheduler
  and keeps no state, and the JSON of the plugin adapters, which translate a message
  into a call that is an action of `TransientTask` or `ContinuousTask`.
- The parsing of configuration (`BgtaskConfig`): its results are constants and traits of
  applications.
- The helpers with cached proxies (`BundleManagerHelper`, `AppMgrHelper`) and the texts of
  notifications: a helper's answer, failure included, is a choice of its caller's action.
- The dialogs' user interface (`resources`), written in ArkTS: its answers are events of
  `ContinuousAuth`.
- Dump text, statistics and traces, and the suspend controller, whose functions only log.
- Permission and identity checks inside the managers, which only read; the gates in
  front of them are in `TaskService`.
- In the transient model the wrap of the request id (`MaxRequests` stays below it) and
  updates of the configuration; in the resource model the reason, the bundle name and
  the other fields that nothing reads.
- The failure of writing a file, except in a request for an authorisation and in the
  torn writes of resources.
