------------------------- MODULE ContinuousTaskProofs -------------------------
(***************************************************************************)
(* Proofs about BgContinuousTaskMgr, for any applications, requests and    *)
(* failures: the file of records and what a system ability has been told   *)
(* agree with the tasks after every operation; ids name one task and the   *)
(* tasks survive a restart as long as the processes can be listed.         *)
(***************************************************************************)
EXTENDS ContinuousTask, FiniteSetTheorems, TLAPS

\* The service can list the running processes whenever it starts: the failure
\* "process" of HandlePersistenceData does not happen.
ProcessesListed == \A bad \in Faults : "process" \notin bad

-----------------------------------------------------------------------------
(* The shape of the state and of a record: which fields there are.         *)

StateFields == {"tasks", "tidx", "nidx", "texts", "cached", "avs", "live", "saved", "sa", "heard",
                "busy", "shade", "stuck", "shared", "hushed", "fore", "front", "applied",
                "prelaunch", "disabled", "hap", "delay", "late"}

IsState(s) == s = [f \in StateFields |-> s[f]]

TaskFields == {"uid", "ability", "pid", "newApi", "byReq", "system", "inner", "needNotif",
               "component", "modes", "subModes", "combined", "combinedId", "id", "nid", "label",
               "subNid", "suspended", "standby", "standbySuspend", "playing", "detect", "times"}

IsTask(r) == r = [f \in TaskFields |-> r[f]] /\ r.uid \in Uids /\ r.id \in Nat

\* A map of tasks by their keys.
IsMap(f) ==
    /\ f = [k \in DOMAIN f |-> f[k]]
    /\ IsFiniteSet(DOMAIN f)
    /\ \A k \in DOMAIN f : IsTask(f[k]) /\ Key(f[k]) = k

Well(s) == IsState(s) /\ IsMap(s.tasks) /\ IsMap(s.saved) /\ s.tidx \in Nat

-----------------------------------------------------------------------------
(* What holds between two operations.                                      *)

\* The file has the tasks.
Filed(s) ==
    /\ DOMAIN s.saved = DOMAIN s.tasks
    /\ \A k \in DOMAIN s.tasks : /\ s.saved[k].suspended = s.tasks[k].suspended
                                 /\ s.saved[k].pid = s.tasks[k].pid
                                 /\ s.saved[k].id = s.tasks[k].id

\* The uids with a task.
Owners(f) == {k[1] : k \in DOMAIN f}

\* A system ability knows the tasks, and the uids with a task except that it may
\* take some of U for busy that have none left.
Told(s, U) ==
    s.sa => /\ \A k \in DOMAIN s.tasks : ~s.tasks[k].suspended => k \in s.heard
            /\ s.heard \subseteq DOMAIN s.tasks
            /\ Owners(s.tasks) \subseteq s.busy
            /\ s.busy \subseteq Owners(s.tasks) \cup U

IdsUnique(f) == \A j, k \in DOMAIN f : f[j].id = f[k].id => j = k

\* No two tasks have the same id, and the next id is new.
Numbered(s) ==
    ProcessesListed => IdsUnique(s.tasks) /\ \A k \in DOMAIN s.tasks : s.tasks[k].id <= s.tidx

Live(s, U) == Well(s) /\ Told(s, U) /\ Numbered(s)

Good(s, U) == Live(s, U) /\ Filed(s)

-----------------------------------------------------------------------------
(* Steps that leave the tasks, the file and the subscriber alone.          *)

SameCore(s, t) ==
    /\ IsState(t)
    /\ t.tasks = s.tasks /\ t.saved = s.saved /\ t.tidx = s.tidx
    /\ t.sa = s.sa /\ t.heard = s.heard /\ t.busy = s.busy

\* The same task, suspended or not as before.
SameTask(r, q) ==
    /\ IsTask(q)
    /\ q.uid = r.uid /\ q.ability = r.ability /\ q.byReq = r.byReq /\ q.id = r.id
    /\ q.pid = r.pid /\ q.suspended = r.suspended

\* The result m of sending the notification of r.
Shows(s, r, m) ==
    /\ m = [f \in {"s", "r", "ok"} |-> m[f]]
    /\ SameCore(s, m.s) /\ SameTask(r, m.r)

\* The result of such a step is a state.
LEMMA CoreIsState ==
    ASSUME NEW s, NEW t, SameCore(s, t)
    PROVE  IsState(t)
BY Zenon DEF SameCore

\* Such steps follow one another.
LEMMA SameCoreTrans ==
    ASSUME NEW s, NEW t, NEW u, SameCore(s, t), SameCore(t, u)
    PROVE  SameCore(s, u)
BY Zenon DEF SameCore

\* Doing nothing is such a step.
LEMMA SameCoreSelf ==
    ASSUME NEW s, IsState(s)
    PROVE  SameCore(s, s)
BY Zenon DEF SameCore

\* The tasks are the same and what held still holds.
Follows(s, t, U) ==
    /\ Live(s, U) => Live(t, U)
    /\ Good(s, U) => Good(t, U)
    /\ DOMAIN t.tasks = DOMAIN s.tasks

\* Operations that keep the tasks follow one another.
LEMMA FollowsTrans ==
    ASSUME NEW s, NEW t, NEW u, NEW U, Follows(s, t, U), Follows(t, u, U)
    PROVE  Follows(s, u, U)
BY Zenon DEF Follows

\* A step that leaves tasks, file and subscriber alone keeps what holds of them.
LEMMA CoreKeeps ==
    ASSUME NEW s, NEW t, SameCore(s, t), NEW U
    PROVE  Follows(s, t, U) /\ (Well(s) => Well(t))
<1>1. Well(s) => Well(t)
  BY Zenon DEF SameCore, Well
<1>2. Told(s, U) => Told(t, U)
  BY Zenon DEF SameCore, Told
<1>3. Numbered(s) => Numbered(t)
  BY Zenon DEF SameCore, Numbered
<1>4. Filed(s) => Filed(t)
  BY Zenon DEF SameCore, Filed
<1> QED
  BY <1>1, <1>2, <1>3, <1>4, Zenon DEF Follows, Live, Good, SameCore

\* A record is the same task as itself.
LEMMA SameTaskSelf ==
    ASSUME NEW r, IsTask(r)
    PROVE  SameTask(r, r)
BY Zenon DEF SameTask

\* Changes that keep the task follow one another.
LEMMA SameTaskTrans ==
    ASSUME NEW r, NEW q, NEW p, SameTask(r, q), SameTask(q, p)
    PROVE  SameTask(r, p)
BY Zenon DEF SameTask

\* Withdrawing a notification changes the shade alone.
LEMMA WithdrawCore ==
    ASSUME NEW s, IsState(s), NEW bad, NEW label, NEW id
    PROVE  SameCore(s, Withdraw(s, bad, label, id))
BY Zenon DEF SameCore, IsState, StateFields, Withdraw

\* So does withdrawing the sub notification of a record.
LEMMA WithdrawSubCore ==
    ASSUME NEW s, IsState(s), NEW bad, NEW r
    PROVE  SameCore(s, WithdrawSub(s, bad, r))
BY WithdrawCore, SameCoreSelf, Zenon DEF WithdrawSub

\* And withdrawing both.
LEMMA WithdrawBothCore ==
    ASSUME NEW s, IsState(s), NEW bad, NEW r
    PROVE  SameCore(s, WithdrawBoth(s, bad, r))
<1> DEFINE t == Withdraw(s, bad, r.label, r.nid)
<1>1. SameCore(s, t) /\ IsState(t)
  BY WithdrawCore, CoreIsState, Zenon
<1> HIDE DEF t
<1>2. SameCore(s, WithdrawSub(t, bad, r))
  BY <1>1, WithdrawSubCore, SameCoreTrans, Zenon
<1>3. WithdrawBoth(s, bad, r) = IF r.byReq THEN WithdrawSub(t, bad, r) ELSE t
  BY Zenon DEF WithdrawBoth, t
<1> QED
  BY <1>1, <1>2, <1>3, Zenon

\* CancelNotification changes the shade alone, and says whether it was refused.
LEMMA CancelNotificationCore ==
    ASSUME NEW s, IsState(s), NEW bad, NEW r
    PROVE  /\ SameCore(s, CancelNotification(s, bad, r).s)
           /\ \E ok : CancelNotification(s, bad, r) = [s |-> CancelNotification(s, bad, r).s, ok |-> ok]
<1> DEFINE t == Withdraw(s, bad, r.label, r.nid)
           sub == r.subNid # NoId /\ r.byReq
           ok == ~Refused(bad, IF sub THEN CreateSubNotificationLabel(r) ELSE r.label)
           u == IF sub THEN WithdrawSub(t, bad, r) ELSE t
           c == CancelNotification(s, bad, r)
<1>1. SameCore(s, t) /\ IsState(t)
  BY WithdrawCore, CoreIsState, Zenon
<1>2. c = [s |-> s, ok |-> TRUE] \/ c = [s |-> u, ok |-> ok]
  BY Zenon DEF CancelNotification
<1> HIDE DEF t, sub, ok
<1>3. SameCore(s, u)
  BY <1>1, WithdrawSubCore, SameCoreTrans, Zenon
<1>4. SameCore(s, s)
  BY SameCoreSelf, Zenon
<1> HIDE DEF u, c
<1>5. CASE c = [s |-> s, ok |-> TRUE]
  <2>1. c.s = s
    BY <1>5, Zenon
  <2> QED
    BY <1>4, <1>5, <2>1, Zenon DEF c
<1>6. CASE c = [s |-> u, ok |-> ok]
  <2>1. c.s = u
    BY <1>6, Zenon
  <2> QED
    BY <1>3, <1>6, <2>1, Zenon DEF c
<1> QED
  BY <1>2, <1>5, <1>6, Zenon

\* Reading the names of a bundle changes the cache alone.
LEMMA SetCachedCore ==
    ASSUME NEW s, IsState(s), NEW bad, NEW r
    PROVE  SameCore(s, SetCachedBundleInfo(s, bad, r))
<1> DEFINE modes == IF Declared[r.uid] = {} /\ r.needNotif /\ r.component THEN {"AUDIO_PLAYBACK"}
                    ELSE Declared[r.uid]
           c == [u \in DOMAIN s.cached \cup {r.uid} |->
                  IF u = r.uid THEN [modes |-> modes, named |-> "label" \notin bad] ELSE s.cached[u]]
<1>1. SetCachedBundleInfo(s, bad, r) \in {s, [s EXCEPT !.cached = c]}
  BY Zenon DEF SetCachedBundleInfo
<1> HIDE DEF c
<1>2. SameCore(s, [s EXCEPT !.cached = c])
  BY Zenon DEF SameCore, IsState, StateFields
<1> QED
  BY <1>1, <1>2, SameCoreSelf, Zenon

-----------------------------------------------------------------------------
(* Sending a notification.                                                 *)

\* Numbers, labels, modes and flags of a record may change; the task is the same.
LEMMA SetFields ==
    ASSUME NEW r, IsTask(r), NEW v, NEW w
    PROVE  /\ SameTask(r, [r EXCEPT !.nid = v]) /\ SameTask(r, [r EXCEPT !.subNid = v])
           /\ SameTask(r, [r EXCEPT !.label = v, !.nid = w])
           /\ SameTask(r, [r EXCEPT !.playing = v])
           /\ SameTask(r, [r EXCEPT !.modes = v])
           /\ SameTask(r, [r EXCEPT !.subModes = v])
           /\ SameTask(r, [r EXCEPT !.modes = v, !.subModes = w])
           /\ SameTask(r, [r EXCEPT !.detect = v])
           /\ SameTask(r, [r EXCEPT !.detect = v, !.times = w])
           /\ SameTask(r, [r EXCEPT !.combinedId = v])
           /\ SameTask(r, [r EXCEPT !.standby = v, !.standbySuspend = w])
BY ZenonT(30) DEF SameTask, IsTask, TaskFields

\* The parts of the state that are neither tasks, file nor subscriber.
LEMMA SetState ==
    ASSUME NEW s, IsState(s), NEW v, NEW w
    PROVE  /\ SameCore(s, [s EXCEPT !.nidx = v])
           /\ SameCore(s, [s EXCEPT !.stuck = v])
           /\ SameCore(s, [s EXCEPT !.shade = v])
           /\ SameCore(s, [s EXCEPT !.shared = v])
           /\ SameCore(s, [s EXCEPT !.hushed = v])
           /\ SameCore(s, [s EXCEPT !.avs = v])
           /\ SameCore(s, [s EXCEPT !.live = v])
           /\ SameCore(s, [s EXCEPT !.late = v])
           /\ SameCore(s, [s EXCEPT !.late = v, !.delay = w])
           /\ SameCore(s, [s EXCEPT !.texts = v])
           /\ SameCore(s, [s EXCEPT !.cached = v])
           /\ SameCore(s, [s EXCEPT !.texts = v, !.cached = w])
           /\ SameCore(s, [s EXCEPT !.fore = v])
           /\ SameCore(s, [s EXCEPT !.fore = v, !.applied = w])
           /\ SameCore(s, [s EXCEPT !.fore = v, !.prelaunch = w])
           /\ SameCore(s, [s EXCEPT !.front = v])
           /\ SameCore(s, [s EXCEPT !.front = v, !.prelaunch = w])
           /\ SameCore(s, [s EXCEPT !.prelaunch = v])
           /\ SameCore(s, [s EXCEPT !.disabled = v])
           /\ SameCore(s, [s EXCEPT !.hap = v])
BY ZenonT(30) DEF SameCore, IsState, StateFields

\* Publishing a notification numbers the record and changes the shade.
LEMMA PublishShows ==
    ASSUME NEW s, IsState(s), NEW bad, NEW r, IsTask(r)
    PROVE  Shows(s, r, PublishNotification(s, bad, r)) /\ Shows(s, r, PublishSubNotification(s, bad, r))
<1>1. ASSUME NEW v, NEW label, NEW x, NEW q, SameTask(r, q), NEW ok
      PROVE  /\ Shows(s, r, [s |-> [[s EXCEPT !.nidx = v] EXCEPT !.stuck = x], r |-> q, ok |-> ok])
             /\ Shows(s, r, [s |-> [[s EXCEPT !.nidx = v] EXCEPT !.shade = x], r |-> q, ok |-> ok])
  <2> DEFINE t == [s EXCEPT !.nidx = v]
             a == [t EXCEPT !.stuck = x]
             b == [t EXCEPT !.shade = x]
  <2>1. SameCore(s, t) /\ IsState(t)
    BY SetState, CoreIsState, Zenon
  <2> HIDE DEF t
  <2>2. SameCore(s, a) /\ SameCore(s, b)
    BY <2>1, SetState, SameCoreTrans, Zenon
  <2> HIDE DEF a, b
  <2>3. /\ Shows(s, r, [s |-> a, r |-> q, ok |-> ok])
        /\ Shows(s, r, [s |-> b, r |-> q, ok |-> ok])
    BY <1>1, <2>2, Zenon DEF Shows
  <2> QED
    BY <2>3, Zenon DEF t, a, b
<1>2. SameTask(r, r)
  BY SameTaskSelf, Zenon
<1>3. ASSUME NEW v, NEW w
      PROVE  SameTask(r, [r EXCEPT !.label = v, !.nid = w]) /\ SameTask(r, [r EXCEPT !.subNid = v])
  BY SetFields, Zenon
<1>4. Shows(s, r, PublishNotification(s, bad, r))
  BY <1>1, <1>2, <1>3, Zenon DEF PublishNotification
<1>5. Shows(s, r, PublishSubNotification(s, bad, r))
  BY <1>1, <1>2, <1>3, Zenon DEF PublishSubNotification
<1> QED
  BY <1>4, <1>5, Zenon

\* A result with the state and the record as they were, or almost.
LEMMA ShowsMade ==
    ASSUME NEW s, NEW r, NEW t, NEW q, NEW ok, SameCore(s, t), SameTask(r, q)
    PROVE  Shows(s, r, [s |-> t, r |-> q, ok |-> ok])
BY Zenon DEF Shows

\* Sending the notification of a task keeps the task, whether or not it is published.
LEMMA SendContinuousShows ==
    ASSUME NEW s, IsState(s), NEW bad, NEW r, IsTask(r)
    PROVE  Shows(s, r, SendContinuousTaskNotification(s, bad, r))
<1> DEFINE text == CheckNotificationText(s, bad, r)
           q == IF text = "starting" THEN [r EXCEPT !.playing = FALSE] ELSE r
           m == SendContinuousTaskNotification(s, bad, r)
           t == IF r.nid = NoId THEN s ELSE Withdraw(s, bad, r.label, r.nid)
<1>1. \/ m = [s |-> s, r |-> r, ok |-> FALSE]
      \/ m = [s |-> t, r |-> [r EXCEPT !.nid = NoId], ok |-> TRUE]
      \/ m = [s |-> s, r |-> q, ok |-> TRUE]
      \/ m = PublishNotification(s, bad, q)
  <2> HIDE DEF q, t
  <2> QED
    BY Zenon DEF SendContinuousTaskNotification, q, t
<1>2. SameTask(r, r) /\ SameTask(r, [r EXCEPT !.nid = NoId]) /\ SameTask(r, [r EXCEPT !.playing = FALSE])
  BY SameTaskSelf, SetFields, Zenon
<1>3. SameTask(r, q)
  BY <1>2, Zenon
<1>4. SameCore(s, s) /\ SameCore(s, t)
  BY SameCoreSelf, WithdrawCore, Zenon
<1> HIDE DEF q, m, t
<1>5. Shows(s, q, PublishNotification(s, bad, q))
  <2>1. IsTask(q)
    BY <1>3, Zenon DEF SameTask
  <2> QED
    BY <2>1, PublishShows, Zenon
<1>6. Shows(s, r, PublishNotification(s, bad, q))
  BY <1>3, <1>5, SameTaskTrans, Zenon DEF Shows
<1> QED
  BY <1>1, <1>2, <1>3, <1>4, <1>6, ShowsMade, Zenon DEF m

\* So does sending a live view with another notification.
LEMMA SendLiveViewShows ==
    ASSUME NEW s, IsState(s), NEW bad, NEW r, IsTask(r)
    PROVE  Shows(s, r, SendLiveViewAndOtherNotification(s, bad, r))
<1> DEFINE main == PublishMainNotification(s, bad, r)
           sub == PublishSubNotification(main.s, bad, main.r)
           undo(m) == [m EXCEPT !.s = Withdraw(@, bad, m.r.label, m.r.nid), !.ok = FALSE]
           m == SendLiveViewAndOtherNotification(s, bad, r)
<1>1. \/ m = [s |-> s, r |-> r, ok |-> FALSE]
      \/ m = main \/ m = undo(main) \/ m = sub \/ m = undo(sub)
  <2> HIDE DEF main, sub
  <2> QED
    BY Zenon DEF SendLiveViewAndOtherNotification, main, sub
<1>2. Shows(s, r, [s |-> s, r |-> r, ok |-> FALSE])
  BY SameTaskSelf, SameCoreSelf, ShowsMade, Zenon
<1>3. Shows(s, r, main)
  BY PublishShows, Zenon DEF PublishMainNotification
<1> HIDE DEF main
<1>4. Shows(s, r, sub)
  <2>1. SameCore(s, main.s) /\ SameTask(r, main.r) /\ IsState(main.s) /\ IsTask(main.r)
    BY <1>3, Zenon DEF Shows, SameCore, SameTask
  <2>2. Shows(main.s, main.r, sub)
    BY <2>1, PublishShows, Zenon
  <2> HIDE DEF sub
  <2> QED
    BY <2>1, <2>2, SameCoreTrans, SameTaskTrans, Zenon DEF Shows
<1> HIDE DEF sub
<1>5. ASSUME NEW n, Shows(s, r, n)
      PROVE  Shows(s, r, undo(n))
  <2> DEFINE t == Withdraw(n.s, bad, n.r.label, n.r.nid)
  <2>1. SameCore(s, n.s) /\ SameTask(r, n.r) /\ IsState(n.s)
    BY <1>5, Zenon DEF Shows, SameCore
  <2>2. SameCore(s, t)
    BY <2>1, WithdrawCore, SameCoreTrans, Zenon
  <2>3. n = [f \in {"s", "r", "ok"} |-> n[f]]
    BY <1>5, Zenon DEF Shows
  <2> HIDE DEF t
  <2> DEFINE e == [n EXCEPT !.s = t, !.ok = FALSE]
  <2>4. e.s = t /\ e.r = n.r /\ e = [f \in {"s", "r", "ok"} |-> e[f]]
    BY <2>3, Zenon
  <2>5. undo(n) = e
    BY Zenon DEF t
  <2> HIDE DEF e, undo
  <2> QED
    BY <2>1, <2>2, <2>4, <2>5, Zenon DEF Shows
<1> HIDE DEF m, undo
<1> QED
  BY <1>1, <1>2, <1>3, <1>4, <1>5, Zenon DEF m

\* So does sending what the modes of the task ask for.
LEMMA SendShows ==
    ASSUME NEW s, IsState(s), NEW bad, NEW r, IsTask(r)
    PROVE  Shows(s, r, Send(s, bad, r))
BY SendContinuousShows, SendLiveViewShows, Zenon DEF Send

-----------------------------------------------------------------------------
(* Changing the map.                                                       *)

\* The key of a task begins with its uid.
LEMMA KeyUid ==
    ASSUME NEW f, IsMap(f), NEW k \in DOMAIN f
    PROVE  k[1] = f[k].uid
BY DEF IsMap, Key

\* The same task has the same key.
LEMMA SameKey ==
    ASSUME NEW r, NEW q, SameTask(r, q)
    PROVE  Key(q) = Key(r)
BY Zenon DEF SameTask, Key

\* The state but for its tasks.
SameRest(s, t) ==
    /\ IsState(t)
    /\ t.saved = s.saved /\ t.tidx = s.tidx
    /\ t.sa = s.sa /\ t.heard = s.heard /\ t.busy = s.busy

\* Replacing the map of tasks leaves the rest.
LEMMA SetTasks ==
    ASSUME NEW s, IsState(s), NEW f
    PROVE  SameRest(s, [s EXCEPT !.tasks = f]) /\ [s EXCEPT !.tasks = f].tasks = f
BY Zenon DEF SameRest, IsState, StateFields

\* One task of the map is replaced.
Replaces(s, t, k, r) ==
    /\ Well(t) /\ SameRest(s, t)
    /\ DOMAIN t.tasks = DOMAIN s.tasks
    /\ t.tasks[k] = r
    /\ \A j \in DOMAIN s.tasks : j # k => t.tasks[j] = s.tasks[j]

\* Put replaces the record of a key.
LEMMA PutReplaces ==
    ASSUME NEW s, Well(s), NEW k \in DOMAIN s.tasks, NEW r, IsTask(r), Key(r) = k
    PROVE  Replaces(s, Put(s, r), k, r)
<1> DEFINE f == [j \in DOMAIN s.tasks \cup {Key(r)} |-> IF j = Key(r) THEN r ELSE s.tasks[j]]
           t == Put(s, r)
<1>1. DOMAIN f = DOMAIN s.tasks /\ f = [j \in DOMAIN f |-> f[j]]
  BY Zenon
<1>2. f[k] = r /\ \A j \in DOMAIN s.tasks : j # k => f[j] = s.tasks[j]
  BY Zenon
<1>3. t = [s EXCEPT !.tasks = f]
  BY Zenon DEF Put
<1> HIDE DEF f, t
<1>4. IsState(s) /\ IsMap(s.tasks) /\ IsMap(s.saved) /\ s.tidx \in Nat
  BY Zenon DEF Well
<1>5. SameRest(s, t) /\ t.tasks = f
  BY <1>3, <1>4, SetTasks, Zenon
<1>6. IsMap(f)
  <2>1. IsFiniteSet(DOMAIN f)
    BY <1>1, <1>4, Zenon DEF IsMap
  <2>2. ASSUME NEW j \in DOMAIN f PROVE IsTask(f[j]) /\ Key(f[j]) = j
    <3>1. CASE j = k
      BY <1>2, <3>1, Zenon
    <3>2. CASE j # k
      BY <1>1, <1>2, <1>4, <3>2, Zenon DEF IsMap
    <3> QED
      BY <3>1, <3>2, Zenon
  <2> QED
    BY <1>1, <2>1, <2>2, Zenon DEF IsMap
<1>7. Well(t)
  BY <1>4, <1>5, <1>6, Zenon DEF Well, SameRest
<1> QED
  BY <1>1, <1>2, <1>5, <1>7, Zenon DEF Replaces, t

\* Replacing a task by the same.
LEMMA PutKeeps ==
    ASSUME NEW s, NEW U, Live(s, U), NEW k \in DOMAIN s.tasks, NEW r, SameTask(s.tasks[k], r)
    PROVE  Follows(s, Put(s, r), U)
<1> DEFINE t == Put(s, r)
<1>1. Well(s) /\ Told(s, U) /\ Numbered(s)
  BY Zenon DEF Live
<1>2. Replaces(s, t, k, r)
  <2>1. IsTask(r) /\ Key(r) = Key(s.tasks[k])
    BY SameKey, Zenon DEF SameTask
  <2>2. Key(s.tasks[k]) = k
    BY <1>1, Zenon DEF Well, IsMap
  <2> QED
    BY <1>1, <2>1, <2>2, PutReplaces, Zenon
<1> HIDE DEF t
<1>3. Well(t) /\ SameRest(s, t) /\ DOMAIN t.tasks = DOMAIN s.tasks /\ t.tasks[k] = r
  BY <1>2, Zenon DEF Replaces
<1>4. \A j \in DOMAIN s.tasks : /\ t.tasks[j].suspended = s.tasks[j].suspended
                                /\ t.tasks[j].pid = s.tasks[j].pid
                                /\ t.tasks[j].id = s.tasks[j].id
  BY <1>2, Zenon DEF Replaces, SameTask
<1>5. Told(t, U)
  <2>1. Owners(t.tasks) = Owners(s.tasks)
    BY <1>3, Zenon DEF Owners
  <2> QED
    BY <1>1, <1>3, <1>4, <2>1, Zenon DEF Told, SameRest
<1>6. Numbered(t)
  BY <1>1, <1>3, <1>4, Zenon DEF Numbered, IdsUnique, SameRest
<1>7. Filed(s) => Filed(t)
  BY <1>3, <1>4, Zenon DEF Filed, SameRest
<1> QED
  BY <1>3, <1>5, <1>6, <1>7, Zenon DEF Follows, Live, Good, t

\* What was put is found.
LEMMA PutGets ==
    ASSUME NEW s, NEW U, Live(s, U), NEW k \in DOMAIN s.tasks, NEW r, SameTask(s.tasks[k], r)
    PROVE  Put(s, r).tasks[k] = r
<1>1. Well(s) /\ Key(s.tasks[k]) = k
  BY Zenon DEF Live, Well, IsMap
<1>2. IsTask(r) /\ Key(r) = k
  BY <1>1, SameKey, Zenon DEF SameTask
<1>3. Replaces(s, Put(s, r), k, r)
  BY <1>1, <1>2, PutReplaces, Zenon
<1> QED
  BY <1>3, Zenon DEF Replaces

\* Writing the file.
LEMMA RefreshKeeps ==
    ASSUME NEW s, NEW U, Live(s, U)
    PROVE  Good(RefreshTaskRecord(s), U) /\ RefreshTaskRecord(s).tasks = s.tasks
<1> DEFINE f == [k \in DOMAIN s.tasks |-> ParseToJsonStr(s.tasks[k])]
           t == RefreshTaskRecord(s)
<1>1. IsState(s) /\ IsMap(s.tasks) /\ s.tidx \in Nat /\ Told(s, U) /\ Numbered(s)
  BY Zenon DEF Live, Well
<1>2. DOMAIN f = DOMAIN s.tasks /\ f = [k \in DOMAIN f |-> f[k]]
  BY Zenon
<1>3. \A k \in DOMAIN s.tasks : SameTask(s.tasks[k], f[k])
  <2>1. \A k \in DOMAIN s.tasks : IsTask(s.tasks[k])
    BY <1>1, Zenon DEF IsMap
  <2> QED
    BY <2>1, SetFields, Zenon DEF ParseToJsonStr
<1>4. /\ IsState(t) /\ t.tasks = s.tasks /\ t.saved = f /\ t.tidx = s.tidx
      /\ t.sa = s.sa /\ t.heard = s.heard /\ t.busy = s.busy
  <2> HIDE DEF f
  <2>1. t = [s EXCEPT !.saved = f]
    BY Zenon DEF RefreshTaskRecord, f
  <2> HIDE DEF t
  <2> QED
    BY <1>1, <2>1, Zenon DEF IsState, StateFields
<1> HIDE DEF f, t
<1>5. IsMap(f)
  <2>1. \A k \in DOMAIN s.tasks : IsTask(f[k]) /\ Key(f[k]) = k
    BY <1>1, <1>3, SameKey, Zenon DEF IsMap, SameTask
  <2> QED
    BY <1>1, <1>2, <2>1, Zenon DEF IsMap
<1>6. Filed(t)
  <2>1. \A k \in DOMAIN s.tasks : /\ f[k].suspended = s.tasks[k].suspended
                                  /\ f[k].pid = s.tasks[k].pid /\ f[k].id = s.tasks[k].id
    BY <1>3, Zenon DEF SameTask
  <2> QED
    BY <1>2, <1>4, <2>1, ZenonT(30) DEF Filed
<1>7. Told(t, U)
  BY <1>1, <1>4, Zenon DEF Told
<1>8. Numbered(t)
  BY <1>1, <1>4, Zenon DEF Numbered
<1> QED
  BY <1>1, <1>4, <1>5, <1>6, <1>7, <1>8, Zenon DEF Good, Live, Well, t

-----------------------------------------------------------------------------
(* Telling the subscribers.                                                *)

\* OnContinuousTaskChanged by the kind of change.
LEMMA Changed ==
    ASSUME NEW s, NEW r
    PROVE  /\ OnContinuousTaskChanged(s, r, "START") = NotifySubscribersTaskStart(s, r)
           /\ OnContinuousTaskChanged(s, r, "UPDATE") = s
           /\ OnContinuousTaskChanged(s, r, "CANCEL") = NotifySubscribersTaskCancel(s, r)
           /\ OnContinuousTaskChanged(s, r, "SUSPEND") = NotifySubscribersTaskSuspend(s, r)
           /\ OnContinuousTaskChanged(s, r, "ACTIVE") = NotifySubscribersTaskActive(s, r)
BY Zenon DEF OnContinuousTaskChanged

\* The state but for what has been told.
SameTasks(s, t) ==
    /\ IsState(t)
    /\ t.tasks = s.tasks /\ t.saved = s.saved /\ t.tidx = s.tidx /\ t.sa = s.sa

TellsAs(s, t, h, b) == SameTasks(s, t) /\ t.heard = h /\ t.busy = b

\* Telling the subscriber changes what it has heard alone.
LEMMA SetTold ==
    ASSUME NEW s, IsState(s), NEW h, NEW b
    PROVE  /\ TellsAs(s, [s EXCEPT !.heard = h, !.busy = b], h, b)
           /\ TellsAs(s, [s EXCEPT !.heard = h], h, s.busy)
           /\ TellsAs(s, [s EXCEPT !.busy = b], s.heard, b)
BY Zenon DEF TellsAs, SameTasks, IsState, StateFields

\* Telling the subscriber keeps tasks, numbers and file.
LEMMA SameTasksKeeps ==
    ASSUME NEW s, NEW t, SameTasks(s, t)
    PROVE  (Well(s) => Well(t)) /\ (Numbered(s) => Numbered(t)) /\ (Filed(s) => Filed(t))
<1>1. Well(s) => Well(t)
  BY Zenon DEF Well, SameTasks
<1>2. Numbered(s) => Numbered(t)
  BY Zenon DEF Numbered, SameTasks
<1>3. Filed(s) => Filed(t)
  BY Zenon DEF Filed, SameTasks
<1> QED
  BY <1>1, <1>2, <1>3, Zenon

\* What an event changes of what has been told.
LEMMA NotifyStart ==
    ASSUME NEW s, IsState(s), NEW r
    PROVE  LET t == NotifySubscribersTaskStart(s, r)
           IN  /\ SameTasks(s, t)
               /\ s.sa => t.heard = s.heard \cup {Key(r)} /\ t.busy = s.busy \cup {r.uid}
<1> DEFINE u == [s EXCEPT !.heard = s.heard \cup {Key(r)}, !.busy = s.busy \cup {r.uid}]
<1>1. TellsAs(s, u, s.heard \cup {Key(r)}, s.busy \cup {r.uid})
  BY SetTold, Zenon
<1>2. NotifySubscribersTaskStart(s, r) = IF s.sa THEN u ELSE s
  BY Zenon DEF NotifySubscribersTaskStart
<1> HIDE DEF u
<1> QED
  BY <1>1, <1>2, Zenon DEF TellsAs, SameTasks

\* A task that is activated is heard of.
LEMMA NotifyActive ==
    ASSUME NEW s, IsState(s), NEW r
    PROVE  LET t == NotifySubscribersTaskActive(s, r)
           IN  /\ SameTasks(s, t)
               /\ s.sa /\ ~r.standby => t.heard = s.heard \cup {Key(r)} /\ t.busy = s.busy \cup {r.uid}
               /\ r.standby => t = s
<1> DEFINE u == [s EXCEPT !.heard = s.heard \cup {Key(r)}, !.busy = s.busy \cup {r.uid}]
<1>1. TellsAs(s, u, s.heard \cup {Key(r)}, s.busy \cup {r.uid})
  BY SetTold, Zenon
<1>2. NotifySubscribersTaskActive(s, r) = IF s.sa /\ ~r.standby THEN u ELSE s
  BY Zenon DEF NotifySubscribersTaskActive
<1> HIDE DEF u
<1> QED
  BY <1>1, <1>2, Zenon DEF TellsAs, SameTasks

\* A task that is suspended is forgotten, unless it is on standby.
LEMMA NotifySuspend ==
    ASSUME NEW s, IsState(s), NEW r
    PROVE  LET t == NotifySubscribersTaskSuspend(s, r)
           IN  /\ SameTasks(s, t) /\ t.busy = s.busy
               /\ t.heard = s.heard \/ t.heard = s.heard \ {Key(r)}
               /\ r.standby => t = s
<1> DEFINE u == [s EXCEPT !.heard = s.heard \ {Key(r)}]
<1>1. TellsAs(s, u, s.heard \ {Key(r)}, s.busy)
  BY SetTold, Zenon
<1>2. NotifySubscribersTaskSuspend(s, r) = IF s.sa /\ ~r.standby THEN u ELSE s
  BY Zenon DEF NotifySubscribersTaskSuspend
<1> HIDE DEF u
<1> QED
  BY <1>1, <1>2, Zenon DEF TellsAs, SameTasks

\* A task that is cancelled is forgotten.
LEMMA NotifyCancel ==
    ASSUME NEW s, IsState(s), NEW r
    PROVE  LET t == NotifySubscribersTaskCancel(s, r)
           IN  /\ SameTasks(s, t) /\ t.busy = s.busy
               /\ s.sa => t.heard = s.heard \ {Key(r)}
<1> DEFINE u == [s EXCEPT !.heard = s.heard \ {Key(r)}]
<1>1. TellsAs(s, u, s.heard \ {Key(r)}, s.busy)
  BY SetTold, Zenon
<1>2. NotifySubscribersTaskCancel(s, r) = IF s.sa THEN u ELSE s
  BY Zenon DEF NotifySubscribersTaskCancel
<1> HIDE DEF u
<1> QED
  BY <1>1, <1>2, Zenon DEF TellsAs, SameTasks

\* The end of an application's tasks.
LEMMA AppStopKeeps ==
    ASSUME NEW s, NEW U, NEW uid, Live(s, U \cup {uid})
    PROVE  LET t == HandleAppContinuousTaskStop(s, uid)
           IN  Live(t, U) /\ t.tasks = s.tasks /\ (Filed(s) => Filed(t))
<1> DEFINE t == HandleAppContinuousTaskStop(s, uid)
           u == [s EXCEPT !.busy = s.busy \ {uid}]
           quiet == s.sa /\ TasksOf(s, uid) = {}
<1>1. IsState(s) /\ IsMap(s.tasks) /\ Well(s) /\ Told(s, U \cup {uid}) /\ Numbered(s)
  BY Zenon DEF Live, Well
<1>2. SameTasks(s, u) /\ u.heard = s.heard /\ u.busy = s.busy \ {uid}
  <2>1. TellsAs(s, u, s.heard, s.busy \ {uid})
    BY <1>1, SetTold, Zenon
  <2> QED
    BY <2>1, Zenon DEF TellsAs
<1>3. t = IF quiet THEN u ELSE s
  BY Zenon DEF HandleAppContinuousTaskStop
<1>4. uid \in Owners(s.tasks) <=> TasksOf(s, uid) # {}
  <2>1. \A k \in DOMAIN s.tasks : k[1] = s.tasks[k].uid
    BY <1>1, KeyUid, Zenon
  <2> QED
    BY <2>1 DEF Owners, TasksOf
<1> HIDE DEF t, u
<1>5. CASE quiet
  <2>1. t = u
    BY <1>3, <1>5, Zenon
  <2>2. Told(u, U)
    <3>1. s.sa /\ uid \notin Owners(s.tasks) /\ u.tasks = s.tasks /\ u.sa = s.sa
      BY <1>2, <1>4, <1>5, Zenon DEF SameTasks
    <3>2. Owners(s.tasks) \subseteq s.busy /\ s.busy \subseteq Owners(s.tasks) \cup (U \cup {uid})
      BY <1>1, <3>1, Zenon DEF Told
    <3>3. Owners(s.tasks) \subseteq u.busy /\ u.busy \subseteq Owners(s.tasks) \cup U
      BY <1>2, <3>1, <3>2, Zenon
    <3> QED
      BY <1>1, <1>2, <3>1, <3>3, Zenon DEF Told
  <2>3. Well(u) /\ Numbered(u) /\ (Filed(s) => Filed(u)) /\ u.tasks = s.tasks
    BY <1>1, <1>2, SameTasksKeeps, Zenon DEF SameTasks
  <2> QED
    BY <2>1, <2>2, <2>3, Zenon DEF Live, t
<1>6. CASE ~quiet
  <2>1. t = s
    BY <1>3, <1>6, Zenon
  <2>2. Told(s, U)
    <3>1. ~s.sa \/ uid \in Owners(s.tasks)
      BY <1>4, <1>6, Zenon
    <3>2. CASE ~s.sa
      BY <3>2, Zenon DEF Told
    <3>3. CASE uid \in Owners(s.tasks)
      <4>1. s.sa => s.busy \subseteq Owners(s.tasks) \cup U
        BY <1>1, <3>3, Zenon DEF Told
      <4> QED
        BY <1>1, <4>1, Zenon DEF Told
    <3> QED
      BY <3>1, <3>2, <3>3, Zenon
  <2> QED
    BY <1>1, <2>1, <2>2, Zenon DEF Live, t
<1> QED
  BY <1>5, <1>6, Zenon

-----------------------------------------------------------------------------
(* Suspending, activating and ending a task.                               *)

\* A record is replaced and the subscriber told.
LEMMA RetoldKeeps ==
    ASSUME NEW s, NEW U, Live(s, U), NEW k \in DOMAIN s.tasks, NEW r, r.id = s.tasks[k].id,
           NEW p, Replaces(s, p, k, r), NEW t, SameTasks(p, t), Told(t, U)
    PROVE  Live(t, U)
<1>1. Well(p) /\ SameRest(s, p) /\ DOMAIN p.tasks = DOMAIN s.tasks
  BY Zenon DEF Replaces
<1>2. \A j \in DOMAIN s.tasks : p.tasks[j].id = s.tasks[j].id
  BY Zenon DEF Replaces
<1>3. Numbered(p)
  BY <1>1, <1>2, Zenon DEF Live, Numbered, IdsUnique, SameRest
<1> QED
  BY <1>1, <1>3, SameTasksKeeps, Zenon DEF Live

\* OnContinuousTaskChanged after a suspension: what the subscriber knows stays true.
LEMMA SuspendKeeps ==
    ASSUME NEW s, NEW U, Live(s, U), NEW k \in DOMAIN s.tasks, NEW r, IsTask(r), Key(r) = k,
           r.id = s.tasks[k].id, r.suspended \/ (r.standby /\ r.suspended = s.tasks[k].suspended)
    PROVE  /\ Live(OnContinuousTaskChanged(Put(s, r), r, "SUSPEND"), U)
           /\ DOMAIN OnContinuousTaskChanged(Put(s, r), r, "SUSPEND").tasks = DOMAIN s.tasks
<1> DEFINE p == Put(s, r)
           t == NotifySubscribersTaskSuspend(p, r)
<1>1. OnContinuousTaskChanged(Put(s, r), r, "SUSPEND") = t
  BY Changed, Zenon
<1>2. Well(s) /\ Told(s, U)
  BY Zenon DEF Live
<1>3. Replaces(s, p, k, r)
  BY <1>2, PutReplaces, Zenon
<1> HIDE DEF p
<1>4. IsState(p) /\ SameRest(s, p) /\ DOMAIN p.tasks = DOMAIN s.tasks /\ p.tasks[k] = r
  BY <1>3, Zenon DEF Replaces, SameRest
<1>5. /\ SameTasks(p, t) /\ t.busy = p.busy
      /\ t.heard = p.heard \/ t.heard = p.heard \ {Key(r)}
      /\ r.standby => t = p
  BY <1>4, NotifySuspend, Zenon
<1> HIDE DEF t
<1>6. t.tasks = p.tasks /\ t.sa = s.sa /\ t.busy = s.busy
  BY <1>4, <1>5, Zenon DEF SameTasks, SameRest
<1>7. t.heard \subseteq s.heard /\ (r.standby => t.heard = s.heard) /\ \A j : j # k /\ j \in s.heard => j \in t.heard
  BY <1>4, <1>5, Zenon DEF SameRest
<1>8. Told(t, U)
  <2>1. Owners(t.tasks) = Owners(s.tasks)
    BY <1>4, <1>6, Zenon DEF Owners
  <2>2. ASSUME s.sa, NEW j \in DOMAIN s.tasks, ~t.tasks[j].suspended
        PROVE  j \in t.heard
    <3>1. CASE j = k
      BY <1>2, <1>4, <1>6, <1>7, <2>2, <3>1, Zenon DEF Told
    <3>2. CASE j # k
      <4>1. t.tasks[j] = s.tasks[j]
        BY <1>3, <1>6, <3>2, Zenon DEF Replaces
      <4> QED
        BY <1>2, <1>7, <2>2, <3>2, <4>1, Zenon DEF Told
    <3> QED
      BY <3>1, <3>2, Zenon
  <2>3. s.sa => t.heard \subseteq DOMAIN s.tasks
    BY <1>2, <1>7, Zenon DEF Told
  <2> QED
    BY <1>2, <1>4, <1>6, <2>1, <2>2, <2>3, Zenon DEF Told
<1>9. Live(t, U)
  BY <1>3, <1>5, <1>8, RetoldKeeps, Zenon
<1> QED
  BY <1>1, <1>4, <1>6, <1>9, Zenon

\* OnContinuousTaskChanged after an activation: what the subscriber knows stays true.
LEMMA ActiveKeeps ==
    ASSUME NEW s, NEW U, Live(s, U), NEW k \in DOMAIN s.tasks, NEW r, IsTask(r), Key(r) = k,
           r.id = s.tasks[k].id, ~r.standby \/ (r.standby /\ r.suspended = s.tasks[k].suspended)
    PROVE  /\ Live(OnContinuousTaskChanged(Put(s, r), r, "ACTIVE"), U)
           /\ DOMAIN OnContinuousTaskChanged(Put(s, r), r, "ACTIVE").tasks = DOMAIN s.tasks
           /\ OnContinuousTaskChanged(Put(s, r), r, "ACTIVE").tasks[k] = r
<1> DEFINE p == Put(s, r)
           t == NotifySubscribersTaskActive(p, r)
<1>1. OnContinuousTaskChanged(Put(s, r), r, "ACTIVE") = t
  BY Changed, Zenon
<1>2. Well(s) /\ Told(s, U)
  BY Zenon DEF Live
<1>3. Replaces(s, p, k, r)
  BY <1>2, PutReplaces, Zenon
<1> HIDE DEF p
<1>4. IsState(p) /\ SameRest(s, p) /\ DOMAIN p.tasks = DOMAIN s.tasks /\ p.tasks[k] = r
  BY <1>3, Zenon DEF Replaces, SameRest
<1>5. /\ SameTasks(p, t)
      /\ p.sa /\ ~r.standby => t.heard = p.heard \cup {Key(r)} /\ t.busy = p.busy \cup {r.uid}
      /\ r.standby => t = p
  BY <1>4, NotifyActive, Zenon
<1> HIDE DEF t
<1>6. t.tasks = p.tasks /\ t.sa = s.sa
  BY <1>4, <1>5, Zenon DEF SameTasks, SameRest
<1>7. s.sa => /\ s.heard \subseteq t.heard /\ t.heard \subseteq s.heard \cup {k}
              /\ s.busy \subseteq t.busy /\ t.busy \subseteq s.busy \cup {k[1]}
              /\ ~r.standby => k \in t.heard
  <2>1. k[1] = r.uid
    BY Zenon DEF Key
  <2> QED
    BY <1>4, <1>5, <2>1, Zenon DEF SameRest
<1>8. Told(t, U)
  <2>1. Owners(t.tasks) = Owners(s.tasks) /\ k[1] \in Owners(s.tasks)
    BY <1>4, <1>6, Zenon DEF Owners
  <2>2. ASSUME s.sa, NEW j \in DOMAIN s.tasks, ~t.tasks[j].suspended
        PROVE  j \in t.heard
    <3>1. CASE j = k
      BY <1>2, <1>4, <1>6, <1>7, <2>2, <3>1, Zenon DEF Told
    <3>2. CASE j # k
      <4>1. t.tasks[j] = s.tasks[j]
        BY <1>3, <1>6, <3>2, Zenon DEF Replaces
      <4> QED
        BY <1>2, <1>7, <2>2, <4>1, Zenon DEF Told
    <3> QED
      BY <3>1, <3>2, Zenon
  <2>3. s.sa => t.heard \subseteq DOMAIN s.tasks
    BY <1>2, <1>7, Zenon DEF Told
  <2>4. s.sa => Owners(s.tasks) \subseteq t.busy /\ t.busy \subseteq Owners(s.tasks) \cup U
    BY <1>2, <1>7, <2>1, Zenon DEF Told
  <2> QED
    BY <1>2, <1>4, <1>6, <2>1, <2>2, <2>3, <2>4, Zenon DEF Told
<1>9. Live(t, U)
  BY <1>3, <1>5, <1>8, RetoldKeeps, Zenon
<1> QED
  BY <1>1, <1>4, <1>6, <1>9, Zenon

\* The state in which the end of the task k has been told and the task is out of
\* the map; v differs from the state that was told in its notifications.
LEMMA CancelKeeps ==
    ASSUME NEW s, NEW U, Live(s, U), NEW k \in DOMAIN s.tasks, NEW v,
           SameCore(OnContinuousTaskChanged(s, s.tasks[k], "CANCEL"), v)
    PROVE  /\ Live(Erase(v, k), U \cup {s.tasks[k].uid})
           /\ DOMAIN Erase(v, k).tasks = DOMAIN s.tasks \ {k}
<1> DEFINE t == NotifySubscribersTaskCancel(s, s.tasks[k])
           e == Erase(v, k)
           f == Restrict(v.tasks, DOMAIN v.tasks \ {k})
           W == U \cup {s.tasks[k].uid}
<1>1. SameCore(t, v)
  BY Changed, Zenon
<1>2. IsState(s) /\ IsMap(s.tasks) /\ IsMap(s.saved) /\ s.tidx \in Nat /\ Told(s, U) /\ Numbered(s)
  BY Zenon DEF Live, Well
<1>3. SameTasks(s, t) /\ t.busy = s.busy /\ (s.sa => t.heard = s.heard \ {Key(s.tasks[k])})
  BY <1>2, NotifyCancel, Zenon
<1> HIDE DEF t
<1>4. /\ IsState(v) /\ v.tasks = s.tasks /\ v.saved = s.saved /\ v.tidx = s.tidx /\ v.sa = s.sa
      /\ v.busy = s.busy /\ (s.sa => v.heard = s.heard \ {k})
  <2>1. Key(s.tasks[k]) = k
    BY <1>2, Zenon DEF IsMap
  <2> QED
    BY <1>1, <1>3, <2>1, Zenon DEF SameCore, SameTasks
<1>5. SameRest(v, e) /\ e.tasks = f
  <2>1. e = [v EXCEPT !.tasks = f]
    BY Zenon DEF Erase
  <2> HIDE DEF e, f
  <2> QED
    BY <1>4, <2>1, SetTasks, Zenon
<1>6. /\ DOMAIN f = DOMAIN s.tasks \ {k} /\ f = [j \in DOMAIN f |-> f[j]]
      /\ \A j \in DOMAIN s.tasks \ {k} : f[j] = s.tasks[j]
  BY <1>4, Zenon DEF Restrict
<1> HIDE DEF e, f
<1>7. IsMap(f)
  <2>1. IsFiniteSet(DOMAIN s.tasks \ {k})
    BY <1>2, FS_Difference, Zenon DEF IsMap
  <2> QED
    BY <1>2, <1>6, <2>1, Zenon DEF IsMap
<1>8. Well(e)
  BY <1>2, <1>4, <1>5, <1>7, Zenon DEF Well, SameRest
<1>9. Numbered(e)
  BY <1>2, <1>4, <1>5, <1>6, Zenon DEF Numbered, IdsUnique, SameRest
<1>10. Told(e, W)
  <2>1. e.sa = s.sa /\ e.busy = s.busy /\ (s.sa => e.heard = s.heard \ {k})
    BY <1>4, <1>5, Zenon DEF SameRest
  <2>2. Owners(f) \subseteq Owners(s.tasks) /\ Owners(s.tasks) \subseteq Owners(f) \cup {k[1]}
    BY <1>6, Zenon DEF Owners
  <2>3. k[1] = s.tasks[k].uid
    BY <1>2, KeyUid, Zenon
  <2>4. s.sa => Owners(f) \subseteq e.busy /\ e.busy \subseteq Owners(f) \cup W
    <3>1. s.sa => Owners(s.tasks) \subseteq s.busy /\ s.busy \subseteq Owners(s.tasks) \cup U
      BY <1>2, Zenon DEF Told
    <3> QED
      BY <2>1, <2>2, <2>3, <3>1, Zenon
  <2>5. s.sa => e.heard \subseteq DOMAIN f
    <3>1. s.sa => s.heard \subseteq DOMAIN s.tasks
      BY <1>2, Zenon DEF Told
    <3> QED
      BY <1>6, <2>1, <3>1, Zenon
  <2>6. ASSUME s.sa, NEW j \in DOMAIN f, ~f[j].suspended PROVE j \in e.heard
    <3>1. j \in s.heard /\ j # k
      BY <1>2, <1>6, <2>6, Zenon DEF Told
    <3> QED
      BY <2>1, <2>6, <3>1, Zenon
  <2> HIDE DEF W
  <2> QED
    BY <1>5, <2>1, <2>4, <2>5, <2>6, Zenon DEF Told
<1> QED
  BY <1>5, <1>6, <1>8, <1>9, <1>10, Zenon DEF Live, e

-----------------------------------------------------------------------------
(* One turn of each loop.                                                  *)

\* A turn for the key k leaves the state good and the other tasks in the map.
Turned(s, t, U, k) == Good(t, U) /\ DOMAIN s.tasks \ {k} \subseteq DOMAIN t.tasks

\* The shape of a state and of its records.
LEMMA LiveShape ==
    ASSUME NEW s, NEW U, Live(s, U)
    PROVE  /\ IsState(s)
           /\ \A k \in DOMAIN s.tasks : IsTask(s.tasks[k]) /\ Key(s.tasks[k]) = k /\ k[1] = s.tasks[k].uid
           /\ \A r : IsState(OnContinuousTaskChanged(s, r, "CANCEL"))
<1>1. IsState(s) /\ IsMap(s.tasks)
  BY Zenon DEF Live, Well
<1>2. \A k \in DOMAIN s.tasks : IsTask(s.tasks[k]) /\ Key(s.tasks[k]) = k
  BY <1>1, Zenon DEF IsMap
<1>3. \A k \in DOMAIN s.tasks : k[1] = s.tasks[k].uid
  BY <1>1, KeyUid, Zenon
<1>4. ASSUME NEW r PROVE IsState(OnContinuousTaskChanged(s, r, "CANCEL"))
  <2>1. SameTasks(s, NotifySubscribersTaskCancel(s, r))
    BY <1>1, NotifyCancel, Zenon
  <2> QED
    BY <2>1, Changed, Zenon DEF SameTasks
<1> QED
  BY <1>1, <1>2, <1>3, <1>4, Zenon

\* After an operation the tasks are as during it.
LEMMA GoodLive ==
    ASSUME NEW s, NEW U, Good(s, U)
    PROVE  Live(s, U)
BY Zenon DEF Good

\* The end of a task, with that of its application's tasks.
LEMMA FinishKeeps ==
    ASSUME NEW s, NEW U, NEW uid, Live(s, U \cup {uid})
    PROVE  LET t == RefreshTaskRecord(HandleAppContinuousTaskStop(s, uid))
           IN  Good(t, U) /\ t.tasks = s.tasks
<1> DEFINE u == HandleAppContinuousTaskStop(s, uid)
<1>1. Live(u, U) /\ u.tasks = s.tasks
  BY AppStopKeeps, Zenon
<1> HIDE DEF u
<1>2. Good(RefreshTaskRecord(u), U) /\ RefreshTaskRecord(u).tasks = u.tasks
  BY <1>1, RefreshKeeps, Zenon
<1> QED
  BY <1>1, <1>2, Zenon DEF u

\* The scheduler removes one record; its uid may be taken for busy until the loop ends.
LEMMA RemoveRecordTurn ==
    ASSUME NEW s, NEW U, Good(s, U), NEW k \in DOMAIN s.tasks, k[1] \in U, NEW bad
    PROVE  Turned(s, RemoveRecord(s, bad, k), U, k)
<1> DEFINE r == s.tasks[k]
           t == OnContinuousTaskChanged(s, r, "CANCEL")
           v == WithdrawBoth(t, bad, r)
           e == Erase(v, k)
<1>1. Live(s, U) /\ IsState(t) /\ k[1] = r.uid
  BY GoodLive, LiveShape, Zenon
<1>2. SameCore(t, v)
  <2> HIDE DEF t
  <2> QED
    BY <1>1, WithdrawBothCore, Zenon
<1>3. Live(e, U \cup {r.uid}) /\ DOMAIN e.tasks = DOMAIN s.tasks \ {k}
  <2> HIDE DEF v
  <2> QED
    BY <1>1, <1>2, CancelKeeps, Zenon
<1>4. U \cup {r.uid} = U
  BY <1>1, Zenon
<1>5. RemoveRecord(s, bad, k) = RefreshTaskRecord(e)
  BY Zenon DEF RemoveRecord
<1> HIDE DEF e
<1>6. Live(e, U)
  BY <1>3, <1>4, Zenon
<1>7. Good(RefreshTaskRecord(e), U) /\ RefreshTaskRecord(e).tasks = e.tasks
  BY <1>6, RefreshKeeps, Zenon
<1> QED
  BY <1>3, <1>5, <1>7, Zenon DEF Turned

\* StopBackgroundRunningByTask ends one task, whatever fails.
LEMMA StopKeeps ==
    ASSUME NEW s, NEW U, Good(s, U), NEW k \in DOMAIN s.tasks, NEW bad
    PROVE  /\ Good(StopBackgroundRunningByTask(s, bad, k).s, U)
           /\ DOMAIN StopBackgroundRunningByTask(s, bad, k).s.tasks = DOMAIN s.tasks \ {k}
<1> DEFINE r == s.tasks[k]
           t == OnContinuousTaskChanged(s, r, "CANCEL")
           e == Erase(t, k)
           c == CancelNotification(e, bad, r)
           z == RefreshTaskRecord(HandleAppContinuousTaskStop(c.s, r.uid))
<1>1. Live(s, U) /\ IsState(t)
  BY GoodLive, LiveShape, Zenon
<1>2. Live(e, U \cup {r.uid}) /\ DOMAIN e.tasks = DOMAIN s.tasks \ {k}
  <2>1. SameCore(t, t)
    BY <1>1, SameCoreSelf, Zenon
  <2> HIDE DEF t
  <2> QED
    BY <1>1, <2>1, CancelKeeps, Zenon DEF t
<1> HIDE DEF e
<1>3. SameCore(e, c.s) /\ \E ok : c = [s |-> c.s, ok |-> ok]
  <2>1. IsState(e)
    BY <1>2, LiveShape, Zenon
  <2> QED
    BY <2>1, CancelNotificationCore, Zenon
<1>4. StopBackgroundRunningByTask(s, bad, k) = [c EXCEPT !.s = z]
  BY Zenon DEF StopBackgroundRunningByTask, e
<1> HIDE DEF c
<1>5. Live(c.s, U \cup {r.uid}) /\ DOMAIN c.s.tasks = DOMAIN s.tasks \ {k}
  <2>1. SameCore(e, c.s)
    BY <1>3, Zenon
  <2>2. Follows(e, c.s, U \cup {r.uid})
    BY <2>1, CoreKeeps, Zenon
  <2> QED
    BY <1>2, <2>2, Zenon DEF Follows
<1>6. Good(z, U) /\ z.tasks = c.s.tasks
  BY <1>5, FinishKeeps, Zenon
<1> HIDE DEF z
<1>7. [c EXCEPT !.s = z].s = z
  BY <1>3, Zenon
<1> QED
  BY <1>4, <1>5, <1>6, <1>7, Zenon

\* The end of one task whose notification the user removed.
LEMMA EndShownTurn ==
    ASSUME NEW s, NEW U, Good(s, U), NEW k \in DOMAIN s.tasks, NEW bad, NEW isSub
    PROVE  Turned(s, EndShown(s, bad, isSub, k), U, k)
<1> DEFINE r == s.tasks[k]
           t == OnContinuousTaskChanged(s, r, "CANCEL")
           v == IF isSub THEN Withdraw(t, bad, r.label, r.nid)
                ELSE IF r.byReq THEN WithdrawSub(t, bad, r) ELSE t
           e == Erase(v, k)
           z == RefreshTaskRecord(HandleAppContinuousTaskStop(e, r.uid))
<1>1. Live(s, U) /\ IsState(t)
  BY GoodLive, LiveShape, Zenon
<1>2. SameCore(t, v)
  <2> HIDE DEF t
  <2> QED
    BY <1>1, WithdrawCore, WithdrawSubCore, SameCoreSelf, Zenon
<1>3. Live(e, U \cup {r.uid}) /\ DOMAIN e.tasks = DOMAIN s.tasks \ {k}
  <2> HIDE DEF v
  <2> QED
    BY <1>1, <1>2, CancelKeeps, Zenon
<1>4. EndShown(s, bad, isSub, k) = z
  <2> HIDE DEF v
  <2> QED
    BY Zenon DEF EndShown, v
<1> HIDE DEF e
<1>5. Good(z, U) /\ z.tasks = e.tasks
  BY <1>3, FinishKeeps, Zenon
<1> QED
  BY <1>3, <1>4, <1>5, Zenon DEF Turned

\* The end of one task with its application, account or data.
LEMMA EndRecordTurn ==
    ASSUME NEW s, NEW U, Good(s, U), NEW k \in DOMAIN s.tasks, NEW bad, NEW kinds
    PROVE  Turned(s, EndRecord(s, bad, kinds, k), U, k)
<1> DEFINE r == s.tasks[k]
           t == OnContinuousTaskChanged(s, r, "CANCEL")
           u == IF "main" \in kinds /\ r.nid # NoId THEN Withdraw(t, bad, r.label, r.nid) ELSE t
           v == IF "sub" \in kinds /\ r.byReq THEN WithdrawSub(u, bad, r) ELSE u
           e == Erase(v, k)
           z == RefreshTaskRecord(HandleAppContinuousTaskStop(e, r.uid))
<1>1. Live(s, U) /\ IsState(t)
  BY GoodLive, LiveShape, Zenon
<1>2. SameCore(t, u) /\ IsState(u)
  <2> HIDE DEF t
  <2>1. SameCore(t, u)
    BY <1>1, WithdrawCore, SameCoreSelf, Zenon
  <2> HIDE DEF u
  <2> QED
    BY <2>1, CoreIsState, Zenon
<1>3. SameCore(t, v)
  <2> HIDE DEF t, u
  <2> QED
    BY <1>2, WithdrawSubCore, SameCoreTrans, Zenon
<1>4. Live(e, U \cup {r.uid}) /\ DOMAIN e.tasks = DOMAIN s.tasks \ {k}
  <2> HIDE DEF v
  <2> QED
    BY <1>1, <1>3, CancelKeeps, Zenon
<1>5. EndRecord(s, bad, kinds, k) = z
  <2> HIDE DEF u, v
  <2> QED
    BY Zenon DEF EndRecord, u, v
<1> HIDE DEF e
<1>6. Good(z, U) /\ z.tasks = e.tasks
  BY <1>4, FinishKeeps, Zenon
<1> QED
  BY <1>4, <1>5, <1>6, Zenon DEF Turned

\* The end of one task whose system ability went.
LEMMA RemoveInnerTurn ==
    ASSUME NEW s, NEW U, Good(s, U), NEW k \in DOMAIN s.tasks, NEW bad
    PROVE  Turned(s, RemoveInner(s, bad, k), U, k)
<1> DEFINE r == s.tasks[k]
           t == OnContinuousTaskChanged(s, r, "CANCEL")
           e == Erase(t, k)
           z == RefreshTaskRecord(HandleAppContinuousTaskStop(e, r.uid))
<1>1. Live(s, U) /\ IsState(t)
  BY GoodLive, LiveShape, Zenon
<1>2. Live(e, U \cup {r.uid}) /\ DOMAIN e.tasks = DOMAIN s.tasks \ {k}
  <2>1. SameCore(t, t)
    BY <1>1, SameCoreSelf, Zenon
  <2> HIDE DEF t
  <2> QED
    BY <1>1, <2>1, CancelKeeps, Zenon DEF t
<1>3. RemoveInner(s, bad, k) = CancelNotification(z, bad, r).s
  BY Zenon DEF RemoveInner
<1> HIDE DEF e
<1>4. Good(z, U) /\ z.tasks = e.tasks
  BY <1>2, FinishKeeps, Zenon
<1> HIDE DEF z
<1>5. SameCore(z, CancelNotification(z, bad, r).s)
  <2>1. IsState(z)
    BY <1>4, GoodLive, LiveShape, Zenon
  <2> QED
    BY <2>1, CancelNotificationCore, Zenon
<1>6. Good(CancelNotification(z, bad, r).s, U) /\ DOMAIN CancelNotification(z, bad, r).s.tasks = DOMAIN z.tasks
  BY <1>4, <1>5, CoreKeeps, Zenon DEF Follows
<1> QED
  BY <1>2, <1>3, <1>4, <1>6, ZenonT(30) DEF Turned

\* One task leaves standby.
LEMMA ActivateByStandbyTurn ==
    ASSUME NEW s, NEW U, Good(s, U), NEW k \in DOMAIN s.tasks
    PROVE  Turned(s, ActivateByStandby(s, k), U, k)
<1> DEFINE r == [s.tasks[k] EXCEPT !.standby = TRUE, !.standbySuspend = FALSE]
           t == OnContinuousTaskChanged(Put(s, r), r, "ACTIVE")
<1>1. Live(s, U) /\ IsTask(s.tasks[k]) /\ Key(s.tasks[k]) = k
  BY GoodLive, LiveShape, Zenon
<1>2. SameTask(s.tasks[k], r)
  BY <1>1, SetFields, Zenon
<1>3. r.standby
  BY <1>1, Zenon DEF IsTask, TaskFields
<1>4. ActivateByStandby(s, k) = RefreshTaskRecord(t)
  BY Zenon DEF ActivateByStandby
<1> HIDE DEF r
<1>5. IsTask(r) /\ Key(r) = k /\ r.id = s.tasks[k].id /\ r.suspended = s.tasks[k].suspended
  BY <1>1, <1>2, SameKey, Zenon DEF SameTask
<1>6. Live(t, U) /\ DOMAIN t.tasks = DOMAIN s.tasks
  BY <1>1, <1>3, <1>5, ActiveKeeps, ZenonT(30)
<1> HIDE DEF t
<1>7. Good(RefreshTaskRecord(t), U) /\ RefreshTaskRecord(t).tasks = t.tasks
  BY <1>6, RefreshKeeps, Zenon
<1> QED
  BY <1>4, <1>6, <1>7, Zenon DEF Turned

\* A record is replaced by one of the same task, and the file may be written.
LEMMA PutTurn ==
    ASSUME NEW s, NEW U, Good(s, U), NEW k \in DOMAIN s.tasks, NEW r, SameTask(s.tasks[k], r)
    PROVE  /\ Turned(s, Put(s, r), U, k) /\ Turned(s, RefreshTaskRecord(Put(s, r)), U, k)
           /\ DOMAIN Put(s, r).tasks = DOMAIN s.tasks
           /\ DOMAIN RefreshTaskRecord(Put(s, r)).tasks = DOMAIN s.tasks
<1> DEFINE t == Put(s, r)
<1>1. Good(t, U) /\ Live(t, U) /\ DOMAIN t.tasks = DOMAIN s.tasks
  <2>1. Follows(s, t, U)
    BY GoodLive, PutKeeps, Zenon
  <2> QED
    BY <2>1, GoodLive, Zenon DEF Follows
<1> HIDE DEF t
<1>2. Good(RefreshTaskRecord(t), U) /\ RefreshTaskRecord(t).tasks = t.tasks
  BY <1>1, RefreshKeeps, Zenon
<1> QED
  BY <1>1, <1>2, Zenon DEF Turned, t

\* Playback of one task is noted or forgotten.
LEMMA SetPlayingTurn ==
    ASSUME NEW s, NEW U, Good(s, U), NEW k \in DOMAIN s.tasks
    PROVE  Turned(s, SetPlaying(s, k), U, k) /\ Turned(s, SetSilent(s, k), U, k)
<1>1. IsTask(s.tasks[k])
  BY GoodLive, LiveShape, Zenon
<1>2. /\ SameTask(s.tasks[k], [s.tasks[k] EXCEPT !.playing = TRUE])
      /\ SameTask(s.tasks[k], [s.tasks[k] EXCEPT !.playing = FALSE])
  BY <1>1, SetFields, Zenon
<1> QED
  BY <1>2, PutTurn, Zenon DEF SetPlaying, SetSilent

\* The record r of a task is sent and goes back into the map.
LEMMA SentKeeps ==
    ASSUME NEW s, NEW U, Live(s, U), NEW k \in DOMAIN s.tasks, NEW r, SameTask(s.tasks[k], r),
           NEW m, Shows(s, r, m)
    PROVE  Follows(s, Sent(m), U) /\ Sent(m).tasks[k] = m.r
<1>1. SameCore(s, m.s) /\ SameTask(r, m.r)
  BY Zenon DEF Shows
<1>2. Follows(s, m.s, U)
  BY <1>1, CoreKeeps, Zenon
<1>3. Live(m.s, U) /\ k \in DOMAIN m.s.tasks
  BY <1>2, Zenon DEF Follows
<1>4. SameTask(m.s.tasks[k], m.r)
  BY <1>1, SameTaskTrans, Zenon DEF SameCore
<1>5. Follows(m.s, Put(m.s, m.r), U)
  BY <1>3, <1>4, PutKeeps, Zenon
<1>6. Put(m.s, m.r).tasks[k] = m.r
  BY <1>3, <1>4, PutGets, Zenon
<1> QED
  BY <1>2, <1>5, <1>6, FollowsTrans, Zenon DEF Sent

\* A task is shown again.
LEMMA HandleActiveNotificationKeeps ==
    ASSUME NEW s, NEW U, Live(s, U), NEW k \in DOMAIN s.tasks, NEW bad
    PROVE  Follows(s, HandleActiveNotification(s, bad, s.tasks[k]), U)
<1> DEFINE m == Send(s, bad, s.tasks[k])
           t == HandleActiveNotification(s, bad, s.tasks[k])
<1>1. IsState(s) /\ IsTask(s.tasks[k])
  BY LiveShape, Zenon
<1>2. Shows(s, s.tasks[k], m) /\ SameTask(s.tasks[k], s.tasks[k])
  BY <1>1, SendShows, SameTaskSelf, Zenon
<1>3. t = s \/ t = Sent(m)
  BY Zenon DEF HandleActiveNotification
<1> HIDE DEF m, t
<1>4. Follows(s, Sent(m), U)
  BY <1>2, SentKeeps, Zenon
<1>5. Follows(s, s, U)
  BY Zenon DEF Follows
<1> QED
  BY <1>3, <1>4, <1>5, Zenon DEF t

\* A task that the detection names is shown again.
LEMMA ShowDetectedTurn ==
    ASSUME NEW s, NEW U, Good(s, U), NEW k \in DOMAIN s.tasks, NEW bad
    PROVE  Turned(s, ShowDetected(s, bad, k), U, k)
<1> DEFINE t == [s EXCEPT !.avs = @ \ {s.tasks[k].uid}]
           u == HandleActiveNotification(t, bad, t.tasks[k])
<1>1. SameCore(s, t)
  BY GoodLive, LiveShape, SetState, Zenon
<1>2. ShowDetected(s, bad, k) = u
  BY Zenon DEF ShowDetected
<1> HIDE DEF t
<1>3. Good(t, U) /\ Live(t, U) /\ DOMAIN t.tasks = DOMAIN s.tasks
  BY <1>1, CoreKeeps, GoodLive, Zenon DEF Follows
<1>4. Follows(t, u, U)
  BY <1>3, HandleActiveNotificationKeeps, Zenon
<1>5. Good(u, U) /\ DOMAIN u.tasks = DOMAIN s.tasks
  BY <1>3, <1>4, Zenon DEF Follows
<1> QED
  BY <1>2, <1>5, Zenon DEF Turned

\* The notification of one task is withdrawn.
LEMMA HideNotificationTurn ==
    ASSUME NEW s, NEW U, Good(s, U), NEW k \in DOMAIN s.tasks, NEW bad
    PROVE  Turned(s, HideNotification(s, bad, k), U, k)
<1> DEFINE r == s.tasks[k]
           t == Withdraw(s, bad, r.label, r.nid)
           q == [r EXCEPT !.nid = NoId]
<1>1. IsState(s) /\ IsTask(r)
  BY GoodLive, LiveShape, Zenon
<1>2. SameCore(s, t) /\ SameTask(r, q)
  BY <1>1, WithdrawCore, SetFields, Zenon
<1>3. HideNotification(s, bad, k) = RefreshTaskRecord(Put(t, q))
  BY Zenon DEF HideNotification
<1> HIDE DEF t, q
<1>4. Good(t, U) /\ t.tasks = s.tasks
  BY <1>2, CoreKeeps, Zenon DEF SameCore, Follows
<1>5. Turned(t, RefreshTaskRecord(Put(t, q)), U, k)
  BY <1>2, <1>4, PutTurn, Zenon
<1> QED
  BY <1>3, <1>4, <1>5, Zenon DEF Turned

\* The notification of one task is sent.
LEMMA ShowNotificationTurn ==
    ASSUME NEW s, NEW U, Good(s, U), NEW k \in DOMAIN s.tasks, NEW bad
    PROVE  Turned(s, ShowNotification(s, bad, k), U, k)
<1> DEFINE m == SendContinuousTaskNotification(s, bad, s.tasks[k])
<1>1. Live(s, U) /\ IsState(s) /\ IsTask(s.tasks[k])
  BY GoodLive, LiveShape, Zenon
<1>2. Shows(s, s.tasks[k], m) /\ SameTask(s.tasks[k], s.tasks[k])
  BY <1>1, SendContinuousShows, SameTaskSelf, Zenon
<1>3. ShowNotification(s, bad, k) = RefreshTaskRecord(Sent(m))
  BY Zenon DEF ShowNotification
<1> HIDE DEF m
<1>4. Live(Sent(m), U) /\ DOMAIN Sent(m).tasks = DOMAIN s.tasks
  <2>1. Follows(s, Sent(m), U)
    BY <1>1, <1>2, SentKeeps, Zenon
  <2> QED
    BY <1>1, <2>1, Zenon DEF Follows
<1>5. Good(RefreshTaskRecord(Sent(m)), U) /\ RefreshTaskRecord(Sent(m)).tasks = Sent(m).tasks
  BY <1>4, RefreshKeeps, Zenon
<1> QED
  BY <1>3, <1>4, <1>5, Zenon DEF Turned

\* SuspendAudio leaves the state, suspends the task or ends it.
LEMMA SuspendAudioTurn ==
    ASSUME NEW s, NEW U, Good(s, U), NEW k \in DOMAIN s.tasks, k[1] \in U, NEW bad
    PROVE  Turned(s, SuspendAudio(s, bad, k), U, k)
<1> DEFINE r == [s.tasks[k] EXCEPT !.detect = FALSE]
           p == Put(s, r)
           w == Withdraw(p, bad, r.label, r.nid)
           t == [w EXCEPT !.hushed = @ \cup {r.label}]
           q == [r EXCEPT !.suspended = TRUE, !.times = 1]
           c == OnContinuousTaskChanged(Put(t, q), q, "SUSPEND")
           e == Erase(OnContinuousTaskChanged(t, r, "CANCEL"), k)
<1>1. Live(s, U) /\ IsTask(s.tasks[k]) /\ Key(s.tasks[k]) = k /\ k[1] = s.tasks[k].uid
  BY GoodLive, LiveShape, Zenon
<1>2. SameTask(s.tasks[k], r)
  BY <1>1, SetFields, Zenon
<1>3. SuspendAudio(s, bad, k) \in {t, RefreshTaskRecord(c), RefreshTaskRecord(e)}
  BY Zenon DEF SuspendAudio
<1> HIDE DEF r
<1>4. IsTask(r) /\ Key(r) = k /\ r.id = s.tasks[k].id /\ r.uid = k[1]
  BY <1>1, <1>2, SameKey, Zenon DEF SameTask
<1>5. Good(p, U) /\ DOMAIN p.tasks = DOMAIN s.tasks /\ p.tasks[k] = r
  <2>1. Follows(s, p, U)
    BY <1>1, <1>2, PutKeeps, Zenon
  <2>2. p.tasks[k] = r
    BY <1>1, <1>2, PutGets, Zenon
  <2> QED
    BY <2>1, <2>2, Zenon DEF Follows
<1> HIDE DEF p
<1>6. SameCore(p, w) /\ IsState(w)
  <2>1. IsState(p)
    BY <1>5, GoodLive, LiveShape, Zenon
  <2> QED
    BY <2>1, WithdrawCore, CoreIsState, Zenon
<1> HIDE DEF w
<1>7. SameCore(p, t)
  BY <1>6, SetState, SameCoreTrans, Zenon
<1> HIDE DEF t
<1>8. Good(t, U) /\ Live(t, U) /\ DOMAIN t.tasks = DOMAIN s.tasks /\ t.tasks[k] = r
  <2>1. Follows(p, t, U) /\ t.tasks = p.tasks
    BY <1>7, CoreKeeps, Zenon DEF SameCore
  <2> QED
    BY <1>5, <2>1, GoodLive, Zenon DEF Follows
<1>9. IsTask(q) /\ Key(q) = k /\ q.id = r.id /\ q.suspended
  <2>1. IsTask(q) /\ q.id = r.id /\ q.suspended /\ q.uid = r.uid /\ q.ability = r.ability /\ q.byReq = r.byReq
    BY <1>4, Zenon DEF IsTask, TaskFields
  <2> HIDE DEF q
  <2> QED
    BY <1>4, <2>1, Zenon DEF Key
<1> HIDE DEF q
<1>10. Live(c, U) /\ DOMAIN c.tasks = DOMAIN s.tasks
  BY <1>8, <1>9, SuspendKeeps, Zenon
<1>11. Live(e, U) /\ DOMAIN e.tasks = DOMAIN s.tasks \ {k}
  <2> DEFINE v == OnContinuousTaskChanged(t, r, "CANCEL")
  <2>1. SameCore(v, v) /\ v = OnContinuousTaskChanged(t, t.tasks[k], "CANCEL") /\ k \in DOMAIN t.tasks
    BY <1>8, LiveShape, SameCoreSelf, Zenon
  <2> HIDE DEF v
  <2>2. Live(Erase(v, k), U \cup {r.uid}) /\ DOMAIN Erase(v, k).tasks = DOMAIN s.tasks \ {k}
    <3>1. Live(Erase(v, k), U \cup {t.tasks[k].uid}) /\ DOMAIN Erase(v, k).tasks = DOMAIN t.tasks \ {k}
      BY <1>8, <2>1, CancelKeeps, Zenon
    <3> QED
      BY <1>8, <3>1, Zenon
  <2>3. U \cup {r.uid} = U
    BY <1>4, Zenon
  <2> QED
    BY <2>2, <2>3, Zenon DEF v
<1> HIDE DEF c, e
<1>12. Good(RefreshTaskRecord(c), U) /\ RefreshTaskRecord(c).tasks = c.tasks
  BY <1>10, RefreshKeeps, Zenon
<1>13. Good(RefreshTaskRecord(e), U) /\ RefreshTaskRecord(e).tasks = e.tasks
  BY <1>11, RefreshKeeps, Zenon
<1>14. Turned(s, t, U, k) /\ Turned(s, RefreshTaskRecord(c), U, k)
  BY <1>8, <1>10, <1>12, Zenon DEF Turned
<1>15. Turned(s, RefreshTaskRecord(e), U, k)
  BY <1>11, <1>13, Zenon DEF Turned
<1> QED
  BY <1>3, <1>14, <1>15, Zenon

-----------------------------------------------------------------------------
(* Induction, over sets: the numbers or the subsets for which a formula    *)
(* holds.                                                                  *)

\* A set with 0 and the successor of each of its numbers has every number.
LEMMA SetInduction ==
    ASSUME NEW S, 0 \in S, \A n \in Nat : n \in S => n + 1 \in S
    PROVE  Nat \subseteq S
<1> DEFINE T == Nat \ S
           R == OpToRel(<, Nat)
<1>1. SUFFICES ASSUME T # {} PROVE FALSE
  BY Zenon
<1>2. PICK x \in T : \A y \in T : <<y, x>> \notin R
  <2>1. IsWellFoundedOn(R, Nat) /\ T \subseteq Nat
    BY NatLessThanWellFounded, Zenon
  <2> HIDE DEF T, R
  <2> QED
    BY <1>1, <2>1, WFMin, Zenon
<1>3. \A y, z \in Nat : y < z => <<y, z>> \in R
  BY Zenon DEF OpToRel
<1> HIDE DEF R
<1>4. x \in Nat /\ x # 0 /\ x - 1 \in Nat /\ x - 1 < x
  BY <1>2
<1>5. x - 1 \in T
  BY <1>4, <1>2
<1> QED
  BY <1>2, <1>3, <1>4, <1>5, Zenon

\* A set of subsets of the finite set K with the empty one, and with each that has
\* an element without which it is in the set, has every subset of K.
LEMMA SubsetInduction ==
    ASSUME NEW K, IsFiniteSet(K), NEW G, {} \in G,
           \A D \in SUBSET K : D # {} => \E x \in D : D \ {x} \in G => D \in G
    PROVE  SUBSET K \subseteq G
<1> DEFINE T == {n \in Nat : \A D \in SUBSET K : Cardinality(D) = n => D \in G}
<1>1. \A D \in SUBSET K : IsFiniteSet(D) /\ Cardinality(D) \in Nat
  BY FS_Subset, FS_CardinalityType, Zenon
<1>2. 0 \in T
  <2>1. \A D \in SUBSET K : Cardinality(D) = 0 => D = {}
    BY <1>1, FS_EmptySet, Zenon
  <2> QED
    BY <2>1, Zenon
<1>3. \A n \in Nat : n \in T => n + 1 \in T
  <2>1. SUFFICES ASSUME NEW n \in T, NEW D \in SUBSET K, Cardinality(D) = n + 1
                 PROVE  D \in G
    OBVIOUS
  <2>2. D # {}
    <3>1. Cardinality({}) = 0 /\ n \in Nat
      BY FS_EmptySet, Zenon
    <3>2. n + 1 # 0
      BY <3>1
    <3> QED
      BY <2>1, <3>1, <3>2, Zenon
  <2>3. PICK x \in D : D \ {x} \in G => D \in G
    BY <2>2, Zenon
  <2>4. Cardinality(D \ {x}) = n
    <3>1. IsFiniteSet(D) /\ n \in Nat
      BY <1>1, Zenon
    <3>2. Cardinality(D \ {x}) = Cardinality(D) - 1
      BY <3>1, FS_RemoveElement, Zenon
    <3> QED
      BY <2>1, <3>1, <3>2
  <2> QED
    BY <2>1, <2>3, <2>4, Zenon
<1> HIDE DEF T
<1>4. Nat \subseteq T
  BY <1>2, <1>3, SetInduction, Zenon
<1> QED
  BY <1>1, <1>4, Zenon DEF T

\* A finite set of numbers that is not empty has a greatest one.
LEMMA MaxIn ==
    ASSUME NEW S, IsFiniteSet(S), S # {}, \A x \in S : x \in Int
    PROVE  Max(S) \in S /\ \A x \in S : Max(S) >= x
<1> DEFINE Top(D) == \E x \in D : \A y \in D : x >= y
           G == {D \in SUBSET S : D # {} => Top(D)}
<1>1. {} \in G
  BY Zenon
<1>2. \A D \in SUBSET S : D # {} => \E x \in D : D \ {x} \in G => D \in G
  <2>1. SUFFICES ASSUME NEW D \in SUBSET S, NEW z \in D, D \ {z} \in G
                 PROVE  Top(D)
    BY Zenon
  <2>2. CASE D \ {z} = {}
    <3>1. \A y \in D : y = z
      BY <2>2, Zenon
    <3>2. z >= z
      OBVIOUS
    <3> QED
      BY <3>1, <3>2, Zenon
  <2>3. CASE D \ {z} # {}
    <3>1. PICK x \in D \ {z} : \A y \in D \ {z} : x >= y
      BY <2>1, <2>3, Zenon
    <3>2. x \in Int /\ z \in Int
      BY Zenon
    <3>3. CASE x >= z
      <4>1. \A y \in D : x >= y
        BY <3>1, <3>3, Zenon
      <4> QED
        BY <4>1, Zenon
    <3>4. CASE z > x
      <4>1. ASSUME NEW y \in D PROVE z >= y
        <5>1. y \in Int /\ (y = z \/ x >= y)
          BY <3>1, Zenon
        <5> QED
          BY <3>2, <3>4, <5>1
      <4> QED
        BY <4>1, Zenon
    <3> QED
      BY <3>2, <3>3, <3>4
  <2> QED
    BY <2>2, <2>3, Zenon
<1> HIDE DEF G
<1>3. S \in G
  BY <1>1, <1>2, SubsetInduction, Zenon
<1>4. Top(S)
  BY <1>3, Zenon DEF G
<1> QED
  BY <1>4, Zenon DEF Max

-----------------------------------------------------------------------------
(* The loops.  A loop l is its name with its arguments; LoopTurn is one    *)
(* turn of it, on the state t and the key k.                               *)

LoopTurn(t, l, k) ==
    CASE l[1] = "RemoveRecord"      -> RemoveRecord(t, l[2], k)
      [] l[1] = "SuspendAudio"      -> SuspendAudio(t, l[2], k)
      [] l[1] = "EndRecord"         -> EndRecord(t, l[2], l[3], k)
      [] l[1] = "EndShown"          -> EndShown(t, l[2], l[3], k)
      [] l[1] = "RemoveInner"       -> RemoveInner(t, l[2], k)
      [] l[1] = "ActivateByStandby" -> ActivateByStandby(t, k)
      [] l[1] = "SetPlaying"        -> SetPlaying(t, k)
      [] l[1] = "SetSilent"         -> SetSilent(t, k)
      [] l[1] = "ShowDetected"      -> ShowDetected(t, l[2], k)
      [] l[1] = "HideNotification"  -> HideNotification(t, l[2], k)
      [] l[1] = "ShowNotification"  -> ShowNotification(t, l[2], k)
      [] l[1] = "DumpCancel"        -> DumpCancel(t, l[2], k)
      [] l[1] = "AppStop"           -> HandleAppContinuousTaskStop(t, k)
      [] l[1] = "ActivateOne"       -> ActivateOne(t, l[2], k)
      [] l[1] = "StopNext"          -> StopNext(t, l[2], k)
      [] l[1] = "CheckRecord"       -> CheckRecord(t, l[2], k)

(* The states that a loop goes through, one for each set of turns: the     *)
(* last turn of D is pick[D], with the key key[pick[D]].                   *)

Turn(it, s, l, pick, key, D) ==
    IF D = {} THEN s ELSE LoopTurn(it[D \ {pick[D]}], l, key[pick[D]])

Turns(it, s, l, pick, key, K) ==
    it = [D \in SUBSET K |-> Turn(it, s, l, pick, key, D)]

\* There are such states.
LEMMA TurnsExist ==
    ASSUME NEW K, IsFiniteSet(K), NEW pick, \A D \in SUBSET K : D # {} => pick[D] \in D,
           NEW key, NEW s, NEW l
    PROVE  \E it : Turns(it, s, l, pick, key, K)
<1> DEFINE Agrees(it, n) ==
               \A D \in SUBSET K : Cardinality(D) <= n => it[D] = Turn(it, s, l, pick, key, D)
           T == {n \in Nat : \E it : Agrees(it, n)}
<1>1. \A D \in SUBSET K : IsFiniteSet(D) /\ Cardinality(D) \in Nat
  BY FS_Subset, FS_CardinalityType, Zenon
<1>2. 0 \in T
  <2> DEFINE it == [D \in SUBSET K |-> s]
  <2>1. ASSUME NEW D \in SUBSET K, Cardinality(D) <= 0
        PROVE  it[D] = Turn(it, s, l, pick, key, D)
    <3>1. D = {}
      BY <1>1, <2>1, FS_EmptySet
    <3> QED
      BY <3>1, Zenon DEF Turn
  <2> HIDE DEF it
  <2> QED
    BY <2>1, Zenon
<1>3. ASSUME NEW n \in Nat, n \in T
      PROVE  n + 1 \in T
  <2>1. PICK it : Agrees(it, n)
    BY <1>3, Zenon
  <2> DEFINE jt == [D \in SUBSET K |-> Turn(it, s, l, pick, key, D)]
  <2>2. ASSUME NEW D \in SUBSET K, Cardinality(D) <= n
        PROVE  it[D] = jt[D]
    BY <2>1, <2>2, Zenon
  <2>3. ASSUME NEW D \in SUBSET K, Cardinality(D) <= n + 1
        PROVE  jt[D] = Turn(jt, s, l, pick, key, D)
    <3>1. CASE D = {}
      BY <3>1, Zenon DEF Turn
    <3>2. CASE D # {}
      <4>1. pick[D] \in D /\ D \ {pick[D]} \in SUBSET K
        BY <3>2, Zenon
      <4>2. Cardinality(D \ {pick[D]}) = Cardinality(D) - 1
        BY <1>1, <4>1, FS_RemoveElement, Zenon
      <4>3. Cardinality(D \ {pick[D]}) <= n
        <5>1. Cardinality(D) \in Nat
          BY <1>1, Zenon
        <5> QED
          BY <2>3, <4>2, <5>1
      <4>4. it[D \ {pick[D]}] = jt[D \ {pick[D]}]
        BY <2>2, <4>1, <4>3, Zenon
      <4>5. jt[D] = Turn(it, s, l, pick, key, D)
        BY Zenon
      <4> HIDE DEF jt
      <4> QED
        BY <3>2, <4>4, <4>5, Zenon DEF Turn
    <3> QED
      BY <3>1, <3>2, Zenon
  <2> HIDE DEF jt
  <2>4. Agrees(jt, n + 1)
    BY <2>3, Zenon
  <2>5. n + 1 \in Nat
    OBVIOUS
  <2> HIDE DEF Agrees
  <2> QED
    BY <2>4, <2>5, Zenon
<1> HIDE DEF T
<1>4. Nat \subseteq T
  <2>1. \A n \in Nat : n \in T => n + 1 \in T
    BY <1>3, Zenon
  <2> QED
    BY <1>2, <2>1, SetInduction, Zenon
<1>5. Cardinality(K) \in T
  BY <1>4, FS_CardinalityType, Zenon
<1>6. PICK it : Agrees(it, Cardinality(K))
  BY <1>5, Zenon DEF T
<1> DEFINE jt == [D \in SUBSET K |-> it[D]]
<1>7. ASSUME NEW D \in SUBSET K
      PROVE  jt[D] = Turn(jt, s, l, pick, key, D)
  <2>1. it[D] = Turn(it, s, l, pick, key, D)
    <3>1. Cardinality(D) <= Cardinality(K)
      BY FS_Subset, Zenon
    <3> QED
      BY <1>6, <3>1, Zenon
  <2>2. CASE D = {}
    BY <2>1, <2>2, Zenon DEF Turn
  <2>3. CASE D # {}
    <3>1. D \ {pick[D]} \in SUBSET K
      BY Zenon
    <3>2. jt[D \ {pick[D]}] = it[D \ {pick[D]}] /\ jt[D] = it[D]
      BY <3>1, Zenon
    <3> HIDE DEF jt
    <3> QED
      BY <2>1, <2>3, <3>2, Zenon DEF Turn
  <2> QED
    BY <2>2, <2>3, Zenon
<1>8. Turns(jt, s, l, pick, key, K)
  BY <1>7, Zenon DEF Turns
<1> HIDE DEF jt
<1> QED
  BY <1>8, Zenon

(* A loop over a set takes the keys in the order of the choices of FoldSet.*)

SetStep(it, s, l, D) ==
    IF D = {} THEN s ELSE LoopTurn(it[D \ {CHOOSE x \in D : TRUE}], l, CHOOSE x \in D : TRUE)

SetRun(it, s, l, K) == it = [D \in SUBSET K |-> SetStep(it, s, l, D)]

\* There are states that a loop over a set goes through.
LEMMA SetRunExists ==
    ASSUME NEW s, NEW l, NEW K, IsFiniteSet(K)
    PROVE  \E it : SetRun(it, s, l, K)
<1> DEFINE pick == [D \in SUBSET K |-> CHOOSE x \in D : TRUE]
           key == [x \in K |-> x]
<1>1. \A D \in SUBSET K : D # {} => pick[D] \in D /\ pick[D] = CHOOSE x \in D : TRUE
  <2>1. ASSUME NEW D \in SUBSET K, D # {}
        PROVE  (CHOOSE x \in D : TRUE) \in D
    <3>1. \E x \in D : TRUE
      BY <2>1, Zenon
    <3> QED
      BY <3>1, Zenon
  <2> QED
    BY <2>1, Zenon
<1>2. \A x \in K : key[x] = x
  BY Zenon
<1> HIDE DEF pick, key
<1>3. \A it : \A D \in SUBSET K : Turn(it, s, l, pick, key, D) = SetStep(it, s, l, D)
  <2>1. SUFFICES ASSUME NEW it, NEW D \in SUBSET K
                 PROVE  Turn(it, s, l, pick, key, D) = SetStep(it, s, l, D)
    BY Zenon
  <2>2. CASE D = {}
    BY <2>2, Zenon DEF Turn, SetStep
  <2>3. CASE D # {}
    <3>1. pick[D] = (CHOOSE x \in D : TRUE) /\ key[pick[D]] = CHOOSE x \in D : TRUE
      BY <1>1, <1>2, <2>3, Zenon
    <3> QED
      BY <2>3, <3>1, Zenon DEF Turn, SetStep
  <2> QED
    BY <2>2, <2>3, Zenon
<1>4. PICK it : Turns(it, s, l, pick, key, K)
  <2>1. \A D \in SUBSET K : D # {} => pick[D] \in D
    BY <1>1, Zenon
  <2> QED
    BY <2>1, TurnsExist, Zenon
<1>5. SetRun(it, s, l, K)
  BY <1>3, <1>4, Zenon DEF Turns, SetRun
<1> QED
  BY <1>5, Zenon

\* G, the sets of turns for which a formula holds, has that of no turn, and every
\* turn keeps it.
SetKept(it, s, l, K, G) ==
    /\ it[{}] = s => {} \in G
    /\ \A D \in SUBSET K : \A x \in K \ D :
           D \in G /\ it[D \cup {x}] = LoopTurn(it[D], l, x) => D \cup {x} \in G

\* What every turn of a loop over a set keeps holds of its result.
LEMMA SetRunRule ==
    ASSUME NEW s, NEW l, NEW K, IsFiniteSet(K), NEW it, SetRun(it, s, l, K),
           NEW G, SetKept(it, s, l, K, G)
    PROVE  K \in G
<1>1. {} \in G
  <2>1. it[{}] = SetStep(it, s, l, {})
    BY Zenon DEF SetRun
  <2> QED
    BY <2>1, Zenon DEF SetStep, SetKept
<1>2. \A D \in SUBSET K : D # {} => \E x \in D : D \ {x} \in G => D \in G
  <2>1. SUFFICES ASSUME NEW D \in SUBSET K, D # {},
                        (D \ {CHOOSE x \in D : TRUE}) \in G
                 PROVE  D \in G
    <3>1. ASSUME NEW D \in SUBSET K, D # {} PROVE (CHOOSE x \in D : TRUE) \in D
      <4>1. \E x \in D : TRUE
        BY <3>1, Zenon
      <4> QED
        BY <4>1, Zenon
    <3> QED
      BY <3>1, Zenon
  <2> DEFINE x == CHOOSE x \in D : TRUE
             E == D \ {x}
  <2>2. x \in D
    <3>1. \E y \in D : TRUE
      BY <2>1, Zenon
    <3> QED
      BY <3>1, Zenon
  <2>3. it[D] = LoopTurn(it[E], l, x)
    <3>1. it[D] = SetStep(it, s, l, D)
      BY Zenon DEF SetRun
    <3> QED
      BY <2>1, <3>1, Zenon DEF SetStep
  <2> HIDE DEF x
  <2>4. E \in SUBSET K /\ x \in K \ E /\ E \cup {x} = D
    BY <2>2, Zenon
  <2>5. E \in G
    BY <2>1, Zenon DEF x
  <2> HIDE DEF E
  <2> QED
    BY <2>3, <2>4, <2>5, Zenon DEF SetKept
<1> QED
  BY <1>1, <1>2, SubsetInduction, Zenon

(* A loop over a sequence.                                                 *)

SeqStep(it, s, l, order, D) ==
    IF D = {} THEN s ELSE LoopTurn(it[D \ {Max(D)}], l, order[Max(D)])

SeqRun(it, s, l, order) == it = [D \in SUBSET DOMAIN order |-> SeqStep(it, s, l, order, D)]

\* A set of numbers up to n that is not empty has a greatest one.
LEMMA MaxTo ==
    ASSUME NEW n \in Nat, NEW D \in SUBSET (1..n), D # {}
    PROVE  Max(D) \in D /\ \A x \in D : Max(D) >= x
<1>1. IsFiniteSet(1..n)
  BY FS_Interval
<1>2. IsFiniteSet(D)
  BY <1>1, FS_Subset, Zenon
<1>3. \A x \in D : x \in Int
  OBVIOUS
<1> QED
  BY <1>2, <1>3, MaxIn, Zenon

\* There are states that a loop over a sequence goes through.
LEMMA SeqRunExists ==
    ASSUME NEW s, NEW l, NEW n \in Nat, NEW order, DOMAIN order = 1..n
    PROVE  \E it : SeqRun(it, s, l, order)
<1> DEFINE pick == [D \in SUBSET (1..n) |-> Max(D)]
<1>1. \A D \in SUBSET (1..n) : pick[D] = Max(D)
  BY Zenon
<1> HIDE DEF pick
<1>2. \A it : \A D \in SUBSET (1..n) : Turn(it, s, l, pick, order, D) = SeqStep(it, s, l, order, D)
  BY <1>1, Zenon DEF Turn, SeqStep
<1>3. PICK it : Turns(it, s, l, pick, order, 1..n)
  <2>1. \A D \in SUBSET (1..n) : D # {} => pick[D] \in D
    BY <1>1, MaxTo, Zenon
  <2>2. IsFiniteSet(1..n)
    BY FS_Interval
  <2> QED
    BY <2>1, <2>2, TurnsExist, Zenon
<1>4. SeqRun(it, s, l, order)
  BY <1>2, <1>3, Zenon DEF Turns, SeqRun
<1> QED
  BY <1>4, Zenon

\* T, the numbers of turns for which a formula holds, has 0, and every turn keeps it.
SeqKept(it, s, l, order, n, T) ==
    /\ it[1..0] = s => 0 \in T
    /\ \A i \in 1..n : i - 1 \in T /\ it[1..i] = LoopTurn(it[1..(i - 1)], l, order[i]) => i \in T

\* What every turn of a loop over a sequence keeps holds of its result.
LEMMA SeqRunRule ==
    ASSUME NEW s, NEW l, NEW n \in Nat, NEW order, DOMAIN order = 1..n,
           NEW it, SeqRun(it, s, l, order), NEW T, SeqKept(it, s, l, order, n, T)
    PROVE  n \in T
<1>1. 0 \in T
  <2>1. 1..0 = {} /\ {} \in SUBSET (1..n)
    OBVIOUS
  <2>2. it[{}] = SeqStep(it, s, l, order, {})
    BY <2>1, Zenon DEF SeqRun
  <2> QED
    BY <2>1, <2>2, Zenon DEF SeqStep, SeqKept
<1> DEFINE S == {i \in Nat : i <= n => i \in T}
<1>2. ASSUME NEW i \in Nat, i \in S
      PROVE  i + 1 \in S
  <2>1. SUFFICES ASSUME i + 1 <= n
                 PROVE  i + 1 \in T
    OBVIOUS
  <2> DEFINE D == 1..(i + 1)
  <2>2. D \in SUBSET (1..n) /\ D # {} /\ i + 1 \in D /\ \A x \in D : x <= i + 1 /\ x \in Int
    BY <2>1, SMTT(30)
  <2>3. Max(D) = i + 1
    <3>1. Max(D) \in D /\ \A x \in D : Max(D) >= x
      BY <2>2, MaxTo, Zenon
    <3>2. Max(D) \in Int /\ Max(D) <= i + 1 /\ Max(D) >= i + 1
      <4> HIDE DEF D
      <4> QED
        BY <2>2, <3>1, Zenon
    <3> QED
      BY <3>2
  <2>4. D \ {i + 1} = 1..i
    OBVIOUS
  <2>5. it[D] = LoopTurn(it[1..i], l, order[i + 1])
    <3> HIDE DEF D
    <3>1. it[D] = SeqStep(it, s, l, order, D)
      BY <2>2, Zenon DEF SeqRun
    <3>2. it[D] = LoopTurn(it[D \ {Max(D)}], l, order[Max(D)])
      BY <2>2, <3>1, Zenon DEF SeqStep
    <3> QED
      BY <2>3, <2>4, <3>2, Zenon
  <2>6. i \in T /\ (i + 1) - 1 = i /\ i + 1 \in 1..n
    BY <1>2, <2>1
  <2> QED
    BY <2>5, <2>6, Zenon DEF SeqKept
<1> HIDE DEF S
<1>3. 0 \in S
  BY <1>1, Zenon DEF S
<1>4. Nat \subseteq S
  <2>1. \A i \in Nat : i \in S => i + 1 \in S
    BY <1>2, Zenon
  <2> QED
    BY <1>3, <2>1, SetInduction, Zenon
<1> QED
  BY <1>4 DEF S

-----------------------------------------------------------------------------
(* The loops over the tasks: K are the keys to visit, U the uids that may  *)
(* be left for busy.                                                       *)

Pending(t, D, K, U) == Good(t, U) /\ K \ D \subseteq DOMAIN t.tasks

\* The tasks that are looked for are finitely many.
LEMMA FewTasks ==
    ASSUME NEW s, NEW U, Good(s, U), NEW K, K \subseteq DOMAIN s.tasks
    PROVE  IsFiniteSet(K)
<1>1. IsFiniteSet(DOMAIN s.tasks)
  BY Zenon DEF Good, Live, Well, IsMap
<1> QED
  BY <1>1, FS_Subset, Zenon

\* A loop each turn of which keeps what holds between operations keeps it.
LEMMA PendingRule ==
    ASSUME NEW s, NEW U, Good(s, U), NEW K, K \subseteq DOMAIN s.tasks, NEW l,
           \A t : \A k \in K : Good(t, U) /\ k \in DOMAIN t.tasks => Turned(t, LoopTurn(t, l, k), U, k),
           NEW it, SetRun(it, s, l, K)
    PROVE  Good(it[K], U)
<1> DEFINE G == {D \in SUBSET K : Pending(it[D], D, K, U)}
<1>1. it[{}] = s => {} \in G
  <2>1. Pending(s, {}, K, U)
    BY Zenon DEF Pending
  <2> QED
    BY <2>1, Zenon
<1>2. ASSUME NEW D \in SUBSET K, NEW x \in K \ D, D \in G, it[D \cup {x}] = LoopTurn(it[D], l, x)
      PROVE  D \cup {x} \in G
  <2>1. Good(it[D], U) /\ K \ D \subseteq DOMAIN it[D].tasks
    BY <1>2, Zenon DEF Pending
  <2>2. x \in DOMAIN it[D].tasks
    BY <2>1, Zenon
  <2>3. Turned(it[D], it[D \cup {x}], U, x)
    BY <1>2, <2>1, <2>2, Zenon
  <2>4. Good(it[D \cup {x}], U) /\ DOMAIN it[D].tasks \ {x} \subseteq DOMAIN it[D \cup {x}].tasks
    BY <2>3, Zenon DEF Turned
  <2>5. K \ (D \cup {x}) \subseteq DOMAIN it[D \cup {x}].tasks
    BY <2>1, <2>4, Zenon
  <2>6. Pending(it[D \cup {x}], D \cup {x}, K, U)
    BY <2>4, <2>5, Zenon DEF Pending
  <2>7. D \cup {x} \in SUBSET K
    BY Zenon
  <2> QED
    BY <2>6, <2>7, Zenon
<1> HIDE DEF G
<1>3. K \in G
  <2>1. IsFiniteSet(K)
    BY FewTasks, Zenon
  <2>2. \A D \in SUBSET K : \A x \in K \ D :
           D \in G /\ it[D \cup {x}] = LoopTurn(it[D], l, x) => D \cup {x} \in G
    BY <1>2, Zenon
  <2>3. SetKept(it, s, l, K, G)
    BY <1>1, <2>2, Zenon DEF SetKept
  <2> QED
    BY <2>1, <2>3, SetRunRule, Zenon
<1> QED
  BY <1>3, Zenon DEF G, Pending

\* The loops of the scheduler that remove tasks.
LEMMA RemoveRecordsKeeps ==
    ASSUME NEW s, NEW U, Good(s, U), NEW K, K \subseteq DOMAIN s.tasks,
           \A k \in K : k[1] \in U, NEW bad
    PROVE  Good(RemoveRecords(s, bad, K), U)
<1> DEFINE l == <<"RemoveRecord", bad>>
           Step(it, D) == IF D = {} THEN s ELSE RemoveRecord(it[D \ {CHOOSE x \in D : TRUE}], bad, CHOOSE x \in D : TRUE)
           run == CHOOSE it : it = [D \in SUBSET K |-> Step(it, D)]
<1>1. \A t, k : LoopTurn(t, l, k) = RemoveRecord(t, bad, k)
  BY Zenon DEF LoopTurn
<1>2. RemoveRecords(s, bad, K) = run[K]
  BY Zenon DEF RemoveRecords, ForEach, FoldSet, MapThenFoldSet
<1> HIDE DEF l
<1>3. \A it, D : SetStep(it, s, l, D) = Step(it, D)
  BY <1>1, Zenon DEF SetStep
<1> HIDE DEF Step
<1>4. \A it : SetRun(it, s, l, K) <=> it = [D \in SUBSET K |-> Step(it, D)]
  BY <1>3, Zenon DEF SetRun
<1>5. SetRun(run, s, l, K)
  <2>1. \E it : SetRun(it, s, l, K)
    BY FewTasks, SetRunExists, Zenon
  <2> QED
    BY <1>4, <2>1, Zenon
<1> HIDE DEF run
<1>6. \A t : \A k \in K : Good(t, U) /\ k \in DOMAIN t.tasks => Turned(t, LoopTurn(t, l, k), U, k)
  BY <1>1, RemoveRecordTurn, Zenon
<1> QED
  BY <1>2, <1>5, <1>6, PendingRule, Zenon

SuspendAudioAll(s, bad, K) == ForEach(s, K, LAMBDA t, k : SuspendAudio(t, bad, k))

\* The loop over the tasks with audio.
LEMMA SuspendAudioKeeps ==
    ASSUME NEW s, NEW U, Good(s, U), NEW K, K \subseteq DOMAIN s.tasks,
           \A k \in K : k[1] \in U, NEW bad
    PROVE  Good(SuspendAudioAll(s, bad, K), U)
<1> DEFINE l == <<"SuspendAudio", bad>>
           Step(it, D) == IF D = {} THEN s ELSE SuspendAudio(it[D \ {CHOOSE x \in D : TRUE}], bad, CHOOSE x \in D : TRUE)
           run == CHOOSE it : it = [D \in SUBSET K |-> Step(it, D)]
<1>1. \A t, k : LoopTurn(t, l, k) = SuspendAudio(t, bad, k)
  BY Zenon DEF LoopTurn
<1>2. SuspendAudioAll(s, bad, K) = run[K]
  BY ZenonT(30) DEF SuspendAudioAll, ForEach, FoldSet, MapThenFoldSet
<1> HIDE DEF l
<1>3. \A it, D : SetStep(it, s, l, D) = Step(it, D)
  BY <1>1, Zenon DEF SetStep
<1> HIDE DEF Step
<1>4. \A it : SetRun(it, s, l, K) <=> it = [D \in SUBSET K |-> Step(it, D)]
  BY <1>3, Zenon DEF SetRun
<1>5. SetRun(run, s, l, K)
  <2>1. \E it : SetRun(it, s, l, K)
    BY FewTasks, SetRunExists, Zenon
  <2> QED
    BY <1>4, <2>1, Zenon
<1> HIDE DEF run
<1>6. \A t : \A k \in K : Good(t, U) /\ k \in DOMAIN t.tasks => Turned(t, LoopTurn(t, l, k), U, k)
  BY <1>1, SuspendAudioTurn, Zenon
<1> QED
  BY <1>2, <1>5, <1>6, PendingRule, Zenon

\* The loops over the tasks of an application or account that is gone.
LEMMA EndRecordsKeeps ==
    ASSUME NEW s, NEW U, Good(s, U), NEW K, K \subseteq DOMAIN s.tasks, NEW bad, NEW kinds
    PROVE  Good(EndRecords(s, bad, K, kinds), U)
<1> DEFINE l == <<"EndRecord", bad, kinds>>
           Step(it, D) == IF D = {} THEN s ELSE EndRecord(it[D \ {CHOOSE x \in D : TRUE}], bad, kinds, CHOOSE x \in D : TRUE)
           run == CHOOSE it : it = [D \in SUBSET K |-> Step(it, D)]
<1>1. \A t, k : LoopTurn(t, l, k) = EndRecord(t, bad, kinds, k)
  BY Zenon DEF LoopTurn
<1>2. EndRecords(s, bad, K, kinds) = run[K]
  BY Zenon DEF EndRecords, ForEach, FoldSet, MapThenFoldSet
<1> HIDE DEF l
<1>3. \A it, D : SetStep(it, s, l, D) = Step(it, D)
  BY <1>1, Zenon DEF SetStep
<1> HIDE DEF Step
<1>4. \A it : SetRun(it, s, l, K) <=> it = [D \in SUBSET K |-> Step(it, D)]
  BY <1>3, Zenon DEF SetRun
<1>5. SetRun(run, s, l, K)
  <2>1. \E it : SetRun(it, s, l, K)
    BY FewTasks, SetRunExists, Zenon
  <2> QED
    BY <1>4, <2>1, Zenon
<1> HIDE DEF run
<1>6. \A t : \A k \in K : Good(t, U) /\ k \in DOMAIN t.tasks => Turned(t, LoopTurn(t, l, k), U, k)
  BY <1>1, EndRecordTurn, Zenon
<1> QED
  BY <1>2, <1>5, <1>6, PendingRule, Zenon

EndShownAll(s, bad, isSub, K) == ForEach(s, K, LAMBDA t, j : EndShown(t, bad, isSub, j))

\* The loop over the tasks whose notification the user removed.
LEMMA EndShownKeeps ==
    ASSUME NEW s, NEW U, Good(s, U), NEW K, K \subseteq DOMAIN s.tasks, NEW bad, NEW isSub
    PROVE  Good(EndShownAll(s, bad, isSub, K), U)
<1> DEFINE l == <<"EndShown", bad, isSub>>
           Step(it, D) == IF D = {} THEN s ELSE EndShown(it[D \ {CHOOSE x \in D : TRUE}], bad, isSub, CHOOSE x \in D : TRUE)
           run == CHOOSE it : it = [D \in SUBSET K |-> Step(it, D)]
<1>1. \A t, k : LoopTurn(t, l, k) = EndShown(t, bad, isSub, k)
  BY ZenonT(30) DEF LoopTurn
<1>2. EndShownAll(s, bad, isSub, K) = run[K]
  BY Zenon DEF EndShownAll, ForEach, FoldSet, MapThenFoldSet
<1> HIDE DEF l
<1>3. \A it, D : SetStep(it, s, l, D) = Step(it, D)
  BY <1>1, Zenon DEF SetStep
<1> HIDE DEF Step
<1>4. \A it : SetRun(it, s, l, K) <=> it = [D \in SUBSET K |-> Step(it, D)]
  BY <1>3, Zenon DEF SetRun
<1>5. SetRun(run, s, l, K)
  <2>1. \E it : SetRun(it, s, l, K)
    BY FewTasks, SetRunExists, Zenon
  <2> QED
    BY <1>4, <2>1, Zenon
<1> HIDE DEF run
<1>6. \A t : \A k \in K : Good(t, U) /\ k \in DOMAIN t.tasks => Turned(t, LoopTurn(t, l, k), U, k)
  BY <1>1, EndShownTurn, Zenon
<1> QED
  BY <1>2, <1>5, <1>6, PendingRule, Zenon

RemoveInnerAll(s, bad, K) == ForEach(s, K, LAMBDA t, k : RemoveInner(t, bad, k))

\* The loop over the tasks of a system ability that is gone.
LEMMA RemoveInnerKeeps ==
    ASSUME NEW s, NEW U, Good(s, U), NEW K, K \subseteq DOMAIN s.tasks, NEW bad
    PROVE  Good(RemoveInnerAll(s, bad, K), U)
<1> DEFINE l == <<"RemoveInner", bad>>
           Step(it, D) == IF D = {} THEN s ELSE RemoveInner(it[D \ {CHOOSE x \in D : TRUE}], bad, CHOOSE x \in D : TRUE)
           run == CHOOSE it : it = [D \in SUBSET K |-> Step(it, D)]
<1>1. \A t, k : LoopTurn(t, l, k) = RemoveInner(t, bad, k)
  BY Zenon DEF LoopTurn
<1>2. RemoveInnerAll(s, bad, K) = run[K]
  BY Zenon DEF RemoveInnerAll, ForEach, FoldSet, MapThenFoldSet
<1> HIDE DEF l
<1>3. \A it, D : SetStep(it, s, l, D) = Step(it, D)
  BY <1>1, Zenon DEF SetStep
<1> HIDE DEF Step
<1>4. \A it : SetRun(it, s, l, K) <=> it = [D \in SUBSET K |-> Step(it, D)]
  BY <1>3, Zenon DEF SetRun
<1>5. SetRun(run, s, l, K)
  <2>1. \E it : SetRun(it, s, l, K)
    BY FewTasks, SetRunExists, Zenon
  <2> QED
    BY <1>4, <2>1, Zenon
<1> HIDE DEF run
<1>6. \A t : \A k \in K : Good(t, U) /\ k \in DOMAIN t.tasks => Turned(t, LoopTurn(t, l, k), U, k)
  BY <1>1, RemoveInnerTurn, Zenon
<1> QED
  BY <1>2, <1>5, <1>6, PendingRule, Zenon

ActivateByStandbyAll(s, K) == ForEach(s, K, ActivateByStandby)

\* The loop over the tasks that the standby service suspended.
LEMMA ActivateByStandbyKeeps ==
    ASSUME NEW s, NEW U, Good(s, U), NEW K, K \subseteq DOMAIN s.tasks
    PROVE  Good(ActivateByStandbyAll(s, K), U)
<1> DEFINE l == <<"ActivateByStandby">>
           Step(it, D) == IF D = {} THEN s ELSE ActivateByStandby(it[D \ {CHOOSE x \in D : TRUE}], CHOOSE x \in D : TRUE)
           run == CHOOSE it : it = [D \in SUBSET K |-> Step(it, D)]
<1>1. \A t, k : LoopTurn(t, l, k) = ActivateByStandby(t, k)
  BY Zenon DEF LoopTurn
<1>2. ActivateByStandbyAll(s, K) = run[K]
  BY Zenon DEF ActivateByStandbyAll, ForEach, FoldSet, MapThenFoldSet
<1> HIDE DEF l
<1>3. \A it, D : SetStep(it, s, l, D) = Step(it, D)
  BY <1>1, Zenon DEF SetStep
<1> HIDE DEF Step
<1>4. \A it : SetRun(it, s, l, K) <=> it = [D \in SUBSET K |-> Step(it, D)]
  BY <1>3, Zenon DEF SetRun
<1>5. SetRun(run, s, l, K)
  <2>1. \E it : SetRun(it, s, l, K)
    BY FewTasks, SetRunExists, Zenon
  <2> QED
    BY <1>4, <2>1, Zenon
<1> HIDE DEF run
<1>6. \A t : \A k \in K : Good(t, U) /\ k \in DOMAIN t.tasks => Turned(t, LoopTurn(t, l, k), U, k)
  BY <1>1, ActivateByStandbyTurn, Zenon
<1> QED
  BY <1>2, <1>5, <1>6, PendingRule, Zenon

SetPlayingAll(s, K) == ForEach(s, K, SetPlaying)

\* The loop over the tasks whose playback begins.
LEMMA SetPlayingKeeps ==
    ASSUME NEW s, NEW U, Good(s, U), NEW K, K \subseteq DOMAIN s.tasks
    PROVE  Good(SetPlayingAll(s, K), U)
<1> DEFINE l == <<"SetPlaying">>
           Step(it, D) == IF D = {} THEN s ELSE SetPlaying(it[D \ {CHOOSE x \in D : TRUE}], CHOOSE x \in D : TRUE)
           run == CHOOSE it : it = [D \in SUBSET K |-> Step(it, D)]
<1>1. \A t, k : LoopTurn(t, l, k) = SetPlaying(t, k)
  BY ZenonT(30) DEF LoopTurn
<1>2. SetPlayingAll(s, K) = run[K]
  BY Zenon DEF SetPlayingAll, ForEach, FoldSet, MapThenFoldSet
<1> HIDE DEF l
<1>3. \A it, D : SetStep(it, s, l, D) = Step(it, D)
  BY <1>1, Zenon DEF SetStep
<1> HIDE DEF Step
<1>4. \A it : SetRun(it, s, l, K) <=> it = [D \in SUBSET K |-> Step(it, D)]
  BY <1>3, Zenon DEF SetRun
<1>5. SetRun(run, s, l, K)
  <2>1. \E it : SetRun(it, s, l, K)
    BY FewTasks, SetRunExists, Zenon
  <2> QED
    BY <1>4, <2>1, Zenon
<1> HIDE DEF run
<1>6. \A t : \A k \in K : Good(t, U) /\ k \in DOMAIN t.tasks => Turned(t, LoopTurn(t, l, k), U, k)
  BY <1>1, SetPlayingTurn, Zenon
<1> QED
  BY <1>2, <1>5, <1>6, PendingRule, Zenon

SetSilentAll(s, K) == ForEach(s, K, SetSilent)

\* The loop over the tasks whose text is made again.
LEMMA SetSilentKeeps ==
    ASSUME NEW s, NEW U, Good(s, U), NEW K, K \subseteq DOMAIN s.tasks
    PROVE  Good(SetSilentAll(s, K), U)
<1> DEFINE l == <<"SetSilent">>
           Step(it, D) == IF D = {} THEN s ELSE SetSilent(it[D \ {CHOOSE x \in D : TRUE}], CHOOSE x \in D : TRUE)
           run == CHOOSE it : it = [D \in SUBSET K |-> Step(it, D)]
<1>1. \A t, k : LoopTurn(t, l, k) = SetSilent(t, k)
  BY ZenonT(30) DEF LoopTurn
<1>2. SetSilentAll(s, K) = run[K]
  BY Zenon DEF SetSilentAll, ForEach, FoldSet, MapThenFoldSet
<1> HIDE DEF l
<1>3. \A it, D : SetStep(it, s, l, D) = Step(it, D)
  BY <1>1, Zenon DEF SetStep
<1> HIDE DEF Step
<1>4. \A it : SetRun(it, s, l, K) <=> it = [D \in SUBSET K |-> Step(it, D)]
  BY <1>3, Zenon DEF SetRun
<1>5. SetRun(run, s, l, K)
  <2>1. \E it : SetRun(it, s, l, K)
    BY FewTasks, SetRunExists, Zenon
  <2> QED
    BY <1>4, <2>1, Zenon
<1> HIDE DEF run
<1>6. \A t : \A k \in K : Good(t, U) /\ k \in DOMAIN t.tasks => Turned(t, LoopTurn(t, l, k), U, k)
  BY <1>1, SetPlayingTurn, Zenon
<1> QED
  BY <1>2, <1>5, <1>6, PendingRule, Zenon

ShowDetectedAll(s, bad, K) == ForEach(s, K, LAMBDA t, k : ShowDetected(t, bad, k))

\* The loop over the tasks that the detection names.
LEMMA ShowDetectedKeeps ==
    ASSUME NEW s, NEW U, Good(s, U), NEW K, K \subseteq DOMAIN s.tasks, NEW bad
    PROVE  Good(ShowDetectedAll(s, bad, K), U)
<1> DEFINE l == <<"ShowDetected", bad>>
           Step(it, D) == IF D = {} THEN s ELSE ShowDetected(it[D \ {CHOOSE x \in D : TRUE}], bad, CHOOSE x \in D : TRUE)
           run == CHOOSE it : it = [D \in SUBSET K |-> Step(it, D)]
<1>1. \A t, k : LoopTurn(t, l, k) = ShowDetected(t, bad, k)
  BY ZenonT(30) DEF LoopTurn
<1>2. ShowDetectedAll(s, bad, K) = run[K]
  BY Zenon DEF ShowDetectedAll, ForEach, FoldSet, MapThenFoldSet
<1> HIDE DEF l
<1>3. \A it, D : SetStep(it, s, l, D) = Step(it, D)
  BY <1>1, Zenon DEF SetStep
<1> HIDE DEF Step
<1>4. \A it : SetRun(it, s, l, K) <=> it = [D \in SUBSET K |-> Step(it, D)]
  BY <1>3, Zenon DEF SetRun
<1>5. SetRun(run, s, l, K)
  <2>1. \E it : SetRun(it, s, l, K)
    BY FewTasks, SetRunExists, Zenon
  <2> QED
    BY <1>4, <2>1, Zenon
<1> HIDE DEF run
<1>6. \A t : \A k \in K : Good(t, U) /\ k \in DOMAIN t.tasks => Turned(t, LoopTurn(t, l, k), U, k)
  BY <1>1, ShowDetectedTurn, Zenon
<1> QED
  BY <1>2, <1>5, <1>6, PendingRule, Zenon

HideNotificationAll(s, bad, K) == ForEach(s, K, LAMBDA t, k : HideNotification(t, bad, k))

\* The loop over the tasks that a live view replaces.
LEMMA HideNotificationKeeps ==
    ASSUME NEW s, NEW U, Good(s, U), NEW K, K \subseteq DOMAIN s.tasks, NEW bad
    PROVE  Good(HideNotificationAll(s, bad, K), U)
<1> DEFINE l == <<"HideNotification", bad>>
           Step(it, D) == IF D = {} THEN s ELSE HideNotification(it[D \ {CHOOSE x \in D : TRUE}], bad, CHOOSE x \in D : TRUE)
           run == CHOOSE it : it = [D \in SUBSET K |-> Step(it, D)]
<1>1. \A t, k : LoopTurn(t, l, k) = HideNotification(t, bad, k)
  BY ZenonT(30) DEF LoopTurn
<1>2. HideNotificationAll(s, bad, K) = run[K]
  BY Zenon DEF HideNotificationAll, ForEach, FoldSet, MapThenFoldSet
<1> HIDE DEF l
<1>3. \A it, D : SetStep(it, s, l, D) = Step(it, D)
  BY <1>1, Zenon DEF SetStep
<1> HIDE DEF Step
<1>4. \A it : SetRun(it, s, l, K) <=> it = [D \in SUBSET K |-> Step(it, D)]
  BY <1>3, Zenon DEF SetRun
<1>5. SetRun(run, s, l, K)
  <2>1. \E it : SetRun(it, s, l, K)
    BY FewTasks, SetRunExists, Zenon
  <2> QED
    BY <1>4, <2>1, Zenon
<1> HIDE DEF run
<1>6. \A t : \A k \in K : Good(t, U) /\ k \in DOMAIN t.tasks => Turned(t, LoopTurn(t, l, k), U, k)
  BY <1>1, HideNotificationTurn, Zenon
<1> QED
  BY <1>2, <1>5, <1>6, PendingRule, Zenon

ShowNotificationAll(s, bad, K) == ForEach(s, K, LAMBDA t, k : ShowNotification(t, bad, k))

\* The loop over the tasks that are shown when a live view ends.
LEMMA ShowNotificationKeeps ==
    ASSUME NEW s, NEW U, Good(s, U), NEW K, K \subseteq DOMAIN s.tasks, NEW bad
    PROVE  Good(ShowNotificationAll(s, bad, K), U)
<1> DEFINE l == <<"ShowNotification", bad>>
           Step(it, D) == IF D = {} THEN s ELSE ShowNotification(it[D \ {CHOOSE x \in D : TRUE}], bad, CHOOSE x \in D : TRUE)
           run == CHOOSE it : it = [D \in SUBSET K |-> Step(it, D)]
<1>1. \A t, k : LoopTurn(t, l, k) = ShowNotification(t, bad, k)
  BY Zenon DEF LoopTurn
<1>2. ShowNotificationAll(s, bad, K) = run[K]
  BY Zenon DEF ShowNotificationAll, ForEach, FoldSet, MapThenFoldSet
<1> HIDE DEF l
<1>3. \A it, D : SetStep(it, s, l, D) = Step(it, D)
  BY <1>1, Zenon DEF SetStep
<1> HIDE DEF Step
<1>4. \A it : SetRun(it, s, l, K) <=> it = [D \in SUBSET K |-> Step(it, D)]
  BY <1>3, Zenon DEF SetRun
<1>5. SetRun(run, s, l, K)
  <2>1. \E it : SetRun(it, s, l, K)
    BY FewTasks, SetRunExists, Zenon
  <2> QED
    BY <1>4, <2>1, Zenon
<1> HIDE DEF run
<1>6. \A t : \A k \in K : Good(t, U) /\ k \in DOMAIN t.tasks => Turned(t, LoopTurn(t, l, k), U, k)
  BY <1>1, ShowNotificationTurn, Zenon
<1> QED
  BY <1>2, <1>5, <1>6, PendingRule, Zenon

-----------------------------------------------------------------------------
(* The command that cancels every task: the tasks of D have been cancelled,*)
(* then the map is cleared, then the end of every application's tasks is   *)
(* told.                                                                   *)

Dumped(s, t, D) == SameTasks(s, t) /\ t.busy = s.busy /\ (s.sa => t.heard = s.heard \ D)

Cancelled(s, bad, K) == ForEach(s, K, LAMBDA u, k : DumpCancel(u, bad, k))

\* One task is cancelled.
LEMMA DumpCancelTurn ==
    ASSUME NEW s, NEW U, Good(s, U), NEW D, NEW k \in DOMAIN s.tasks, NEW t, Dumped(s, t, D), NEW bad
    PROVE  Dumped(s, DumpCancel(t, bad, k), D \cup {k})
<1> DEFINE r == t.tasks[k]
           w == Withdraw(t, bad, r.label, r.nid)
           u == NotifySubscribersTaskCancel(w, r)
<1>1. SameTasks(s, t) /\ IsState(t) /\ t.tasks = s.tasks
  BY Zenon DEF Dumped, SameTasks
<1>2. Key(r) = k
  BY <1>1, GoodLive, LiveShape, Zenon
<1>3. SameCore(t, w)
  BY <1>1, WithdrawCore, Zenon
<1>4. DumpCancel(t, bad, k) = u
  BY Changed, Zenon DEF DumpCancel
<1>5. SameTasks(w, u) /\ u.busy = w.busy /\ (w.sa => u.heard = w.heard \ {Key(r)})
  BY <1>3, CoreIsState, NotifyCancel, Zenon
<1> HIDE DEF r, w, u
<1>6. SameTasks(s, u) /\ u.busy = s.busy /\ (s.sa => u.heard = s.heard \ (D \cup {k}))
  BY <1>2, <1>3, <1>5, Zenon DEF Dumped, SameTasks, SameCore
<1> QED
  BY <1>4, <1>6, Zenon DEF Dumped

\* Every task is cancelled.
LEMMA DumpCancelsKeep ==
    ASSUME NEW s, NEW U, Good(s, U), NEW bad
    PROVE  Dumped(s, Cancelled(s, bad, DOMAIN s.tasks), DOMAIN s.tasks)
<1> DEFINE K == DOMAIN s.tasks
<1>0. IsFiniteSet(K)
  BY FewTasks, Zenon
<1> HIDE DEF K
<1> DEFINE l == <<"DumpCancel", bad>>
           Step(it, D) == IF D = {} THEN s ELSE DumpCancel(it[D \ {CHOOSE x \in D : TRUE}], bad, CHOOSE x \in D : TRUE)
           run == CHOOSE it : it = [D \in SUBSET K |-> Step(it, D)]
<1>1. \A t, k : LoopTurn(t, l, k) = DumpCancel(t, bad, k)
  BY Zenon DEF LoopTurn
<1>2. Cancelled(s, bad, K) = run[K]
  BY Zenon DEF Cancelled, ForEach, FoldSet, MapThenFoldSet
<1> HIDE DEF l
<1>3. \A it, D : SetStep(it, s, l, D) = Step(it, D)
  BY <1>1, Zenon DEF SetStep
<1> HIDE DEF Step
<1>4. \A it : SetRun(it, s, l, K) <=> it = [D \in SUBSET K |-> Step(it, D)]
  BY <1>3, Zenon DEF SetRun
<1>5. SetRun(run, s, l, K)
  <2>1. \E it : SetRun(it, s, l, K)
    BY <1>0, SetRunExists, Zenon
  <2> QED
    BY <1>4, <2>1, Zenon
<1> HIDE DEF run
<1> DEFINE G == {D \in SUBSET K : Dumped(s, run[D], D)}
<1>6. run[{}] = s => {} \in G
  <2>1. IsState(s)
    BY GoodLive, LiveShape, Zenon
  <2>2. Dumped(s, s, {})
    BY <2>1, Zenon DEF Dumped, SameTasks
  <2> QED
    BY <2>2, Zenon
<1>7. ASSUME NEW D \in SUBSET K, NEW x \in K \ D, D \in G, run[D \cup {x}] = LoopTurn(run[D], l, x)
      PROVE  D \cup {x} \in G
  <2>1. Dumped(s, run[D \cup {x}], D \cup {x})
    <3>1. Dumped(s, run[D], D)
      BY <1>7, Zenon
    <3>2. x \in DOMAIN s.tasks
      BY Zenon DEF K
    <3>3. Dumped(s, DumpCancel(run[D], bad, x), D \cup {x})
      BY <3>1, <3>2, DumpCancelTurn, Zenon
    <3> QED
      BY <1>1, <1>7, <3>3, Zenon
  <2>2. D \cup {x} \in SUBSET K
    BY Zenon
  <2> QED
    BY <2>1, <2>2, Zenon
<1> HIDE DEF G
<1>8. SetKept(run, s, l, K, G)
  BY <1>6, <1>7, Zenon DEF SetKept
<1>9. K \in G
  BY <1>0, <1>5, <1>8, SetRunRule, Zenon
<1> QED
  BY <1>2, <1>9, Zenon DEF G, K

\* The map is cleared and written.
LEMMA ClearKeeps ==
    ASSUME NEW s, Good(s, {}), NEW t, Dumped(s, t, DOMAIN s.tasks)
    PROVE  Good(RefreshTaskRecord([t EXCEPT !.tasks = Restrict(@, {})]), Owners(s.tasks))
<1> DEFINE f == Restrict(t.tasks, {})
           c == [t EXCEPT !.tasks = f]
<1>1. SameRest(t, c) /\ c.tasks = f
  BY SetTasks, Zenon DEF Dumped, SameTasks
<1>2. DOMAIN f = {} /\ IsMap(f)
  <2>1. f = [k \in {} |-> f[k]] /\ DOMAIN f = {}
    BY Zenon DEF Restrict
  <2> HIDE DEF f
  <2>2. IsFiniteSet({})
    BY FS_EmptySet, Zenon
  <2> QED
    BY <2>1, <2>2, Zenon DEF IsMap
<1> HIDE DEF c, f
<1>3. Well(c)
  <2>1. IsMap(s.saved) /\ s.tidx \in Nat
    BY Zenon DEF Good, Live, Well
  <2> QED
    BY <1>1, <1>2, <2>1, Zenon DEF Dumped, SameTasks, SameRest, Well
<1>4. Told(c, Owners(s.tasks))
  <2>1. s.sa => s.heard \subseteq DOMAIN s.tasks /\ s.busy \subseteq Owners(s.tasks)
    BY Zenon DEF Good, Live, Told
  <2>2. c.sa => c.heard = {} /\ c.busy \subseteq Owners(s.tasks)
    BY <1>1, <2>1, Zenon DEF SameRest, Dumped, SameTasks
  <2>3. Owners(c.tasks) = {}
    BY <1>1, <1>2, Zenon DEF Owners
  <2> QED
    BY <1>1, <1>2, <2>2, <2>3, Zenon DEF Told
<1>5. Numbered(c)
  BY <1>1, <1>2, Zenon DEF Numbered, IdsUnique
<1>6. Good(RefreshTaskRecord(c), Owners(s.tasks))
  BY <1>3, <1>4, <1>5, RefreshKeeps, Zenon DEF Live
<1> QED
  BY <1>6, Zenon DEF c, f

\* The end of the tasks of each application of V is told.
LEMMA AppStopsKeep ==
    ASSUME NEW s, NEW V, IsFiniteSet(V), Good(s, V)
    PROVE  Good(ForEach(s, V, HandleAppContinuousTaskStop), {})
<1> DEFINE l == <<"AppStop">>
           Step(it, D) == IF D = {} THEN s ELSE HandleAppContinuousTaskStop(it[D \ {CHOOSE x \in D : TRUE}], CHOOSE x \in D : TRUE)
           run == CHOOSE it : it = [D \in SUBSET V |-> Step(it, D)]
<1>1. \A t, k : LoopTurn(t, l, k) = HandleAppContinuousTaskStop(t, k)
  BY Zenon DEF LoopTurn
<1>2. ForEach(s, V, HandleAppContinuousTaskStop) = run[V]
  BY Zenon DEF ForEach, FoldSet, MapThenFoldSet
<1> HIDE DEF l
<1>3. \A it, D : SetStep(it, s, l, D) = Step(it, D)
  BY <1>1, Zenon DEF SetStep
<1> HIDE DEF Step
<1>4. \A it : SetRun(it, s, l, V) <=> it = [D \in SUBSET V |-> Step(it, D)]
  BY <1>3, Zenon DEF SetRun
<1>5. SetRun(run, s, l, V)
  <2>1. \E it : SetRun(it, s, l, V)
    BY SetRunExists, Zenon
  <2> QED
    BY <1>4, <2>1, Zenon
<1> HIDE DEF run
<1> DEFINE G == {D \in SUBSET V : Good(run[D], V \ D)}
<1>6. run[{}] = s => {} \in G
  <2>1. V \ {} = V
    BY Zenon
  <2> QED
    BY <2>1, Zenon
<1>7. ASSUME NEW D \in SUBSET V, NEW x \in V \ D, D \in G, run[D \cup {x}] = LoopTurn(run[D], l, x)
      PROVE  D \cup {x} \in G
  <2> DEFINE W == V \ (D \cup {x})
  <2>1. V \ D = W \cup {x} /\ D \cup {x} \in SUBSET V
    BY Zenon
  <2>2. Live(run[D], W \cup {x}) /\ Filed(run[D])
    BY <1>7, <2>1, Zenon DEF Good
  <2> HIDE DEF W
  <2>3. Live(HandleAppContinuousTaskStop(run[D], x), W) /\ Filed(HandleAppContinuousTaskStop(run[D], x))
    BY <2>2, AppStopKeeps, Zenon
  <2>4. Good(run[D \cup {x}], W)
    BY <1>1, <1>7, <2>3, Zenon DEF Good
  <2> QED
    BY <2>1, <2>4, Zenon DEF W
<1> HIDE DEF G
<1>8. SetKept(run, s, l, V, G)
  BY <1>6, <1>7, Zenon DEF SetKept
<1>9. V \in G
  BY <1>5, <1>8, SetRunRule, Zenon
<1>10. V \ V = {}
  BY Zenon
<1> QED
  BY <1>2, <1>9, <1>10, Zenon DEF G

\* The command keeps what holds between operations.
LEMMA DumpCancelTaskKeeps ==
    ASSUME NEW s, Good(s, {}), NEW bad
    PROVE  Good(DumpCancelTask(s, bad), {})
<1> DEFINE K == DOMAIN s.tasks
           V == {s.tasks[k].uid : k \in K}
           t == Cancelled(s, bad, K)
           none == RefreshTaskRecord([t EXCEPT !.tasks = Restrict(@, {})])
<1>1. DumpCancelTask(s, bad) = ForEach(none, V, HandleAppContinuousTaskStop)
  BY Zenon DEF DumpCancelTask, Cancelled
<1>2. V = Owners(s.tasks)
  <2>1. \A k \in DOMAIN s.tasks : k[1] = s.tasks[k].uid
    BY GoodLive, LiveShape, Zenon
  <2> QED
    BY <2>1, Zenon DEF Owners
<1>3. IsFiniteSet(V)
  <2> DEFINE f == [k \in K |-> s.tasks[k].uid]
  <2>1. IsFiniteSet(K)
    BY FewTasks, Zenon
  <2>2. f \in Surjection(K, V)
    BY Zenon DEF Surjection
  <2> HIDE DEF f, V
  <2> QED
    BY <2>1, <2>2, FS_Surjection, Zenon
<1>4. Good(none, V)
  <2>1. Dumped(s, t, K)
    BY DumpCancelsKeep, Zenon
  <2> HIDE DEF t
  <2> QED
    BY <1>2, <2>1, ClearKeeps, Zenon
<1> HIDE DEF none, V
<1> QED
  BY <1>1, <1>3, <1>4, AppStopsKeep, Zenon

-----------------------------------------------------------------------------
(* The loops over the tasks in the order of the map.                       *)

\* order has each of K once.
Lists(order, n, K) ==
    /\ n \in Nat /\ DOMAIN order = 1..n
    /\ \A i \in 1..n : order[i] \in K
    /\ \A i, j \in 1..n : order[i] = order[j] => i = j
    /\ \A k \in K : \E i \in 1..n : order[i] = k

\* Every order of a finite set does.
LEMMA OrderLists ==
    ASSUME NEW K, IsFiniteSet(K), NEW order \in Orders(K)
    PROVE  Lists(order, Cardinality(K), K)
<1> DEFINE n == Cardinality(K)
<1>1. n \in Nat
  BY FS_CardinalityType, Zenon
<1>2. order \in [1..n -> K] /\ IsInjective(order) /\ \A k \in K : \E i \in 1..n : order[i] = k
  BY Zenon DEF Orders, Bijection, Injection, Surjection
<1> HIDE DEF n
<1>3. DOMAIN order = 1..n /\ \A i \in 1..n : order[i] \in K
  BY <1>2, Zenon
<1>4. \A i, j \in 1..n : order[i] = order[j] => i = j
  BY <1>2, <1>3, Zenon DEF IsInjective
<1> QED
  BY <1>1, <1>2, <1>3, <1>4, Zenon DEF Lists, n

\* What the loop of HandleActiveContinuousTask carries from turn to turn.
Activating(a, U, K) ==
    a = [f \in {"s", "old", "label", "nid"} |-> a[f]] /\ Good(a.s, U) /\ DOMAIN a.s.tasks = K

\* The loop begins with the state.
LEMMA ActivatingMade ==
    ASSUME NEW s, NEW U, NEW K, Good(s, U), DOMAIN s.tasks = K, NEW old, NEW label, NEW nid
    PROVE  Activating([s |-> s, old |-> old, label |-> label, nid |-> nid], U, K)
BY Zenon DEF Activating

\* Its state is replaced.
LEMMA ActivatingSet ==
    ASSUME NEW a, NEW U, NEW K, Activating(a, U, K), NEW s, Good(s, U), DOMAIN s.tasks = K
    PROVE  Activating([a EXCEPT !.s = s], U, K)
BY Zenon DEF Activating

\* One task is activated.
LEMMA ActivateOneTurn ==
    ASSUME NEW a, NEW U, NEW K, Activating(a, U, K), NEW k \in K, NEW bad
    PROVE  Activating(ActivateOne(a, bad, k), U, K)
<1> DEFINE q == a.s.tasks[k]
           r == [q EXCEPT !.suspended = FALSE, !.standby = FALSE]
           t == OnContinuousTaskChanged(Put(a.s, r), r, "ACTIVE")
           u == HandleActiveNotification(t, bad, r)
           p == [r EXCEPT !.label = a.label, !.nid = a.nid]
           merged == [Put(t, p) EXCEPT !.shared = @ \cup {a.nid}]
<1>1. Good(a.s, U) /\ Live(a.s, U) /\ DOMAIN a.s.tasks = K /\ k \in DOMAIN a.s.tasks
  BY GoodLive, Zenon DEF Activating
<1>2. IsTask(q) /\ Key(q) = k
  BY <1>1, LiveShape, Zenon
<1>3. IsTask(r) /\ Key(r) = k /\ r.id = q.id /\ ~r.standby
  <2>1. IsTask(r) /\ r.id = q.id /\ ~r.standby /\ r.uid = q.uid /\ r.ability = q.ability /\ r.byReq = q.byReq
    <3> HIDE DEF q
    <3> QED
      BY <1>2, Zenon DEF IsTask, TaskFields
  <2> HIDE DEF r, q
  <2> QED
    BY <1>2, <2>1, Zenon DEF Key
<1>4. \/ ActivateOne(a, bad, k) = [a EXCEPT !.s = RefreshTaskRecord(t)]
      \/ ActivateOne(a, bad, k) = [s |-> RefreshTaskRecord(u), old |-> a.old \cup {r.nid},
                                   label |-> u.tasks[k].label, nid |-> u.tasks[k].nid]
      \/ ActivateOne(a, bad, k) = [a EXCEPT !.s = RefreshTaskRecord(merged)]
  BY Zenon DEF ActivateOne
<1> HIDE DEF r, q
<1>5. Live(t, U) /\ DOMAIN t.tasks = K /\ t.tasks[k] = r
  <2>1. r.id = a.s.tasks[k].id /\ (~r.standby \/ (r.standby /\ r.suspended = a.s.tasks[k].suspended))
    BY <1>3, Zenon DEF q
  <2>2. Live(t, U)
    BY <1>1, <1>3, <2>1, ActiveKeeps, Zenon
  <2>3. DOMAIN t.tasks = DOMAIN a.s.tasks
    BY <1>1, <1>3, <2>1, ActiveKeeps, SMTT(30)
  <2>4. t.tasks[k] = r
    BY <1>1, <1>3, <2>1, ActiveKeeps
  <2> HIDE DEF t
  <2> QED
    BY <1>1, <2>2, <2>3, <2>4, Zenon
<1> HIDE DEF t
<1>6. Live(u, U) /\ DOMAIN u.tasks = K
  BY <1>5, HandleActiveNotificationKeeps, Zenon DEF Follows
<1>7. SameTask(r, p)
  BY <1>3, SetFields, Zenon
<1> HIDE DEF u, p
<1>8. Live(merged, U) /\ DOMAIN merged.tasks = K
  <2>1. Live(Put(t, p), U) /\ DOMAIN Put(t, p).tasks = K
    BY <1>5, <1>7, PutKeeps, Zenon DEF Follows
  <2>2. SameCore(Put(t, p), merged)
    BY <2>1, LiveShape, SetState, Zenon
  <2> HIDE DEF merged
  <2> QED
    BY <2>1, <2>2, CoreKeeps, Zenon DEF Follows
<1> HIDE DEF merged
<1>9. Activating([a EXCEPT !.s = RefreshTaskRecord(t)], U, K)
  BY <1>5, RefreshKeeps, ActivatingSet, Zenon
<1>10. Activating([a EXCEPT !.s = RefreshTaskRecord(merged)], U, K)
  BY <1>8, RefreshKeeps, ActivatingSet, Zenon
<1>11. Activating([s |-> RefreshTaskRecord(u), old |-> a.old \cup {r.nid},
                   label |-> u.tasks[k].label, nid |-> u.tasks[k].nid], U, K)
  BY <1>6, RefreshKeeps, ActivatingMade, Zenon
<1> QED
  BY <1>4, <1>9, <1>10, <1>11, Zenon

\* The suspended tasks of an application are activated.
LEMMA HandleActiveKeeps ==
    ASSUME NEW s, NEW U, Good(s, U), NEW K, K \subseteq DOMAIN s.tasks,
           NEW order \in Orders(K), NEW bad
    PROVE  /\ Good(HandleActiveContinuousTask(s, bad, order), U)
           /\ DOMAIN HandleActiveContinuousTask(s, bad, order).tasks = DOMAIN s.tasks
<1> DEFINE n == Cardinality(K)
           first == [s |-> s, old |-> {}, label |-> NoLabel, nid |-> NoId]
<1>0. Lists(order, n, K)
  BY FewTasks, OrderLists, Zenon
<1> HIDE DEF n, first
<1>a. n \in Nat /\ DOMAIN order = 1..n
  BY <1>0, Zenon DEF Lists
<1> DEFINE l == <<"ActivateOne", bad>>
           Step(it, D) == IF D = {} THEN first ELSE ActivateOne(it[D \ {Max(D)}], bad, order[Max(D)])
           run == CHOOSE it : it = [D \in SUBSET DOMAIN order |-> Step(it, D)]
<1>1. \A t, k : LoopTurn(t, l, k) = ActivateOne(t, bad, k)
  BY Zenon DEF LoopTurn
<1>2. HandleActiveContinuousTask(s, bad, order) = run[1..n].s
  BY <1>a, Zenon DEF HandleActiveContinuousTask, first, InOrder, MapThenFoldSet
<1> HIDE DEF l
<1>3. \A it, D : SeqStep(it, first, l, order, D) = Step(it, D)
  BY <1>1, Zenon DEF SeqStep
<1> HIDE DEF Step
<1>4. \A it : SeqRun(it, first, l, order) <=> it = [D \in SUBSET DOMAIN order |-> Step(it, D)]
  BY <1>3, Zenon DEF SeqRun
<1>5. SeqRun(run, first, l, order)
  <2>1. \E it : SeqRun(it, first, l, order)
    BY <1>a, SeqRunExists, Zenon
  <2> QED
    BY <1>4, <2>1, Zenon
<1> HIDE DEF run
<1> DEFINE T == {i \in 0..n : Activating(run[1..i], U, DOMAIN s.tasks)}
<1>6. run[1..0] = first => 0 \in T
  <2>1. Activating(first, U, DOMAIN s.tasks)
    BY ActivatingMade, Zenon DEF first
  <2>2. 0 \in 0..n
    BY <1>a
  <2> QED
    BY <2>1, <2>2, Zenon
<1>7. ASSUME NEW i \in 1..n, i - 1 \in T, run[1..i] = LoopTurn(run[1..(i - 1)], l, order[i])
      PROVE  i \in T
  <2>1. order[i] \in DOMAIN s.tasks
    BY <1>0, Zenon DEF Lists
  <2>2. Activating(run[1..(i - 1)], U, DOMAIN s.tasks)
    BY <1>7, Zenon
  <2>3. Activating(ActivateOne(run[1..(i - 1)], bad, order[i]), U, DOMAIN s.tasks)
    BY <2>1, <2>2, ActivateOneTurn, Zenon
  <2>4. Activating(run[1..i], U, DOMAIN s.tasks)
    BY <1>1, <1>7, <2>3, Zenon
  <2>5. i \in 0..n
    BY <1>a
  <2> QED
    BY <2>4, <2>5, Zenon
<1> HIDE DEF T
<1>8. SeqKept(run, first, l, order, n, T)
  BY <1>6, <1>7, Zenon DEF SeqKept
<1>9. n \in T
  BY <1>a, <1>5, <1>8, SeqRunRule, Zenon
<1>10. Activating(run[1..n], U, DOMAIN s.tasks)
  BY <1>9, Zenon DEF T
<1> QED
  BY <1>2, <1>10, Zenon DEF Activating

\* The tasks of an ability are stopped: those from the i-th on are still there.
Stopping(c, U, i, order, n) ==
    Good(c.s, U) /\ \A j \in 1..n : j > i => order[j] \in DOMAIN c.s.tasks

\* One task is stopped, unless an earlier one failed.
LEMMA StopNextTurn ==
    ASSUME NEW U, NEW K, NEW n, NEW order, Lists(order, n, K), NEW i \in 1..n,
           NEW c, Stopping(c, U, i - 1, order, n), NEW bad
    PROVE  Stopping(StopNext(c, bad, order[i]), U, i, order, n)
<1>1. n \in Nat /\ i \in Int /\ \A j \in 1..n : j \in Int
  BY DEF Lists
<1>2. Good(c.s, U) /\ order[i] \in DOMAIN c.s.tasks /\ \A j \in 1..n : j > i => order[j] \in DOMAIN c.s.tasks
  BY <1>1 DEF Stopping
<1>3. CASE c.ok
  <2> DEFINE d == StopBackgroundRunningByTask(c.s, bad, order[i])
  <2>1. Good(d.s, U) /\ DOMAIN d.s.tasks = DOMAIN c.s.tasks \ {order[i]}
    BY <1>2, StopKeeps, Zenon
  <2>2. StopNext(c, bad, order[i]) = d
    BY <1>3, Zenon DEF StopNext
  <2> HIDE DEF d
  <2>3. \A j \in 1..n : j > i => order[j] \in DOMAIN d.s.tasks
    <3>1. \A j \in 1..n : j > i => order[j] # order[i]
      BY <1>1 DEF Lists
    <3> QED
      BY <1>2, <2>1, <3>1, Zenon
  <2> QED
    BY <2>1, <2>2, <2>3, Zenon DEF Stopping
<1>4. CASE ~c.ok
  <2>1. StopNext(c, bad, order[i]) = c
    BY <1>4, Zenon DEF StopNext
  <2> QED
    BY <1>2, <2>1, Zenon DEF Stopping
<1> QED
  BY <1>3, <1>4, Zenon

\* All of them are.
LEMMA StopByContextKeeps ==
    ASSUME NEW s, NEW U, Good(s, U), NEW K, K \subseteq DOMAIN s.tasks,
           NEW order \in Orders(K), NEW bad
    PROVE  Good(StopBackgroundRunningByContext(s, bad, order), U)
<1> DEFINE n == Cardinality(K)
           first == [s |-> s, ok |-> TRUE]
<1>0. Lists(order, n, K)
  BY FewTasks, OrderLists, Zenon
<1> HIDE DEF n, first
<1>a. n \in Nat /\ DOMAIN order = 1..n
  BY <1>0, Zenon DEF Lists
<1> DEFINE l == <<"StopNext", bad>>
           Step(it, D) == IF D = {} THEN first ELSE StopNext(it[D \ {Max(D)}], bad, order[Max(D)])
           run == CHOOSE it : it = [D \in SUBSET DOMAIN order |-> Step(it, D)]
<1>1. \A t, k : LoopTurn(t, l, k) = StopNext(t, bad, k)
  BY Zenon DEF LoopTurn
<1>2. StopBackgroundRunningByContext(s, bad, order) = run[1..n].s
  BY <1>a, Zenon DEF StopBackgroundRunningByContext, first, InOrder, MapThenFoldSet
<1> HIDE DEF l
<1>3. \A it, D : SeqStep(it, first, l, order, D) = Step(it, D)
  BY <1>1, Zenon DEF SeqStep
<1> HIDE DEF Step
<1>4. \A it : SeqRun(it, first, l, order) <=> it = [D \in SUBSET DOMAIN order |-> Step(it, D)]
  BY <1>3, Zenon DEF SeqRun
<1>5. SeqRun(run, first, l, order)
  <2>1. \E it : SeqRun(it, first, l, order)
    BY <1>a, SeqRunExists, Zenon
  <2> QED
    BY <1>4, <2>1, Zenon
<1> HIDE DEF run
<1> DEFINE T == {i \in 0..n : Stopping(run[1..i], U, i, order, n)}
<1>6. run[1..0] = first => 0 \in T
  <2>1. first.s = s
    BY Zenon DEF first
  <2>2. \A j \in 1..n : order[j] \in DOMAIN s.tasks
    BY <1>0, Zenon DEF Lists
  <2>3. Stopping(first, U, 0, order, n)
    BY <2>1, <2>2, Zenon DEF Stopping
  <2>4. 0 \in 0..n
    BY <1>a
  <2> QED
    BY <2>3, <2>4, Zenon
<1>7. ASSUME NEW i \in 1..n, i - 1 \in T, run[1..i] = LoopTurn(run[1..(i - 1)], l, order[i])
      PROVE  i \in T
  <2>1. Stopping(run[1..(i - 1)], U, i - 1, order, n)
    BY <1>7, Zenon
  <2>2. Stopping(StopNext(run[1..(i - 1)], bad, order[i]), U, i, order, n)
    BY <1>0, <2>1, StopNextTurn, Zenon
  <2>3. Stopping(run[1..i], U, i, order, n)
    BY <1>1, <1>7, <2>2, ZenonT(30)
  <2>4. i \in 0..n
    BY <1>a
  <2> QED
    BY <2>3, <2>4, Zenon
<1> HIDE DEF T
<1>8. SeqKept(run, first, l, order, n, T)
  BY <1>6, <1>7, Zenon DEF SeqKept
<1>9. n \in T
  BY <1>a, <1>5, <1>8, SeqRunRule, Zenon
<1>10. Stopping(run[1..n], U, n, order, n)
  BY <1>9, Zenon DEF T
<1> QED
  BY <1>2, <1>10, Zenon DEF Stopping

-----------------------------------------------------------------------------
(* The restart: the records of the file are checked.                       *)

\* The tasks are the same, whatever is shown of them.
Reshown(t, w) ==
    /\ Well(w) /\ SameRest(t, w)
    /\ DOMAIN w.tasks = DOMAIN t.tasks
    /\ \A j \in DOMAIN t.tasks : SameTask(t.tasks[j], w.tasks[j])

\* A step that leaves the tasks alone shows them again.
LEMMA ReshownCore ==
    ASSUME NEW t, Well(t), NEW w, SameCore(t, w)
    PROVE  Reshown(t, w)
<1>1. \A j \in DOMAIN t.tasks : SameTask(t.tasks[j], t.tasks[j])
  BY SameTaskSelf, Zenon DEF Well, IsMap
<1>2. Well(w)
  BY CoreKeeps, Zenon
<1>3. SameRest(t, w) /\ w.tasks = t.tasks
  BY Zenon DEF SameRest, SameCore
<1> QED
  BY <1>1, <1>2, <1>3, Zenon DEF Reshown

\* Showing a task again.
LEMMA ReshownShows ==
    ASSUME NEW t, Well(t), NEW k \in DOMAIN t.tasks, NEW bad
    PROVE  Reshown(t, HandleActiveNotification(SetCachedBundleInfo(t, bad, t.tasks[k]), bad, t.tasks[k]))
<1> DEFINE r == t.tasks[k]
           c == SetCachedBundleInfo(t, bad, r)
           m == Send(c, bad, r)
           w == HandleActiveNotification(c, bad, r)
<1>1. IsState(t) /\ IsTask(r) /\ Key(r) = k
  BY Zenon DEF Well, IsMap
<1>2. SameCore(t, c)
  BY <1>1, SetCachedCore, Zenon
<1>3. w = c \/ w = Put(m.s, m.r)
  BY Zenon DEF HandleActiveNotification, Sent
<1>4. Shows(c, r, m)
  BY <1>1, <1>2, CoreIsState, SendShows, Zenon
<1> HIDE DEF m, w
<1>5. SameCore(t, m.s) /\ SameTask(r, m.r)
  BY <1>2, <1>4, SameCoreTrans, Zenon DEF Shows
<1>6. Well(m.s) /\ m.s.tasks = t.tasks /\ SameRest(t, m.s)
  BY <1>5, CoreKeeps, Zenon DEF SameCore, SameRest
<1>7. IsTask(m.r) /\ Key(m.r) = k
  BY <1>1, <1>5, SameKey, Zenon DEF SameTask
<1>8. Replaces(m.s, Put(m.s, m.r), k, m.r)
  BY <1>6, <1>7, PutReplaces, Zenon
<1> DEFINE p == Put(m.s, m.r)
<1> HIDE DEF p
<1>9. Reshown(t, p)
  <2>1. Well(p) /\ SameRest(m.s, p) /\ DOMAIN p.tasks = DOMAIN t.tasks /\ p.tasks[k] = m.r
    BY <1>6, <1>8, Zenon DEF Replaces, p
  <2>2. SameRest(t, p)
    BY <1>6, <2>1, Zenon DEF SameRest
  <2>3. \A j \in DOMAIN t.tasks : SameTask(t.tasks[j], p.tasks[j])
    <3>1. \A j \in DOMAIN t.tasks : j # k => p.tasks[j] = t.tasks[j]
      BY <1>6, <1>8, Zenon DEF Replaces, p
    <3>2. \A j \in DOMAIN t.tasks : SameTask(t.tasks[j], t.tasks[j])
      BY SameTaskSelf, Zenon DEF Well, IsMap
    <3> QED
      BY <1>5, <2>1, <3>1, <3>2, Zenon
  <2> QED
    BY <2>1, <2>2, <2>3, Zenon DEF Reshown
<1>10. Reshown(t, c)
  BY <1>2, ReshownCore, Zenon
<1> QED
  BY <1>3, <1>9, <1>10, Zenon DEF p, w

\* Erasing a task.
LEMMA EraseWell ==
    ASSUME NEW t, Well(t), NEW k
    PROVE  /\ Well(Erase(t, k)) /\ SameRest(t, Erase(t, k))
           /\ DOMAIN Erase(t, k).tasks = DOMAIN t.tasks \ {k}
           /\ \A j \in DOMAIN t.tasks \ {k} : Erase(t, k).tasks[j] = t.tasks[j]
<1> DEFINE f == Restrict(t.tasks, DOMAIN t.tasks \ {k})
           e == Erase(t, k)
<1>1. SameRest(t, e) /\ e.tasks = f
  BY SetTasks, Zenon DEF Well, Erase
<1>2. DOMAIN f = DOMAIN t.tasks \ {k} /\ f = [j \in DOMAIN f |-> f[j]]
  BY Zenon DEF Restrict
<1>3. \A j \in DOMAIN t.tasks \ {k} : f[j] = t.tasks[j]
  BY Zenon DEF Restrict
<1> HIDE DEF f, e
<1>4. IsMap(f)
  <2>1. IsFiniteSet(DOMAIN f)
    <3>1. IsFiniteSet(DOMAIN t.tasks) /\ DOMAIN f \subseteq DOMAIN t.tasks
      BY <1>2, Zenon DEF Well, IsMap
    <3> QED
      BY <3>1, FS_Subset, Zenon
  <2>2. \A j \in DOMAIN f : IsTask(f[j]) /\ Key(f[j]) = j
    BY <1>2, <1>3, Zenon DEF Well, IsMap
  <2> QED
    BY <1>2, <2>1, <2>2, Zenon DEF IsMap
<1>5. Well(e)
  BY <1>1, <1>4, Zenon DEF Well, SameRest
<1> QED
  BY <1>1, <1>2, <1>3, <1>5, Zenon DEF e

\* After i turns: the tasks of processes that live, and those not yet looked at.
Left(s, i, order, n) ==
    {k \in DOMAIN s.tasks : Lives(s.tasks[k].pid) \/ \E j \in 1..n : j > i /\ order[j] = k}

Checked(t, s, i, order, n) ==
    /\ Well(t) /\ SameRest(s, t)
    /\ DOMAIN t.tasks = Left(s, i, order, n)
    /\ \A k \in DOMAIN t.tasks : SameTask(s.tasks[k], t.tasks[k])

\* One record is checked.
LEMMA CheckRecordTurn ==
    ASSUME NEW s, NEW n, NEW order, Lists(order, n, DOMAIN s.tasks), NEW i \in 1..n,
           NEW t, Checked(t, s, i - 1, order, n), NEW bad
    PROVE  Checked(CheckRecord(t, bad, order[i]), s, i, order, n)
<1> DEFINE k == order[i]
           r == t.tasks[k]
           e == Erase(t, k)
           w == HandleActiveNotification(SetCachedBundleInfo(t, bad, r), bad, r)
           c == CheckRecord(t, bad, k)
<1>1. n \in Nat /\ i \in Int /\ \A j \in 1..n : j \in Int
  BY DEF Lists
<1>2. Well(t) /\ SameRest(s, t) /\ DOMAIN t.tasks = Left(s, i - 1, order, n)
  BY Zenon DEF Checked
<1>3. k \in DOMAIN t.tasks /\ k \in DOMAIN s.tasks
  BY <1>1, <1>2 DEF Left, Lists
<1>4. SameTask(s.tasks[k], r) /\ r.pid = s.tasks[k].pid
  BY <1>3, Zenon DEF Checked, SameTask
<1>5. Left(s, i, order, n) = {j \in Left(s, i - 1, order, n) : j # k \/ Lives(s.tasks[k].pid)}
  <2>1. ASSUME NEW j \in 1..n PROVE (j > i - 1) <=> (j > i \/ j = i)
    BY <1>1
  <2>2. \A j \in 1..n : j > i => order[j] # k
    BY <1>1 DEF Lists
  <2> HIDE DEF k
  <2>3. ASSUME NEW x \in DOMAIN s.tasks
        PROVE  x \in Left(s, i, order, n)
                   <=> x \in Left(s, i - 1, order, n) /\ (x # k \/ Lives(s.tasks[k].pid))
    <3>1. CASE x = k
      <4>1. ~\E j \in 1..n : j > i /\ order[j] = x
        BY <2>2, <3>1, Zenon
      <4> QED
        BY <1>2, <1>3, <3>1, <4>1, Zenon DEF Left
    <3>2. CASE x # k
      <4>1. (\E j \in 1..n : j > i /\ order[j] = x) <=> \E j \in 1..n : j > i - 1 /\ order[j] = x
        BY <2>1, <3>2, Zenon DEF k
      <4> QED
        BY <3>2, <4>1, Zenon DEF Left
    <3> QED
      BY <3>1, <3>2, Zenon
  <2>4. Left(s, i, order, n) \subseteq DOMAIN s.tasks /\ Left(s, i - 1, order, n) \subseteq DOMAIN s.tasks
    BY Zenon DEF Left
  <2> QED
    BY <2>3, <2>4, Zenon
<1>6. \/ c = CancelNotification(e, bad, r).s /\ ~Lives(r.pid)
      \/ (c = t \/ c = w) /\ Lives(r.pid)
  BY Zenon DEF CheckRecord
<1> HIDE DEF c, w, e, r, k
<1>7. CASE c = CancelNotification(e, bad, r).s /\ ~Lives(r.pid)
  <2>1. /\ Well(e) /\ SameRest(t, e) /\ DOMAIN e.tasks = DOMAIN t.tasks \ {k}
        /\ \A j \in DOMAIN t.tasks \ {k} : e.tasks[j] = t.tasks[j]
    BY <1>2, EraseWell, Zenon DEF e
  <2>2. SameCore(e, c)
    BY <1>7, <2>1, CancelNotificationCore, Zenon DEF Well
  <2>3. Well(c) /\ c.tasks = e.tasks
    BY <2>1, <2>2, CoreKeeps, Zenon DEF SameCore
  <2>4. SameRest(s, c)
    BY <1>2, <2>1, <2>2, Zenon DEF SameCore, SameRest
  <2>5. DOMAIN c.tasks = Left(s, i, order, n)
    BY <1>2, <1>4, <1>5, <1>7, <2>1, <2>3, SMTT(30)
  <2>6. \A j \in DOMAIN c.tasks : SameTask(s.tasks[j], c.tasks[j])
    <3>1. \A j \in DOMAIN t.tasks \ {k} : SameTask(s.tasks[j], t.tasks[j])
      BY Zenon DEF Checked
    <3> QED
      BY <2>1, <2>3, <3>1, Zenon
  <2> QED
    BY <2>3, <2>4, <2>5, <2>6, Zenon DEF Checked, c, k
<1>8. CASE (c = t \/ c = w) /\ Lives(r.pid)
  <2>1. Reshown(t, c)
    <3>1. Reshown(t, t)
      BY <1>2, SameCoreSelf, ReshownCore, Zenon DEF Well
    <3>2. Reshown(t, w)
      BY <1>2, <1>3, ReshownShows, Zenon DEF w, r
    <3> QED
      BY <1>8, <3>1, <3>2, Zenon
  <2>2. Well(c) /\ SameRest(t, c) /\ DOMAIN c.tasks = DOMAIN t.tasks
    BY <2>1, Zenon DEF Reshown
  <2>3. SameRest(s, c)
    BY <1>2, <2>2, Zenon DEF SameRest
  <2>4. DOMAIN c.tasks = Left(s, i, order, n)
    BY <1>2, <1>4, <1>5, <1>8, <2>2, SMTT(30)
  <2>5. \A j \in DOMAIN c.tasks : SameTask(s.tasks[j], c.tasks[j])
    <3>1. \A j \in DOMAIN t.tasks : SameTask(s.tasks[j], t.tasks[j]) /\ SameTask(t.tasks[j], c.tasks[j])
      BY <2>1, Zenon DEF Checked, Reshown
    <3> QED
      BY <2>2, <3>1, SameTaskTrans, Zenon
  <2> QED
    BY <2>2, <2>3, <2>4, <2>5, Zenon DEF Checked, c, k
<1> QED
  BY <1>6, <1>7, <1>8, Zenon

CheckRecords(s, bad, order) == InOrder(s, order, LAMBDA u, k : CheckRecord(u, bad, k))

\* All records are checked.
LEMMA CheckRecordsKeep ==
    ASSUME NEW s, Well(s), NEW order \in Orders(DOMAIN s.tasks), NEW bad
    PROVE  Checked(CheckRecords(s, bad, order), s, Cardinality(DOMAIN s.tasks), order, Cardinality(DOMAIN s.tasks))
<1> DEFINE n == Cardinality(DOMAIN s.tasks)
<1>0. Lists(order, n, DOMAIN s.tasks)
  BY OrderLists, Zenon DEF Well, IsMap
<1> HIDE DEF n
<1>a. n \in Nat /\ DOMAIN order = 1..n
  BY <1>0, Zenon DEF Lists
<1> DEFINE l == <<"CheckRecord", bad>>
           Step(it, D) == IF D = {} THEN s ELSE CheckRecord(it[D \ {Max(D)}], bad, order[Max(D)])
           run == CHOOSE it : it = [D \in SUBSET DOMAIN order |-> Step(it, D)]
<1>1. \A t, k : LoopTurn(t, l, k) = CheckRecord(t, bad, k)
  BY Zenon DEF LoopTurn
<1>2. CheckRecords(s, bad, order) = run[1..n]
  BY <1>a, Zenon DEF CheckRecords, InOrder, MapThenFoldSet
<1> HIDE DEF l
<1>3. \A it, D : SeqStep(it, s, l, order, D) = Step(it, D)
  BY <1>1, Zenon DEF SeqStep
<1> HIDE DEF Step
<1>4. \A it : SeqRun(it, s, l, order) <=> it = [D \in SUBSET DOMAIN order |-> Step(it, D)]
  BY <1>3, Zenon DEF SeqRun
<1>5. SeqRun(run, s, l, order)
  <2>1. \E it : SeqRun(it, s, l, order)
    BY <1>a, SeqRunExists, Zenon
  <2> QED
    BY <1>4, <2>1, Zenon
<1> HIDE DEF run
<1> DEFINE T == {i \in 0..n : Checked(run[1..i], s, i, order, n)}
<1>6. run[1..0] = s => 0 \in T
  <2>1. Left(s, 0, order, n) = DOMAIN s.tasks
    <3>1. \A j \in 1..n : j > 0
      BY <1>a
    <3>2. \A k \in DOMAIN s.tasks : \E j \in 1..n : j > 0 /\ order[j] = k
      BY <1>0, <3>1, Zenon DEF Lists
    <3> QED
      BY <3>2, Zenon DEF Left
  <2>2. Checked(s, s, 0, order, n)
    <3>1. \A j \in DOMAIN s.tasks : SameTask(s.tasks[j], s.tasks[j])
      BY SameTaskSelf, Zenon DEF Well, IsMap
    <3>2. SameRest(s, s)
      BY Zenon DEF SameRest, Well
    <3> QED
      BY <2>1, <3>1, <3>2, Zenon DEF Checked
  <2>3. 0 \in 0..n
    BY <1>a
  <2> QED
    BY <2>2, <2>3, Zenon
<1>7. ASSUME NEW i \in 1..n, i - 1 \in T, run[1..i] = LoopTurn(run[1..(i - 1)], l, order[i])
      PROVE  i \in T
  <2>1. Checked(run[1..(i - 1)], s, i - 1, order, n)
    BY <1>7, Zenon
  <2>2. Checked(CheckRecord(run[1..(i - 1)], bad, order[i]), s, i, order, n)
    BY <1>0, <2>1, CheckRecordTurn, Zenon
  <2>3. Checked(run[1..i], s, i, order, n)
    BY <1>1, <1>7, <2>2, Zenon
  <2>4. i \in 0..n
    BY <1>a
  <2> QED
    BY <2>3, <2>4, Zenon
<1> HIDE DEF T
<1>8. SeqKept(run, s, l, order, n, T)
  BY <1>6, <1>7, Zenon DEF SeqKept
<1>9. n \in T
  BY <1>a, <1>5, <1>8, SeqRunRule, Zenon
<1>10. Checked(run[1..n], s, n, order, n)
  BY <1>9, Zenon DEF T
<1> QED
  BY <1>2, <1>10, Zenon DEF n

\* The greatest id of the records, or NoId when there is none.
LEMMA GreatestId ==
    ASSUME NEW f, IsMap(f), NEW m, m = Max({NoId} \cup {f[k].id : k \in DOMAIN f})
    PROVE  /\ m = NoId => DOMAIN f = {}
           /\ m # NoId => m \in Nat
           /\ \A k \in DOMAIN f : f[k].id <= m
<1> DEFINE g == [k \in DOMAIN f |-> f[k].id]
           I == {f[k].id : k \in DOMAIN f}
           S == {NoId} \cup I
<1>1. \A k \in DOMAIN f : f[k].id \in Nat
  BY Zenon DEF IsMap, IsTask
<1>2. IsFiniteSet(I)
  <2>1. IsFiniteSet(DOMAIN f)
    BY Zenon DEF IsMap
  <2>2. g \in Surjection(DOMAIN f, I)
    BY Zenon DEF Surjection
  <2> HIDE DEF g, I
  <2> QED
    BY <2>1, <2>2, FS_Surjection, Zenon
<1>3. IsFiniteSet(S)
  <2>1. S = I \cup {NoId}
    BY Zenon
  <2> HIDE DEF I, S
  <2> QED
    BY <1>2, <2>1, FS_AddElement, Zenon
<1>4. NoId = -1 /\ \A x \in S : x \in Int /\ (x = NoId \/ x \in Nat)
  BY <1>1 DEF NoId
<1>5. Max(S) \in S /\ \A x \in S : Max(S) >= x
  <2>1. S # {} /\ \A x \in S : x \in Int
    BY <1>4, Zenon
  <2> HIDE DEF S
  <2> QED
    BY <1>3, <2>1, MaxIn, Zenon
<1>6. \A k \in DOMAIN f : f[k].id \in S
  BY Zenon
<1>7. m \in Int /\ (m = NoId \/ m \in Nat) /\ \A x \in S : m >= x
  <2>1. m = Max(S)
    BY Zenon
  <2> HIDE DEF S
  <2> QED
    BY <1>4, <1>5, <2>1, Zenon
<1> HIDE DEF S
<1>8. \A k \in DOMAIN f : f[k].id \in Nat /\ m >= f[k].id
  BY <1>1, <1>6, <1>7, Zenon
<1>9. \A k \in DOMAIN f : f[k].id <= m /\ m # NoId
  <2>1. ASSUME NEW x \in Nat, m >= x PROVE x <= m /\ m # NoId
    BY <1>4, <1>7, <2>1
  <2> QED
    BY <1>8, <2>1, Zenon
<1>10. m = NoId => DOMAIN f = {}
  BY <1>9, ZenonT(30)
<1> QED
  BY <1>7, <1>9, <1>10, Zenon

\* What the service has after its start: the tasks of the file that are left.
Restored(s, t) ==
    /\ Good(t, {})
    /\ ProcessesListed =>
          /\ DOMAIN t.tasks = {k \in DOMAIN s.saved : Lives(s.saved[k].pid)}
          /\ \A k \in DOMAIN t.tasks : t.tasks[k].suspended = s.saved[k].suspended

\* The numbers of the service begin after those of the file.
LEMMA CheckPersistenceDataKeeps ==
    ASSUME NEW s, Well(s), ~s.sa, s.tidx = 0, ProcessesListed => IdsUnique(s.tasks),
           NEW order \in Orders(DOMAIN s.tasks), NEW bad
    PROVE  /\ Live(CheckPersistenceData(s, bad, order), {})
           /\ DOMAIN CheckPersistenceData(s, bad, order).tasks = {k \in DOMAIN s.tasks : Lives(s.tasks[k].pid)}
           /\ \A k \in DOMAIN CheckPersistenceData(s, bad, order).tasks :
                  CheckPersistenceData(s, bad, order).tasks[k].suspended = s.tasks[k].suspended
<1> DEFINE n == Cardinality(DOMAIN s.tasks)
           t == CheckRecords(s, bad, order)
           m == Max({NoId} \cup {s.tasks[k].nid : k \in DOMAIN s.tasks})
           p == Max({NoId} \cup {s.tasks[k].id : k \in DOMAIN s.tasks})
           u == [t EXCEPT !.nidx = IF m = NoId THEN @ ELSE m, !.tidx = IF p = NoId THEN @ ELSE p]
<1>1. CheckPersistenceData(s, bad, order) = u
  BY Zenon DEF CheckPersistenceData, CheckRecords
<1>2. Checked(t, s, n, order, n)
  BY CheckRecordsKeep, Zenon
<1>3. /\ p = NoId => DOMAIN s.tasks = {}
      /\ p # NoId => p \in Nat
      /\ \A k \in DOMAIN s.tasks : s.tasks[k].id <= p
  <2>1. IsMap(s.tasks)
    BY Zenon DEF Well
  <2> QED
    BY <2>1, GreatestId, Zenon
<1> HIDE DEF n, t, m, p
<1>4. Well(t) /\ SameRest(s, t) /\ DOMAIN t.tasks = Left(s, n, order, n)
  BY <1>2, Zenon DEF Checked
<1>5. DOMAIN t.tasks = {k \in DOMAIN s.tasks : Lives(s.tasks[k].pid)}
  <2>1. n \in Nat
    BY FS_CardinalityType, Zenon DEF Well, IsMap, n
  <2>2. \A j \in 1..n : ~(j > n)
    BY <2>1
  <2> QED
    BY <1>4, <2>2, Zenon DEF Left
<1>6. \A k \in DOMAIN t.tasks : /\ k \in DOMAIN s.tasks
                                /\ t.tasks[k].id = s.tasks[k].id
                                /\ t.tasks[k].suspended = s.tasks[k].suspended
  BY <1>2, <1>5, Zenon DEF Checked, SameTask
<1>7. /\ IsState(u) /\ u.tasks = t.tasks /\ u.saved = t.saved /\ u.sa = t.sa
      /\ u.tidx = IF p = NoId THEN t.tidx ELSE p
  <2>1. IsState(t)
    BY <1>4, Zenon DEF Well
  <2> QED
    BY <2>1, ZenonT(30) DEF IsState, StateFields
<1> HIDE DEF u
<1>8. t.tidx = 0 /\ ~t.sa
  BY <1>4, Zenon DEF SameRest
<1>9. u.tidx \in Nat /\ \A k \in DOMAIN s.tasks : s.tasks[k].id <= u.tidx
  BY <1>3, <1>7, <1>8
<1>10. Well(u)
  BY <1>4, <1>7, <1>9, Zenon DEF Well
<1>11. Told(u, {})
  BY <1>7, <1>8, Zenon DEF Told
<1>12. Numbered(u)
  <2>1. \A k \in DOMAIN u.tasks : u.tasks[k].id <= u.tidx
    BY <1>6, <1>7, <1>9, Zenon
  <2>2. ProcessesListed => IdsUnique(u.tasks)
    <3>1. ASSUME ProcessesListed, NEW j \in DOMAIN u.tasks, NEW k \in DOMAIN u.tasks,
                 u.tasks[j].id = u.tasks[k].id
          PROVE  j = k
      <4>1. j \in DOMAIN s.tasks /\ k \in DOMAIN s.tasks /\ s.tasks[j].id = s.tasks[k].id
        BY <1>6, <1>7, <3>1, Zenon
      <4> QED
        BY <3>1, <4>1, Zenon DEF IdsUnique
    <3> QED
      BY <3>1, Zenon DEF IdsUnique
  <2> QED
    BY <2>1, <2>2, Zenon DEF Numbered
<1>13. Live(u, {})
  BY <1>10, <1>11, <1>12, Zenon DEF Live
<1> QED
  BY <1>1, <1>5, <1>6, <1>7, <1>13, Zenon

\* The start of the service makes what holds between operations, from the file.
LEMMA RestoreKeeps ==
    ASSUME NEW s, Well(s), ~s.sa, s.tidx = 0, ProcessesListed => IdsUnique(s.saved),
           NEW bad \in Faults, NEW order \in Orders(DOMAIN s.saved), NEW texts
    PROVE  Restored(s, InitRequiredResourceInfo(s, bad, order, texts))
<1> DEFINE p == GetNotificationPrompt(s, texts)
           t == [p EXCEPT !.tasks = p.saved]
           c == CheckPersistenceData(t, bad, order)
           d == RefreshTaskRecord(c)
           e == RestoreApplyRecord(d, bad)
           w == InitRequiredResourceInfo(s, bad, order, texts)
<1>1. w = IF "process" \in bad THEN t ELSE e
  BY Zenon DEF InitRequiredResourceInfo, HandlePersistenceData
<1>2. SameCore(s, p)
  BY SetState, Zenon DEF Well, GetNotificationPrompt
<1> HIDE DEF p, w
<1>3. SameRest(p, t) /\ t.tasks = p.saved
  BY <1>2, SetTasks, CoreIsState, Zenon
<1> HIDE DEF t
<1>4. /\ IsState(t) /\ t.tasks = s.saved /\ t.saved = s.saved /\ t.tidx = 0 /\ ~t.sa
  BY <1>2, <1>3, Zenon DEF SameCore, SameRest
<1>5. Well(t)
  BY <1>4, Zenon DEF Well
<1>6. CASE "process" \in bad
  <2>1. ~ProcessesListed
    BY <1>6, Zenon DEF ProcessesListed
  <2>2. Told(t, {}) /\ Numbered(t) /\ Filed(t)
    BY <1>4, <2>1, Zenon DEF Told, Numbered, Filed
  <2>3. Good(t, {})
    BY <1>5, <2>2, Zenon DEF Good, Live
  <2> QED
    BY <1>1, <1>6, <2>1, <2>3, Zenon DEF Restored, w
<1>7. CASE "process" \notin bad
  <2>1. Live(c, {})
    BY <1>4, <1>5, CheckPersistenceDataKeeps, Zenon
  <2>2. DOMAIN c.tasks = {k \in DOMAIN s.saved : Lives(s.saved[k].pid)}
    BY <1>4, <1>5, CheckPersistenceDataKeeps, SMTT(30)
  <2>3. \A k \in DOMAIN c.tasks : c.tasks[k].suspended = s.saved[k].suspended
    BY <1>4, <1>5, CheckPersistenceDataKeeps
  <2> HIDE DEF c
  <2>4. Good(d, {}) /\ d.tasks = c.tasks
    BY <2>1, RefreshKeeps, Zenon
  <2> HIDE DEF d
  <2>5. SameCore(d, e)
    BY <2>4, GoodLive, LiveShape, SetState, Zenon DEF RestoreApplyRecord
  <2> HIDE DEF e
  <2>6. Good(e, {}) /\ e.tasks = c.tasks
    BY <2>4, <2>5, CoreKeeps, Zenon DEF Follows, SameCore
  <2>7. w = e
    BY <1>1, <1>7, Zenon
  <2> QED
    BY <2>2, <2>3, <2>6, <2>7, Zenon DEF Restored, w
<1> QED
  BY <1>6, <1>7, Zenon

-----------------------------------------------------------------------------
(* Starting a task.                                                        *)

\* The id of r is above those of the tasks.
Newer(s, r) ==
    ProcessesListed => r.id <= s.tidx /\ \A k \in DOMAIN s.tasks : s.tasks[k].id < r.id

\* The record that a request makes, with its id.
NumberedRecord(q, pid, mergeId, id) == [NewRecord(q, pid, mergeId) EXCEPT !.id = id]

\* It is a task with that id.
LEMMA NewRecordIsTask ==
    ASSUME NEW q \in Requests, NEW pid, NEW mergeId, NEW id \in Nat
    PROVE  /\ IsTask(NumberedRecord(q, pid, mergeId, id))
           /\ NumberedRecord(q, pid, mergeId, id).id = id
<1> DEFINE n == NewRecord(q, pid, mergeId)
           r == [n EXCEPT !.id = id]
<1>1. q.uid \in Uids
  BY TaskAssumption, Zenon DEF Request
<1>2. n = [f \in TaskFields |-> n[f]] /\ n.uid = q.uid
  BY Zenon DEF NewRecord, TaskFields
<1> HIDE DEF n
<1>3. r = [f \in TaskFields |-> r[f]] /\ r.uid = n.uid /\ r.id = id
  BY <1>2, Zenon DEF TaskFields
<1> HIDE DEF r
<1>4. IsTask(r) /\ r.id = id
  BY <1>1, <1>2, <1>3, Zenon DEF IsTask
<1> QED
  BY <1>4, Zenon DEF NumberedRecord, n, r

\* A task with a new key and a new id is put into the map and told.
LEMMA AddKeeps ==
    ASSUME NEW s, NEW U, Live(s, U), NEW r, IsTask(r), Key(r) \notin DOMAIN s.tasks, Newer(s, r)
    PROVE  Live(OnContinuousTaskChanged(Put(s, r), r, "START"), U)
<1> DEFINE k == Key(r)
           f == [j \in DOMAIN s.tasks \cup {k} |-> IF j = k THEN r ELSE s.tasks[j]]
           p == Put(s, r)
           t == NotifySubscribersTaskStart(p, r)
<1>1. IsState(s) /\ IsMap(s.tasks) /\ IsMap(s.saved) /\ s.tidx \in Nat /\ Told(s, U) /\ Numbered(s)
  BY Zenon DEF Live, Well
<1>2. SameRest(s, p) /\ p.tasks = f
  BY <1>1, SetTasks, Zenon DEF Put
<1>3. /\ DOMAIN f = DOMAIN s.tasks \cup {k} /\ f = [j \in DOMAIN f |-> f[j]] /\ f[k] = r
      /\ \A j \in DOMAIN s.tasks : j # k /\ f[j] = s.tasks[j]
  BY Zenon
<1>4. OnContinuousTaskChanged(Put(s, r), r, "START") = t
  BY Changed, Zenon
<1> HIDE DEF f, p
<1>5. SameTasks(p, t) /\ (p.sa => t.heard = p.heard \cup {k} /\ t.busy = p.busy \cup {r.uid})
  BY <1>2, NotifyStart, Zenon DEF SameRest
<1>6. k[1] = r.uid
  BY Zenon DEF Key
<1> HIDE DEF k, t
<1>7. IsMap(f)
  <2>1. IsFiniteSet(DOMAIN f)
    <3>1. IsFiniteSet(DOMAIN s.tasks)
      BY <1>1, Zenon DEF IsMap
    <3> QED
      BY <1>3, <3>1, FS_AddElement
  <2>2. \A j \in DOMAIN f : IsTask(f[j]) /\ Key(f[j]) = j
    <3>1. \A j \in DOMAIN s.tasks : IsTask(s.tasks[j]) /\ Key(s.tasks[j]) = j
      BY <1>1, Zenon DEF IsMap
    <3>2. \A j \in DOMAIN f : j = k \/ j \in DOMAIN s.tasks
      BY <1>3, Zenon
    <3> QED
      BY <1>3, <3>1, <3>2, Zenon DEF k
  <2> QED
    BY <1>3, <2>1, <2>2, Zenon DEF IsMap
<1>8. t.tasks = f /\ t.tidx = s.tidx
  BY <1>2, <1>5, Zenon DEF SameTasks, SameRest
<1>9. Well(t)
  BY <1>1, <1>2, <1>5, <1>7, <1>8, ZenonT(30) DEF Well, SameTasks, SameRest
<1>10. Told(t, U)
  <2>1. SUFFICES ASSUME t.sa PROVE
                 /\ \A j \in DOMAIN f : ~f[j].suspended => j \in t.heard
                 /\ t.heard \subseteq DOMAIN f
                 /\ Owners(f) \subseteq t.busy
                 /\ t.busy \subseteq Owners(f) \cup U
    BY <1>8, Zenon DEF Told
  <2>2. s.sa /\ t.heard = s.heard \cup {k} /\ t.busy = s.busy \cup {r.uid}
    BY <1>2, <1>5, <2>1, Zenon DEF SameTasks, SameRest
  <2>3. Owners(f) = Owners(s.tasks) \cup {r.uid}
    BY <1>3, <1>6 DEF Owners
  <2>4. /\ \A j \in DOMAIN s.tasks : ~s.tasks[j].suspended => j \in s.heard
        /\ s.heard \subseteq DOMAIN s.tasks
        /\ Owners(s.tasks) \subseteq s.busy
        /\ s.busy \subseteq Owners(s.tasks) \cup U
    BY <1>1, <2>2, Zenon DEF Told
  <2>5. \A j \in DOMAIN f : ~f[j].suspended => j \in t.heard
    BY <1>3, <2>2, <2>4, Zenon
  <2> QED
    BY <1>3, <2>2, <2>3, <2>4, <2>5, SMTT(30)
<1>11. Numbered(t)
  <2>1. SUFFICES ASSUME ProcessesListed
                 PROVE  IdsUnique(f) /\ \A j \in DOMAIN f : f[j].id <= s.tidx
    BY <1>8, Zenon DEF Numbered
  <2>2. IdsUnique(s.tasks) /\ \A j \in DOMAIN s.tasks : s.tasks[j].id <= s.tidx
    BY <1>1, <2>1, Zenon DEF Numbered
  <2>3. r.id <= s.tidx /\ \A j \in DOMAIN s.tasks : s.tasks[j].id < r.id
    BY <2>1, Zenon DEF Newer
  <2>4. \A j \in DOMAIN f : f[j].id <= s.tidx
    BY <1>3, <2>2, <2>3, Zenon
  <2>5. \A j \in DOMAIN s.tasks : s.tasks[j].id # r.id
    <3>1. r.id \in Nat /\ \A j \in DOMAIN s.tasks : s.tasks[j].id \in Nat
      BY <1>1, Zenon DEF IsMap, IsTask
    <3>2. ASSUME NEW x \in Nat, NEW y \in Nat, x < y PROVE x # y
      BY <3>2
    <3> QED
      BY <2>3, <3>1, <3>2, Zenon
  <2>6. ASSUME NEW i \in DOMAIN f, NEW j \in DOMAIN f, f[i].id = f[j].id PROVE i = j
    <3>1. CASE i = k /\ j = k
      BY <3>1, Zenon
    <3>2. CASE i = k /\ j \in DOMAIN s.tasks
      BY <1>3, <2>5, <2>6, <3>2, Zenon
    <3>3. CASE i \in DOMAIN s.tasks /\ j = k
      BY <1>3, <2>5, <2>6, <3>3, Zenon
    <3>4. CASE i \in DOMAIN s.tasks /\ j \in DOMAIN s.tasks
      BY <1>3, <2>2, <2>6, <3>4, Zenon DEF IdsUnique
    <3> QED
      BY <1>3, <3>1, <3>2, <3>3, <3>4, SMTT(30)
  <2> QED
    BY <2>4, <2>6, Zenon DEF IdsUnique
<1> QED
  BY <1>4, <1>9, <1>10, <1>11, Zenon DEF Live

\* The result m of making a notification for the new task r.
Prepared(s, U, r, m) ==
    Good(m.s, U) /\ DOMAIN m.s.tasks = DOMAIN s.tasks /\ SameTask(r, m.r) /\ Newer(m.s, m.r)

\* A new record that was shown may be added.
LEMMA ShowsPrepared ==
    ASSUME NEW s, NEW U, Good(s, U), NEW r, Newer(s, r), NEW m, SameCore(s, m.s), SameTask(r, m.r)
    PROVE  Prepared(s, U, r, m)
<1>1. Good(m.s, U) /\ DOMAIN m.s.tasks = DOMAIN s.tasks
  BY CoreKeeps, Zenon DEF Follows
<1>2. Newer(m.s, m.r)
  BY Zenon DEF SameCore, SameTask, Newer
<1> QED
  BY <1>1, <1>2, Zenon DEF Prepared

\* A new record that shares a notification may be added.
LEMMA SharePrepared ==
    ASSUME NEW s, NEW U, Good(s, U), NEW r, IsTask(r), Newer(s, r),
           DetermineMatchCombinedTaskNotifacation(s, r) # {}
    PROVE  Prepared(s, U, r, ShareNotification(s, r))
<1> DEFINE K == DetermineMatchCombinedTaskNotifacation(s, r)
           k == CHOOSE k \in K : TRUE
           t == s.tasks[k]
           q == [t EXCEPT !.combinedId = r.combinedId]
           p == Put(s, q)
           u == [p EXCEPT !.shared = @ \cup {t.nid}]
           n == [r EXCEPT !.nid = t.nid, !.label = t.label]
           m == ShareNotification(s, r)
<1>1. m = [s |-> u, r |-> n, ok |-> TRUE]
  BY ZenonT(40) DEF ShareNotification
<1>2. k \in DOMAIN s.tasks
  <2>1. \E j \in K : TRUE
    BY Zenon
  <2>2. k \in K
    BY <2>1, Zenon
  <2> QED
    BY <2>2, Zenon DEF DetermineMatchCombinedTaskNotifacation, TasksOf
<1>3. SameTask(r, n)
  <2> HIDE DEF k
  <2> QED
    BY Zenon DEF SameTask, IsTask, TaskFields
<1> HIDE DEF k, n, m
<1>4. Live(s, U) /\ IsTask(t) /\ Key(t) = k /\ Well(s)
  BY <1>2, GoodLive, LiveShape, Zenon DEF Live
<1>5. SameTask(t, q) /\ Key(q) = Key(t) /\ IsTask(q) /\ q.id = t.id
  <2>1. SameTask(t, q)
    BY <1>4, SetFields, Zenon
  <2> HIDE DEF q, t
  <2> QED
    BY <2>1, SameKey, Zenon DEF SameTask
<1> HIDE DEF q
<1>6. Follows(s, p, U)
  BY <1>2, <1>4, <1>5, PutKeeps, Zenon
<1>7. Replaces(s, p, k, q)
  BY <1>2, <1>4, <1>5, PutReplaces, Zenon
<1> HIDE DEF p
<1>8. Good(p, U) /\ DOMAIN p.tasks = DOMAIN s.tasks /\ IsState(p)
  BY <1>6, GoodLive, LiveShape, Zenon DEF Follows
<1>9. SameCore(p, u)
  BY <1>8, SetState, Zenon
<1> HIDE DEF u
<1>10. Newer(p, r)
  <2>1. p.tidx = s.tidx
    BY <1>7, Zenon DEF Replaces, SameRest
  <2>2. \A j \in DOMAIN s.tasks : p.tasks[j].id = s.tasks[j].id
    BY <1>5, <1>7, Zenon DEF Replaces
  <2> QED
    BY <1>8, <2>1, <2>2, Zenon DEF Newer
<1>11. SameCore(p, m.s) /\ SameTask(r, m.r)
  BY <1>1, <1>3, <1>9, Zenon
<1>12. Prepared(p, U, r, m)
  BY <1>8, <1>10, <1>11, ShowsPrepared, Zenon
<1> QED
  BY <1>8, <1>12, Zenon DEF Prepared, m

\* A task that is not in the map and has a new id.
LEMMA SubmitKeeps ==
    ASSUME NEW s, NEW U, Good(s, U), NEW r, IsTask(r), Key(r) \notin DOMAIN s.tasks, Newer(s, r), NEW bad
    PROVE  Good(StartBackgroundRunningSubmit(s, bad, r), U)
<1> DEFINE merge == CheckCombinedTaskNotification(s, r)
           m == IF ~merge.send THEN ShareNotification(s, r)
                ELSE IF ~r.inner \/ r.needNotif THEN Send(s, bad, r)
                ELSE [s |-> s, r |-> r, ok |-> TRUE]
           w == StartBackgroundRunningSubmit(s, bad, r)
           t == OnContinuousTaskChanged(Sent(m), m.r, "START")
<1>1. \/ w = s
      \/ w = m.s /\ merge.ok
      \/ w = RefreshTaskRecord(t) /\ merge.ok
  BY Zenon DEF StartBackgroundRunningSubmit
<1>2. ~merge.send /\ merge.ok => DetermineMatchCombinedTaskNotifacation(s, r) # {}
  BY Zenon DEF CheckCombinedTaskNotification
<1>3. IsState(s)
  BY GoodLive, LiveShape, Zenon
<1> HIDE DEF merge
<1>4. Prepared(s, U, r, [s |-> s, r |-> r, ok |-> TRUE])
  <2> DEFINE e == [s |-> s, r |-> r, ok |-> TRUE]
  <2>1. e.s = s /\ e.r = r
    BY Zenon
  <2> HIDE DEF e
  <2>2. SameCore(s, e.s) /\ SameTask(r, e.r)
    BY <1>3, <2>1, SameCoreSelf, SameTaskSelf, Zenon
  <2> QED
    BY <2>2, ShowsPrepared, Zenon DEF e
<1>5. Prepared(s, U, r, Send(s, bad, r))
  <2>1. Shows(s, r, Send(s, bad, r))
    BY <1>3, SendShows, Zenon
  <2> QED
    BY <2>1, ShowsPrepared, Zenon DEF Shows
<1>6. merge.ok => Prepared(s, U, r, m)
  BY <1>2, <1>4, <1>5, SharePrepared, Zenon
<1> HIDE DEF m, w
<1>7. ASSUME Prepared(s, U, r, m) PROVE Good(m.s, U) /\ Good(RefreshTaskRecord(t), U)
  <2>1. Good(m.s, U) /\ DOMAIN m.s.tasks = DOMAIN s.tasks /\ SameTask(r, m.r) /\ Newer(m.s, m.r)
    BY <1>7, Zenon DEF Prepared
  <2>2. IsTask(m.r) /\ Key(m.r) = Key(r)
    BY <2>1, SameKey, Zenon DEF SameTask
  <2>3. Live(m.s, U)
    BY <2>1, GoodLive, Zenon
  <2>4. Key(m.r) \notin DOMAIN m.s.tasks
    BY <2>1, <2>2, Zenon
  <2>5. Live(t, U)
    BY <2>1, <2>2, <2>3, <2>4, AddKeeps, Zenon DEF Sent
  <2> HIDE DEF t
  <2> QED
    BY <2>1, <2>5, RefreshKeeps, Zenon
<1> QED
  BY <1>1, <1>6, <1>7, Zenon DEF w

\* The id counts even when the task does not start.
LEMMA StartKeeps ==
    ASSUME NEW s, Good(s, {}), NEW q \in Requests, NEW pid, NEW mergeId, NEW bad
    PROVE  Good(StartBackgroundRunningInner(s, bad, NewRecord(q, pid, mergeId)), {})
<1> DEFINE n == NewRecord(q, pid, mergeId)
           id == s.tidx + 1
           r == [n EXCEPT !.id = id]
           t == [s EXCEPT !.tidx = @ + 1]
           u == IF ~r.inner \/ r.needNotif THEN SetCachedBundleInfo(t, bad, r) ELSE t
           w == StartBackgroundRunningInner(s, bad, n)
<1>1. \/ w = s
      \/ w = t
      \/ w = StartBackgroundRunningSubmit(u, bad, r) /\ Key(r) \notin DOMAIN s.tasks
  BY Zenon DEF StartBackgroundRunningInner
<1>2. IsState(s) /\ IsMap(s.tasks) /\ IsMap(s.saved) /\ s.tidx \in Nat
  BY Zenon DEF Good, Live, Well
<1>3. id \in Nat
  BY <1>2
<1>4. IsTask(r) /\ r.id = id
  <2> HIDE DEF id
  <2>1. r = NumberedRecord(q, pid, mergeId, id)
    BY Zenon DEF NumberedRecord
  <2> HIDE DEF r
  <2> QED
    BY <1>3, <2>1, NewRecordIsTask, Zenon
<1>5. /\ IsState(t) /\ t.tasks = s.tasks /\ t.saved = s.saved /\ t.tidx = id
      /\ t.sa = s.sa /\ t.heard = s.heard /\ t.busy = s.busy
  BY <1>2, ZenonT(30) DEF IsState, StateFields
<1>6. u = t \/ u = SetCachedBundleInfo(t, bad, r)
  BY Zenon
<1> HIDE DEF r, n, t, u, w
<1>7. ProcessesListed => \A k \in DOMAIN s.tasks : s.tasks[k].id < id /\ s.tasks[k].id <= id
  <2>1. \A k \in DOMAIN s.tasks : s.tasks[k].id \in Nat
    BY <1>2, Zenon DEF IsMap, IsTask
  <2>2. ProcessesListed => \A k \in DOMAIN s.tasks : s.tasks[k].id <= s.tidx
    BY Zenon DEF Good, Live, Numbered
  <2> QED
    BY <1>2, <2>1, <2>2
<1> HIDE DEF id
<1>8. Good(t, {})
  <2>1. Well(t)
    BY <1>2, <1>3, <1>5, Zenon DEF Well
  <2>2. Told(t, {})
    BY <1>5, Zenon DEF Good, Live, Told
  <2>3. Numbered(t)
    BY <1>5, <1>7, Zenon DEF Good, Live, Numbered
  <2>4. Filed(t)
    BY <1>5, Zenon DEF Good, Filed
  <2> QED
    BY <2>1, <2>2, <2>3, <2>4, Zenon DEF Good, Live
<1>9. SameCore(t, u)
  BY <1>5, <1>6, SetCachedCore, SameCoreSelf, Zenon
<1>10. Good(u, {}) /\ u.tasks = s.tasks /\ u.tidx = id
  BY <1>5, <1>8, <1>9, CoreKeeps, Zenon DEF Follows, SameCore
<1>11. Newer(u, r)
  <2>1. id <= id
    BY <1>3
  <2> QED
    BY <1>4, <1>7, <1>10, <2>1, Zenon DEF Newer
<1>12. Key(r) \notin DOMAIN s.tasks => Good(StartBackgroundRunningSubmit(u, bad, r), {})
  BY <1>4, <1>10, <1>11, SubmitKeeps, Zenon
<1> QED
  BY <1>1, <1>8, <1>12, Zenon DEF w, n

-----------------------------------------------------------------------------
(* The other requests.                                                     *)

\* An updated task is activated with those of its application.
LEMMA UpdatedKeeps ==
    ASSUME NEW s, Good(s, {}), NEW K, K \subseteq DOMAIN s.tasks, NEW order \in Orders(K),
           NEW bad, NEW r
    PROVE  Good(Updated(s, bad, order, r), {})
<1> DEFINE t == IF r.suspended THEN HandleActiveContinuousTask(s, bad, order) ELSE s
<1>1. Good(t, {})
  BY HandleActiveKeeps, Zenon
<1>2. Updated(s, bad, order, r) = RefreshTaskRecord(t)
  BY Changed, Zenon DEF Updated
<1> HIDE DEF t
<1> QED
  BY <1>1, <1>2, GoodLive, RefreshKeeps, Zenon

\* The record k of s, changed to r, is sent with the result m and goes back.
LEMMA SentUpdateKeeps ==
    ASSUME NEW s, Good(s, {}), NEW K, K \subseteq DOMAIN s.tasks, NEW order \in Orders(K),
           NEW bad, NEW k \in DOMAIN s.tasks, NEW r, SameTask(s.tasks[k], r), NEW m, Shows(s, r, m)
    PROVE  Good(IF m.ok THEN Updated(Sent(m), bad, order, m.r) ELSE Sent(m), {})
<1>1. Live(s, {})
  BY GoodLive, Zenon
<1>2. Follows(s, Sent(m), {})
  BY <1>1, SentKeeps, Zenon
<1>3. Good(Sent(m), {}) /\ DOMAIN Sent(m).tasks = DOMAIN s.tasks
  BY <1>2, Zenon DEF Follows
<1>4. Good(Updated(Sent(m), bad, order, m.r), {})
  BY <1>3, UpdatedKeeps, Zenon
<1> QED
  BY <1>3, <1>4, Zenon

\* The notification of an update leaves the tasks alone.
LEMMA UpdateTaskNotificationShows ==
    ASSUME NEW s, IsState(s), NEW bad, NEW r, IsTask(r), NEW q
    PROVE  \E n : SameTask(r, n) /\ Shows(s, n, UpdateTaskNotification(s, bad, r, q))
<1> DEFINE n == [r EXCEPT !.modes = q.modes, !.subModes = q.subModes]
           text == GetNotificationText(s, bad, n)
           p == IF text = "starting" THEN [n EXCEPT !.playing = FALSE] ELSE n
           m == UpdateTaskNotification(s, bad, r, q)
<1>1. \/ \E ok : m = [s |-> s, r |-> r, ok |-> ok]
      \/ \E ok : m = [s |-> s, r |-> n, ok |-> ok]
      \/ \E ok : m = [s |-> s, r |-> p, ok |-> ok]
      \/ m = SendContinuousTaskNotification(s, bad, p)
  BY Zenon DEF UpdateTaskNotification
<1>2. SameTask(r, n)
  BY SetFields, Zenon
<1> HIDE DEF n, text
<1>3. IsTask(n)
  BY <1>2, Zenon DEF SameTask
<1>4. SameTask(n, p)
  BY <1>3, SetFields, SameTaskSelf, Zenon
<1> HIDE DEF p, m
<1>5. SameTask(r, p) /\ IsTask(p) /\ SameTask(p, p) /\ SameTask(n, n) /\ SameTask(r, r)
  BY <1>2, <1>3, <1>4, SameTaskTrans, SameTaskSelf, Zenon DEF SameTask
<1>6. SameCore(s, s)
  BY SameCoreSelf, Zenon
<1>7. CASE \E ok : m = [s |-> s, r |-> r, ok |-> ok]
  BY <1>5, <1>6, <1>7, ShowsMade, Zenon DEF m
<1>8. CASE \E ok : m = [s |-> s, r |-> n, ok |-> ok]
  BY <1>2, <1>5, <1>6, <1>8, ShowsMade, ZenonT(30) DEF m
<1>9. CASE \E ok : m = [s |-> s, r |-> p, ok |-> ok]
  BY <1>5, <1>6, <1>9, ShowsMade, Zenon DEF m
<1>10. CASE m = SendContinuousTaskNotification(s, bad, p)
  BY <1>5, <1>10, SendContinuousShows, Zenon DEF m
<1> QED
  BY <1>1, <1>7, <1>8, <1>9, <1>10, Zenon

\* An update by the id of the task.
LEMMA UpdateByTaskIdKeeps ==
    ASSUME NEW s, Good(s, {}), NEW K, K \subseteq DOMAIN s.tasks, NEW order \in Orders(K),
           NEW bad, NEW uid, NEW k \in DOMAIN s.tasks, NEW q
    PROVE  Good(UpdateBackgroundRunningByTaskIdInner(s, bad, order, uid, k, q), {})
<1> DEFINE r == s.tasks[k]
           m == UpdateTaskNotification(s, bad, r, q)
           u == IF m.ok THEN Updated(Sent(m), bad, order, m.r) ELSE Sent(m)
           w == UpdateBackgroundRunningByTaskIdInner(s, bad, order, uid, k, q)
<1>1. w = s \/ w = u
  BY Zenon DEF UpdateBackgroundRunningByTaskIdInner, UpdateTaskInfo
<1>2. IsState(s) /\ IsTask(r)
  BY GoodLive, LiveShape, Zenon
<1>3. PICK n : SameTask(r, n) /\ Shows(s, n, m)
  BY <1>2, UpdateTaskNotificationShows, Zenon
<1> HIDE DEF m, w
<1>4. Good(u, {})
  BY <1>3, SentUpdateKeeps, Zenon
<1> HIDE DEF u
<1> QED
  BY <1>1, <1>4, Zenon DEF w

\* An update of the task of the caller's ability.
LEMMA UpdateInnerKeeps ==
    ASSUME NEW s, Good(s, {}), NEW K, K \subseteq DOMAIN s.tasks, NEW order \in Orders(K),
           NEW bad, NEW k \in DOMAIN s.tasks, NEW q
    PROVE  Good(UpdateBackgroundRunningInner(s, bad, order, k, q), {})
<1> DEFINE r == IF "BLUETOOTH_INTERACTION" \in q.modes THEN s.tasks[k]
                ELSE [s.tasks[k] EXCEPT !.subModes = {}]
           n == [r EXCEPT !.modes = q.modes]
           m == IF "DATA_TRANSFER" \in r.modes \cap q.modes THEN [s |-> s, r |-> n, ok |-> TRUE]
                ELSE SendContinuousTaskNotification(s, bad, n)
           u == IF m.ok THEN Updated(Sent(m), bad, order, m.r) ELSE Sent(m)
           w == UpdateBackgroundRunningInner(s, bad, order, k, q)
<1>1. w = s \/ w = Put(s, r) \/ w = u
  BY ZenonT(30) DEF UpdateBackgroundRunningInner
<1>2. Live(s, {}) /\ IsState(s) /\ IsTask(s.tasks[k])
  BY GoodLive, LiveShape, Zenon
<1>3. SameTask(s.tasks[k], r)
  BY <1>2, SetFields, SameTaskSelf, Zenon
<1> HIDE DEF r
<1>4. SameTask(r, n)
  <2>1. IsTask(r)
    BY <1>3, Zenon DEF SameTask
  <2> QED
    BY <2>1, SetFields, Zenon
<1> HIDE DEF n
<1>5. SameTask(s.tasks[k], n) /\ IsTask(n) /\ SameTask(n, n)
  BY <1>3, <1>4, SameTaskTrans, SameTaskSelf, ZenonT(30) DEF SameTask
<1>6. Shows(s, n, m)
  BY <1>2, <1>5, ShowsMade, SameCoreSelf, SendContinuousShows, ZenonT(30)
<1> HIDE DEF m, w
<1>7. Good(u, {})
  BY <1>5, <1>6, SentUpdateKeeps, Zenon
<1> HIDE DEF u
<1>8. Good(Put(s, r), {})
  BY <1>2, <1>3, PutKeeps, Zenon DEF Follows
<1> QED
  BY <1>1, <1>7, <1>8, Zenon DEF w

\* The progress of a transfer.
LEMMA UpdateProgressKeeps ==
    ASSUME NEW s, Good(s, {}), NEW bad, NEW k \in DOMAIN s.tasks
    PROVE  Good(UpdateDataTransferProgressInner(s, bad, k), {})
<1> DEFINE m == SendContinuousTaskNotification(s, bad, s.tasks[k])
           w == UpdateDataTransferProgressInner(s, bad, k)
<1>1. w = s \/ w = RefreshTaskRecord(Sent(m)) \/ w = Sent(m)
  BY Zenon DEF UpdateDataTransferProgressInner
<1>2. Live(s, {}) /\ IsState(s) /\ IsTask(s.tasks[k])
  BY GoodLive, LiveShape, Zenon
<1>3. Shows(s, s.tasks[k], m) /\ SameTask(s.tasks[k], s.tasks[k])
  BY <1>2, SendContinuousShows, SameTaskSelf, Zenon
<1> HIDE DEF m, w
<1>4. Follows(s, Sent(m), {})
  BY <1>2, <1>3, SentKeeps, Zenon
<1>5. Good(Sent(m), {}) /\ Good(RefreshTaskRecord(Sent(m)), {})
  BY <1>4, GoodLive, RefreshKeeps, Zenon DEF Follows
<1> QED
  BY <1>1, <1>5, Zenon DEF w

-----------------------------------------------------------------------------
(* The scheduler.                                                          *)

\* More uids may be taken for busy.
LEMMA GoodWider ==
    ASSUME NEW s, Good(s, {}), NEW V
    PROVE  Good(s, V)
<1>1. Told(s, V)
  BY Zenon DEF Good, Live, Told
<1> QED
  BY <1>1, Zenon DEF Good, Live

\* After the loop over tasks of uid its end is told.
LEMMA StopOfKeeps ==
    ASSUME NEW s, NEW uid, Good(s, {uid})
    PROVE  Good(HandleAppContinuousTaskStop(s, uid), {})
<1>1. {} \cup {uid} = {uid}
  BY Zenon
<1>2. Live(s, {} \cup {uid}) /\ Filed(s)
  BY <1>1, Zenon DEF Good
<1> QED
  BY <1>2, AppStopKeeps, Zenon DEF Good

\* The tasks of uid have uid in their key.
LEMMA TasksOfKeys ==
    ASSUME NEW s, NEW U, Good(s, U), NEW uid
    PROVE  TasksOf(s, uid) \subseteq DOMAIN s.tasks /\ \A k \in TasksOf(s, uid) : k[1] \in {uid}
<1>1. \A k \in DOMAIN s.tasks : k[1] = s.tasks[k].uid
  BY GoodLive, LiveShape, Zenon
<1> QED
  BY <1>1, Zenon DEF TasksOf

\* The scheduler removes tasks of an application.
LEMMA RemoveOfKeeps ==
    ASSUME NEW s, Good(s, {}), NEW uid, NEW K, K \subseteq TasksOf(s, uid), NEW bad
    PROVE  Good(HandleAppContinuousTaskStop(RemoveRecords(s, bad, K), uid), {})
<1>1. K \subseteq DOMAIN s.tasks /\ \A k \in K : k[1] \in {uid}
  <2>1. TasksOf(s, uid) \subseteq DOMAIN s.tasks /\ \A k \in TasksOf(s, uid) : k[1] \in {uid}
    BY TasksOfKeys, Zenon
  <2> QED
    BY <2>1, Zenon
<1>2. Good(s, {uid})
  BY GoodWider, Zenon
<1>3. Good(RemoveRecords(s, bad, K), {uid})
  BY <1>1, <1>2, RemoveRecordsKeeps, Zenon
<1> QED
  BY <1>3, StopOfKeeps, Zenon

\* HandleStopContinuousTask, by mode, by application or by record.
LEMMA HandleStopKeeps ==
    ASSUME NEW s, Good(s, {}), NEW bad, NEW uid, NEW taskType, NEW k
    PROVE  Good(HandleStopContinuousTask(s, bad, uid, taskType, k), {})
<1> DEFINE K == TasksOf(s, uid)
           M == {j \in K : taskType \in s.tasks[j].modes}
           w == HandleStopContinuousTask(s, bad, uid, taskType, k)
<1>1. \/ w = HandleAppContinuousTaskStop(RemoveRecords(s, bad, M), uid)
      \/ w = HandleAppContinuousTaskStop(RemoveRecords(s, bad, K), uid)
      \/ w = s
      \/ k \in DOMAIN s.tasks /\ w = StopBackgroundRunningByTask(s, bad, k).s
  BY Zenon DEF HandleStopContinuousTask, RemoveContinuousTaskRecordByUid,
     RemoveContinuousTaskRecordByUidAndMode
<1>2. M \subseteq K /\ K \subseteq K
  BY Zenon
<1> HIDE DEF M, w
<1>3. Good(HandleAppContinuousTaskStop(RemoveRecords(s, bad, M), uid), {})
  BY <1>2, RemoveOfKeeps, Zenon
<1>4. Good(HandleAppContinuousTaskStop(RemoveRecords(s, bad, K), uid), {})
  BY <1>2, RemoveOfKeeps, Zenon
<1>5. k \in DOMAIN s.tasks => Good(StopBackgroundRunningByTask(s, bad, k).s, {})
  BY StopKeeps, Zenon
<1> QED
  BY <1>1, <1>3, <1>4, <1>5, Zenon DEF w

\* A task is suspended, of whatever application.
LEMMA HandleSuspendKeeps ==
    ASSUME NEW s, Good(s, {}), NEW bad, NEW uid, NEW k
    PROVE  Good(HandleSuspendContinuousTask(s, bad, uid, k), {})
<1> DEFINE q == s.tasks[k]
           r == [q EXCEPT !.suspended = TRUE, !.standby = FALSE]
           t == RefreshTaskRecord(OnContinuousTaskChanged(Put(s, r), r, "SUSPEND"))
           u == IF r.uid = uid THEN t ELSE s
           v == WithdrawBoth(u, bad, s.tasks[k])
           w == HandleSuspendContinuousTask(s, bad, uid, k)
<1>0. w = IF k \notin DOMAIN s.tasks THEN s ELSE HandleAppContinuousTaskStop(v, uid)
  BY Zenon DEF HandleSuspendContinuousTask
<1> HIDE DEF w
<1>1. w = s \/ (k \in DOMAIN s.tasks /\ w = HandleAppContinuousTaskStop(v, uid))
  <2> HIDE DEF v
  <2> QED
    BY <1>0, Zenon
<1>2. ASSUME k \in DOMAIN s.tasks PROVE Good(HandleAppContinuousTaskStop(v, uid), {})
  <2>1. Live(s, {}) /\ IsTask(q) /\ Key(q) = k
    BY <1>2, GoodLive, LiveShape, Zenon
  <2>2. IsTask(r) /\ Key(r) = k /\ r.id = q.id /\ r.suspended
    <3>1. IsTask(r) /\ r.id = q.id /\ r.suspended /\ r.uid = q.uid /\ r.ability = q.ability /\ r.byReq = q.byReq
      <4> HIDE DEF q
      <4> QED
        BY <2>1, Zenon DEF IsTask, TaskFields
    <3> HIDE DEF r, q
    <3> QED
      BY <2>1, <3>1, Zenon DEF Key
  <2> HIDE DEF r
  <2>3. Live(OnContinuousTaskChanged(Put(s, r), r, "SUSPEND"), {})
    BY <1>2, <2>1, <2>2, SuspendKeeps, Zenon
  <2>4. Good(t, {})
    BY <2>3, RefreshKeeps, Zenon
  <2> HIDE DEF t
  <2>5. Good(u, {})
    BY <2>4, Zenon
  <2> HIDE DEF u
  <2>6. SameCore(u, v)
    BY <2>5, GoodLive, LiveShape, WithdrawBothCore, Zenon
  <2> HIDE DEF v
  <2>7. Good(v, {uid})
    BY <2>5, <2>6, CoreKeeps, GoodWider, Zenon DEF Follows
  <2> QED
    BY <2>7, StopOfKeeps, Zenon
<1> QED
  BY <1>1, <1>2, Zenon DEF w

\* A task goes on standby.
LEMMA HandleSuspendByStandbyKeeps ==
    ASSUME NEW s, Good(s, {}), NEW uid, NEW k
    PROVE  Good(HandleSuspendContinuousTaskByStandby(s, uid, k), {})
<1> DEFINE q == s.tasks[k]
           r == [q EXCEPT !.standby = TRUE, !.standbySuspend = TRUE]
           t == OnContinuousTaskChanged(Put(s, r), r, "SUSPEND")
           w == HandleSuspendContinuousTaskByStandby(s, uid, k)
<1>0. w = IF k \notin DOMAIN s.tasks THEN s
          ELSE IF s.tasks[k].uid # uid \/ s.tasks[k].suspended \/ s.tasks[k].standbySuspend THEN s
          ELSE RefreshTaskRecord(t)
  BY Zenon DEF HandleSuspendContinuousTaskByStandby
<1> HIDE DEF w
<1>1. w = s \/ (k \in DOMAIN s.tasks /\ w = RefreshTaskRecord(t))
  <2> HIDE DEF t
  <2> QED
    BY <1>0, Zenon
<1>2. ASSUME k \in DOMAIN s.tasks PROVE Good(RefreshTaskRecord(t), {})
  <2>1. Live(s, {}) /\ IsTask(q) /\ Key(q) = k
    BY <1>2, GoodLive, LiveShape, Zenon
  <2>2. SameTask(q, r) /\ r.standby
    <3> HIDE DEF q
    <3> QED
      BY <2>1, SetFields, Zenon DEF IsTask, TaskFields
  <2> HIDE DEF r
  <2>3. IsTask(r) /\ Key(r) = k /\ r.id = q.id /\ r.standby /\ r.suspended = q.suspended
    BY <2>1, <2>2, SameKey, Zenon DEF SameTask
  <2>4. Live(t, {})
    BY <1>2, <2>1, <2>3, SuspendKeeps, ZenonT(30)
  <2> HIDE DEF t
  <2> QED
    BY <2>4, RefreshKeeps, ZenonT(30)
<1> QED
  BY <1>1, <1>2, Zenon DEF w

\* SuspendContinuousTask, with a callback and without.
LEMMA SuspendTaskKeeps ==
    ASSUME NEW s, Good(s, {}), NEW bad, NEW uid, NEW k, NEW isStandby
    PROVE  Good(SuspendContinuousTask(s, bad, uid, k, isStandby), {})
<1>1. \/ SuspendContinuousTask(s, bad, uid, k, isStandby) = s
      \/ SuspendContinuousTask(s, bad, uid, k, isStandby) = HandleSuspendContinuousTaskByStandby(s, uid, k)
      \/ SuspendContinuousTask(s, bad, uid, k, isStandby) = HandleSuspendContinuousTask(s, bad, uid, k)
      \/ SuspendContinuousTask(s, bad, uid, k, isStandby) = HandleStopContinuousTask(s, bad, uid, "NONE", k)
  BY Zenon DEF SuspendContinuousTask
<1>2. /\ Good(HandleSuspendContinuousTaskByStandby(s, uid, k), {})
      /\ Good(HandleSuspendContinuousTask(s, bad, uid, k), {})
      /\ Good(HandleStopContinuousTask(s, bad, uid, "NONE", k), {})
  BY HandleSuspendByStandbyKeeps, HandleSuspendKeeps, HandleStopKeeps, Zenon
<1> QED
  BY <1>1, <1>2, Zenon

\* ActiveContinuousTask, for all tasks of an application.
LEMMA ActiveTaskKeeps ==
    ASSUME NEW s, Good(s, {}), NEW bad, NEW uid, NEW isStandby, NEW K, K \subseteq DOMAIN s.tasks,
           NEW order \in Orders(K)
    PROVE  Good(ActiveContinuousTask(s, bad, uid, order, isStandby), {})
<1> DEFINE J == {k \in TasksOf(s, uid) : s.tasks[k].standbySuspend}
           w == ActiveContinuousTask(s, bad, uid, order, isStandby)
<1>1. w = s \/ w = HandleActiveContinuousTask(s, bad, order) \/ w = ActivateByStandbyAll(s, J)
  BY Zenon DEF ActiveContinuousTask, HandleActiveContinuousTaskByStandby, ActivateByStandbyAll
<1>2. J \subseteq DOMAIN s.tasks
  BY Zenon DEF TasksOf
<1> HIDE DEF J, w
<1>3. Good(HandleActiveContinuousTask(s, bad, order), {}) /\ Good(ActivateByStandbyAll(s, J), {})
  BY <1>2, HandleActiveKeeps, ActivateByStandbyKeeps, Zenon
<1> QED
  BY <1>1, <1>3, Zenon DEF w

-----------------------------------------------------------------------------
(* Audio, sessions and live views.                                         *)

\* The audio tasks of an application are found silent.
LEMMA SuspendAudioTasksKeeps ==
    ASSUME NEW s, Good(s, {}), NEW bad, NEW uid
    PROVE  Good(HandleSuspendContinuousAudioTask(s, bad, uid), {})
<1> DEFINE K == {k \in TasksOf(s, uid) : "AUDIO_PLAYBACK" \in s.tasks[k].modes}
<1>1. HandleSuspendContinuousAudioTask(s, bad, uid)
          = HandleAppContinuousTaskStop(SuspendAudioAll(s, bad, K), uid)
  BY Zenon DEF HandleSuspendContinuousAudioTask, SuspendAudioAll
<1>2. K \subseteq DOMAIN s.tasks /\ \A k \in K : k[1] \in {uid}
  <2>1. TasksOf(s, uid) \subseteq DOMAIN s.tasks /\ \A k \in TasksOf(s, uid) : k[1] \in {uid}
    BY TasksOfKeys, Zenon
  <2> QED
    BY <2>1, Zenon
<1> HIDE DEF K
<1>3. Good(SuspendAudioAll(s, bad, K), {uid})
  BY <1>2, GoodWider, SuspendAudioKeeps, Zenon
<1> QED
  BY <1>1, <1>3, StopOfKeeps, Zenon

\* The delayed task of a session is removed.
LEMMA RemoveDelayCore ==
    ASSUME NEW s, Good(s, {}), NEW uid
    PROVE  /\ Good(RemoveAudioPlaybackDelayTask(s, uid), {})
           /\ RemoveAudioPlaybackDelayTask(s, uid).tasks = s.tasks
<1>1. IsState(s)
  BY GoodLive, LiveShape, Zenon
<1>2. SameCore(s, RemoveAudioPlaybackDelayTask(s, uid))
  BY <1>1, SetState, SameCoreSelf, Zenon DEF RemoveAudioPlaybackDelayTask
<1> QED
  BY <1>2, CoreKeeps, Zenon DEF Follows, SameCore

\* The first task of an application whose session changes.
LEMMA UpdateForAVSessionKeeps ==
    ASSUME NEW s, Good(s, {}), NEW bad, NEW k \in DOMAIN s.tasks, NEW isPublish
    PROVE  Good(UpdateForAVSession(s, bad, k, isPublish), {})
<1> DEFINE r == s.tasks[k]
           m == SendContinuousTaskNotification(s, bad, r)
           p == Put(s, [r EXCEPT !.playing = FALSE])
           w == UpdateForAVSession(s, bad, k, isPublish)
<1>1. \/ w = s \/ w = Put(s, [r EXCEPT !.detect = TRUE]) \/ w = RefreshTaskRecord(Sent(m))
      \/ w = HideNotification(s, bad, k) \/ w = RefreshTaskRecord(p) \/ w = RefreshTaskRecord(s)
  BY ZenonT(30) DEF UpdateForAVSession, HideNotification
<1>2. Live(s, {}) /\ IsState(s) /\ IsTask(r)
  BY GoodLive, LiveShape, Zenon
<1>3. SameTask(r, [r EXCEPT !.playing = FALSE]) /\ SameTask(r, [r EXCEPT !.detect = TRUE])
  BY <1>2, SetFields, Zenon
<1>4. Shows(s, r, m) /\ SameTask(r, r)
  BY <1>2, SendContinuousShows, SameTaskSelf, Zenon
<1> HIDE DEF m
<1>5. Live(Sent(m), {})
  BY <1>2, <1>4, SentKeeps, Zenon DEF Follows
<1>6. Good(Put(s, [r EXCEPT !.detect = TRUE]), {})
  BY <1>2, <1>3, PutKeeps, Zenon DEF Follows
<1>7. Live(p, {})
  BY <1>2, <1>3, PutKeeps, Zenon DEF Follows
<1>8. Good(HideNotification(s, bad, k), {})
  BY HideNotificationTurn, Zenon DEF Turned
<1> HIDE DEF p, w
<1>9. Good(RefreshTaskRecord(Sent(m)), {}) /\ Good(RefreshTaskRecord(p), {}) /\ Good(RefreshTaskRecord(s), {})
  BY <1>2, <1>5, <1>7, RefreshKeeps, Zenon
<1> QED
  BY <1>1, <1>6, <1>8, <1>9, Zenon DEF w

\* A session appears or has gone.
LEMMA AVSessionKeeps ==
    ASSUME NEW s, Good(s, {}), NEW bad, NEW uid, NEW isPublish,
           NEW k, TasksOf(s, uid) # {} => k \in DOMAIN s.tasks
    PROVE  Good(AVSessionNotifyUpdateNotificationInner(s, bad, uid, k, isPublish), {})
<1> DEFINE t == [s EXCEPT !.avs = IF isPublish THEN @ \cup {uid} ELSE @ \ {uid}]
           u == IF isPublish THEN RemoveAudioPlaybackDelayTask(t, uid) ELSE t
           v == IF TasksOf(s, uid) = {} THEN u ELSE UpdateForAVSession(u, bad, k, isPublish)
<1>1. AVSessionNotifyUpdateNotificationInner(s, bad, uid, k, isPublish) = RemoveAudioPlaybackDelayTask(v, uid)
  BY Zenon DEF AVSessionNotifyUpdateNotificationInner
<1>2. SameCore(s, t)
  BY GoodLive, LiveShape, SetState, Zenon
<1> HIDE DEF t
<1>3. Good(t, {}) /\ t.tasks = s.tasks
  BY <1>2, CoreKeeps, Zenon DEF Follows, SameCore
<1>4. Good(u, {}) /\ u.tasks = s.tasks
  BY <1>3, RemoveDelayCore, Zenon
<1> HIDE DEF u
<1>5. Good(v, {})
  BY <1>4, UpdateForAVSessionKeeps, Zenon
<1> HIDE DEF v
<1> QED
  BY <1>1, <1>5, RemoveDelayCore, Zenon

\* Playback begins.
LEMMA NotifyAudioStartKeeps ==
    ASSUME NEW s, Good(s, {}), NEW bad, NEW uid
    PROVE  Good(NotifyAudioStartInner(s, bad, uid), {})
<1> DEFINE K == {k \in TasksOf(s, uid) : ~s.tasks[k].playing /\ s.tasks[k].nid # NoId}
           w == NotifyAudioStartInner(s, bad, uid)
<1>1. w = s \/ w = RefreshTaskRecord(SetPlayingAll(s, K))
  BY Zenon DEF NotifyAudioStartInner, SetPlayingAll
<1>2. K \subseteq DOMAIN s.tasks
  BY Zenon DEF TasksOf
<1> HIDE DEF K, w
<1>3. Good(RefreshTaskRecord(SetPlayingAll(s, K)), {})
  BY <1>2, SetPlayingKeeps, GoodLive, RefreshKeeps, Zenon
<1> QED
  BY <1>1, <1>3, Zenon DEF w

\* The detection names tasks; the file is not written and need not be.
LEMMA DeteTaskKeeps ==
    ASSUME NEW s, Good(s, {}), NEW bad, NEW K
    PROVE  Good(SendNotificationByDeteTaskInner(s, bad, K), {})
<1>1. K \cap DOMAIN s.tasks \subseteq DOMAIN s.tasks
  BY Zenon
<1>2. SendNotificationByDeteTaskInner(s, bad, K) = ShowDetectedAll(s, bad, K \cap DOMAIN s.tasks)
  BY Zenon DEF SendNotificationByDeteTaskInner, ShowDetectedAll
<1> QED
  BY <1>1, <1>2, ShowDetectedKeeps, Zenon

\* The live view of an application appears or goes.
LEMMA LiveViewKeeps ==
    ASSUME NEW s, Good(s, {}), NEW bad, NEW uid, NEW shown
    PROVE  /\ Good(CancelBgTaskNotificationInner(SetLiveViewInfo(s, uid, shown), bad, uid), {})
           /\ Good(SendNotificationByLiveViewCancelInner(SetLiveViewInfo(s, uid, shown), bad, uid), {})
<1> DEFINE t == SetLiveViewInfo(s, uid, shown)
           K == {k \in TasksOf(t, uid) : t.tasks[k].nid # NoId /\ CheckLiveViewInfoModes(t.tasks[k])}
           J == {k \in TasksOf(t, uid) : t.tasks[k].nid = NoId}
<1>1. SameCore(s, t)
  BY GoodLive, LiveShape, SetState, Zenon DEF SetLiveViewInfo
<1> HIDE DEF t
<1>2. Good(t, {})
  BY <1>1, CoreKeeps, Zenon DEF Follows
<1>3. /\ CancelBgTaskNotificationInner(t, bad, uid) = HideNotificationAll(t, bad, K)
      /\ SendNotificationByLiveViewCancelInner(t, bad, uid) = ShowNotificationAll(t, bad, J)
  BY Zenon DEF CancelBgTaskNotificationInner, SendNotificationByLiveViewCancelInner,
     HideNotificationAll, ShowNotificationAll
<1>4. K \subseteq DOMAIN t.tasks /\ J \subseteq DOMAIN t.tasks
  BY Zenon DEF TasksOf
<1> HIDE DEF K, J
<1>5. Good(HideNotificationAll(t, bad, K), {}) /\ Good(ShowNotificationAll(t, bad, J), {})
  BY <1>2, <1>4, HideNotificationKeeps, ShowNotificationKeeps, Zenon
<1> QED
  BY <1>3, <1>5, Zenon DEF t

-----------------------------------------------------------------------------
(* The user, the application's life, bundles, accounts and subscribers.    *)

\* The user removes a notification: every task that shows it ends.
LEMMA StopByUserKeeps ==
    ASSUME NEW s, Good(s, {}), NEW bad, NEW k, NEW isSub
    PROVE  Good(StopContinuousTaskByUserInner(s, bad, k, isSub), {})
<1> DEFINE K == {j \in DOMAIN s.tasks : /\ s.tasks[j].nid = s.tasks[k].nid
                                        /\ s.tasks[j].label = s.tasks[k].label}
           w == StopContinuousTaskByUserInner(s, bad, k, isSub)
<1>1. w = s \/ w = EndShownAll(s, bad, isSub, K)
  BY Zenon DEF StopContinuousTaskByUserInner, EndShownAll
<1>2. K \subseteq DOMAIN s.tasks
  BY Zenon
<1> HIDE DEF K, w
<1>3. Good(EndShownAll(s, bad, isSub, K), {})
  BY <1>2, EndShownKeeps, Zenon
<1> QED
  BY <1>1, <1>3, Zenon DEF w

\* The tasks of an application end with it.
LEMMA AppStoppedKeeps ==
    ASSUME NEW s, Good(s, {}), NEW bad, NEW uid
    PROVE  Good(OnAppStopped(s, bad, uid), {})
<1>1. TasksOf(s, uid) \subseteq DOMAIN s.tasks
  BY Zenon DEF TasksOf
<1> QED
  BY <1>1, EndRecordsKeeps, Zenon DEF OnAppStopped

\* A bundle changes or its data is cleared.
LEMMA BundleInfoKeeps ==
    ASSUME NEW s, Good(s, {}), NEW bad, NEW uid, NEW action
    PROVE  Good(OnBundleInfoChanged(s, bad, uid, action), {})
<1> DEFINE t == [s EXCEPT !.cached = Restrict(@, DOMAIN @ \ {uid})]
           w == OnBundleInfoChanged(s, bad, uid, action)
<1>1. w = t \/ w = EndRecords(t, bad, TasksOf(s, uid), {"main"})
  BY Zenon DEF OnBundleInfoChanged
<1>2. SameCore(s, t)
  BY GoodLive, LiveShape, SetState, Zenon
<1> HIDE DEF t, w
<1>3. Good(t, {}) /\ t.tasks = s.tasks
  BY <1>2, CoreKeeps, Zenon DEF Follows, SameCore
<1>4. TasksOf(s, uid) \subseteq DOMAIN t.tasks
  BY <1>3, Zenon DEF TasksOf
<1>5. Good(EndRecords(t, bad, TasksOf(s, uid), {"main"}), {})
  BY <1>3, <1>4, EndRecordsKeeps, Zenon
<1> QED
  BY <1>1, <1>3, <1>5, Zenon DEF w

\* The tasks of accounts that are not active end.
LEMMA ClearAccountKeeps ==
    ASSUME NEW s, Good(s, {}), NEW bad, NEW V
    PROVE  Good(ClearBgOsAccountTask(s, bad, V), {})
<1> DEFINE K == {k \in DOMAIN s.tasks : s.tasks[k].uid \in V}
<1>1. K \subseteq DOMAIN s.tasks
  BY Zenon
<1>2. ClearBgOsAccountTask(s, bad, V) = EndRecords(s, bad, K, {"main"})
  BY Zenon DEF ClearBgOsAccountTask
<1> HIDE DEF K
<1> QED
  BY <1>1, <1>2, EndRecordsKeeps, Zenon

\* A system ability goes and the tasks it asked for end.
LEMMA RemoveByModeKeeps ==
    ASSUME NEW s, Good(s, {}), NEW bad, NEW mode
    PROVE  Good(HandleRemoveTaskByMode(s, bad, mode), {})
<1> DEFINE K == {k \in DOMAIN s.tasks : s.tasks[k].inner /\ mode \in s.tasks[k].modes}
<1>1. K \subseteq DOMAIN s.tasks
  BY Zenon
<1>2. HandleRemoveTaskByMode(s, bad, mode) = RemoveInnerAll(s, bad, K)
  BY Zenon DEF HandleRemoveTaskByMode, RemoveInnerAll
<1> HIDE DEF K
<1> QED
  BY <1>1, <1>2, RemoveInnerKeeps, Zenon

\* The language changes.
LEMMA BundleResourcesKeeps ==
    ASSUME NEW s, Good(s, {}), NEW bad, NEW texts
    PROVE  Good(OnBundleResourcesChangedInner(s, bad, texts), {})
<1> DEFINE t == [s EXCEPT !.texts = texts, !.cached = Restrict(@, {})]
           P == {k \in DOMAIN s.tasks :
                     s.tasks[k].subNid = NoId /\ "DATA_TRANSFER" \notin s.tasks[k].modes}
           K == {k \in P : GetNotificationText(t, bad, s.tasks[k]) = "starting"}
<1>1. OnBundleResourcesChangedInner(s, bad, texts) = SetSilentAll(t, K)
  BY Zenon DEF OnBundleResourcesChangedInner, SetSilentAll
<1>2. SameCore(s, t)
  BY GoodLive, LiveShape, SetState, Zenon
<1>3. K \subseteq DOMAIN s.tasks
  <2> HIDE DEF t
  <2> QED
    BY Zenon
<1> HIDE DEF t, K
<1>4. Good(t, {}) /\ t.tasks = s.tasks
  BY <1>2, CoreKeeps, Zenon DEF Follows, SameCore
<1> QED
  BY <1>1, <1>3, <1>4, SetSilentKeeps, Zenon

\* What an application or a system ability asks to be told, and where an application
\* is, changes none of the tasks.
LEMMA LifeCore ==
    ASSUME NEW s, IsState(s), NEW uid, NEW flags, NEW foreground
    PROVE  /\ SameCore(s, AddSubscriberInner(s, uid, flags))
           /\ SameCore(s, RemoveSubscriberInner(s, uid, flags))
           /\ SameCore(s, OnRemoteSubscriberDiedInner(s, uid))
           /\ SameCore(s, OnAppStateChanged(s, uid, foreground))
           /\ SameCore(s, AVSessionNotifyUpdateNotification(s, uid))
<1>1. SameCore(s, AddSubscriberInner(s, uid, flags))
  BY SetState, Zenon DEF AddSubscriberInner
<1>2. SameCore(s, RemoveSubscriberInner(s, uid, flags))
  BY SetState, Zenon DEF RemoveSubscriberInner
<1>3. SameCore(s, OnRemoteSubscriberDiedInner(s, uid))
  BY SetState, Zenon DEF OnRemoteSubscriberDiedInner
<1>4. SameCore(s, OnAppStateChanged(s, uid, foreground))
  BY SetState, Zenon DEF OnAppStateChanged
<1>5. SameCore(s, AVSessionNotifyUpdateNotification(s, uid))
  BY SetState, Zenon DEF AVSessionNotifyUpdateNotification
<1> QED
  BY <1>1, <1>2, <1>3, <1>4, <1>5, ZenonT(30)

\* A system ability that subscribes is given the tasks that run.
LEMMA SubscribeKeeps ==
    ASSUME NEW s, Good(s, {})
    PROVE  Good([s EXCEPT !.sa = TRUE, !.heard = GetContinuousTaskAppsInner(s, Uids, FALSE),
                          !.busy = {k[1] : k \in GetContinuousTaskAppsInner(s, Uids, TRUE)}], {})
<1> DEFINE H == GetContinuousTaskAppsInner(s, Uids, FALSE)
           B == {k[1] : k \in GetContinuousTaskAppsInner(s, Uids, TRUE)}
           t == [s EXCEPT !.sa = TRUE, !.heard = H, !.busy = B]
<1>1. H = {k \in DOMAIN s.tasks : ~s.tasks[k].suspended} /\ B = Owners(s.tasks)
  <2>1. \A k \in DOMAIN s.tasks : s.tasks[k].uid \in Uids
    BY GoodLive, LiveShape, Zenon DEF IsTask
  <2> QED
    BY <2>1, Zenon DEF GetContinuousTaskAppsInner, Owners
<1> HIDE DEF H, B
<1>2. /\ IsState(t) /\ t.tasks = s.tasks /\ t.saved = s.saved /\ t.tidx = s.tidx
      /\ t.sa = TRUE /\ t.heard = H /\ t.busy = B
  <2>1. IsState(s)
    BY GoodLive, LiveShape, Zenon
  <2> QED
    BY <2>1, ZenonT(30) DEF IsState, StateFields
<1> HIDE DEF t
<1>3. Told(t, {})
  BY <1>1, <1>2, Zenon DEF Told
<1>4. Well(t) /\ Filed(t) /\ Numbered(t)
  BY <1>2 DEF Good, Live, Well, Filed, Numbered
<1> QED
  BY <1>3, <1>4, Zenon DEF Good, Live, t, H, B

-----------------------------------------------------------------------------
(* The inductive invariant.                                                *)

\* The tasks b that the service had are in the file.
Kept(s, b) ==
    /\ DOMAIN b = DOMAIN s.saved
    /\ \A k \in DOMAIN b : b[k].suspended = s.saved[k].suspended /\ b[k].pid = s.saved[k].pid

\* While the service is not ready it has no tasks and no subscriber, and its file
\* has the tasks it had.
Asleep(s, b) == DOMAIN s.tasks = {} /\ ~s.sa /\ s.tidx = 0 /\ Kept(s, b)

Sound(s, p, b) ==
    /\ Well(s)
    /\ p = "ready" => Good(s, {})
    /\ p # "ready" => Asleep(s, b)
    /\ ProcessesListed => IdsUnique(s.saved)

IndInv == Sound(mgr, phase, before)

\* After an operation of the service that is ready.
LEMMA AwakeSound ==
    ASSUME NEW s, Good(s, {}), NEW b
    PROVE  Sound(s, "ready", b)
<1>1. Well(s) /\ Filed(s) /\ Numbered(s)
  BY Zenon DEF Good, Live
<1>2. ProcessesListed => IdsUnique(s.saved)
  BY <1>1, Zenon DEF Filed, Numbered, IdsUnique
<1> QED
  BY <1>1, <1>2, Zenon DEF Sound

\* After a step that leaves tasks, file and subscriber alone.
LEMMA CoreSound ==
    ASSUME NEW s, NEW t, NEW p, NEW b, Sound(s, p, b), SameCore(s, t)
    PROVE  Sound(t, p, b)
<1>1. Well(t) /\ (Good(s, {}) => Good(t, {}))
  BY CoreKeeps, Zenon DEF Sound, Follows
<1>2. Asleep(s, b) => Asleep(t, b)
  BY Zenon DEF SameCore, Asleep, Kept
<1>3. ProcessesListed => IdsUnique(t.saved)
  BY Zenon DEF Sound, SameCore
<1> QED
  BY <1>1, <1>2, <1>3, Zenon DEF Sound

\* A step of the service that is ready.
LEMMA OnlyKeeps ==
    ASSUME NEW m, Good(m, {}), Ready, Only(m)
    PROVE  IndInv'
<1>1. Sound(m, "ready", before)
  BY AwakeSound, Zenon
<1> QED
  BY <1>1, Zenon DEF IndInv, Only, Ready

\* What the invariant says of a service that is ready.
LEMMA AwakeGood ==
    ASSUME IndInv, Ready
    PROVE  Good(mgr, {})
BY Zenon DEF IndInv, Sound, Ready

\* The state of the manager has its fields.
LEMMA InvShape ==
    ASSUME IndInv
    PROVE  IsState(mgr)
BY Zenon DEF IndInv, Sound, Well

\* A step that leaves tasks, file and subscriber alone.
LEMMA CoreStep ==
    ASSUME IndInv, SameCore(mgr, mgr'), phase' = phase, before' = before
    PROVE  IndInv'
<1>1. Sound(mgr', phase, before)
  BY CoreSound, Zenon DEF IndInv
<1> QED
  BY <1>1, Zenon DEF IndInv

\* The service has not run yet.
LEMMA InitSound ==
    ASSUME Init
    PROVE  IndInv
<1>1. DOMAIN NoTasks = {} /\ NoTasks = [k \in DOMAIN NoTasks |-> NoTasks[k]]
  BY Zenon DEF NoTasks
<1>2. IsMap(NoTasks)
  <2> HIDE DEF NoTasks
  <2> QED
    BY <1>1, FS_EmptySet, Zenon DEF IsMap
<1>3. IsState(mgr)
  BY Zenon DEF Init, IsState, StateFields
<1>4. mgr.tasks = NoTasks /\ mgr.saved = NoTasks /\ mgr.tidx = 0 /\ mgr.sa = FALSE
  BY Zenon DEF Init
<1>5. Well(mgr)
  BY <1>2, <1>3, <1>4, SMTT(30) DEF Well
<1>6. Kept(mgr, before)
  BY <1>1, <1>4, Zenon DEF Init, Kept
<1>7. IdsUnique(mgr.saved)
  BY <1>1, <1>4, Zenon DEF IdsUnique
<1> QED
  BY <1>1, <1>4, <1>5, <1>6, <1>7, Zenon DEF Init, IndInv, Sound, Asleep

-----------------------------------------------------------------------------
(* Every step keeps it.                                                    *)

\* The memory of the service goes, its file stays.
LEMMA FreshAsleep ==
    ASSUME NEW s, Well(s)
    PROVE  /\ Well(Fresh(s)) /\ DOMAIN Fresh(s).tasks = {} /\ ~Fresh(s).sa
           /\ Fresh(s).tidx = 0 /\ Fresh(s).saved = s.saved
<1> DEFINE t == Fresh(s)
<1>1. IsState(s)
  BY Zenon DEF Well
<1>2. IsState(t) /\ t.tasks = Restrict(s.tasks, {}) /\ t.saved = s.saved /\ t.tidx = 0 /\ t.sa = FALSE
  <2> DEFINE a == Restrict(s.tasks, {})
             c == Restrict(s.cached, {})
             e == [u \in Uids |-> {}]
             w == [s EXCEPT !.tasks = a, !.tidx = 0, !.nidx = NoId, !.texts = "none",
                            !.cached = c, !.avs = {}, !.live = {}, !.fore = {},
                            !.applied = e, !.prelaunch = {}, !.disabled = {}, !.hap = e,
                            !.delay = {}, !.late = {}, !.sa = FALSE, !.heard = {}, !.busy = {}]
  <2>1. t = w
    BY Zenon DEF Fresh
  <2> HIDE DEF t, a, c, e
  <2>2. IsState(w)
    BY <1>1, ZenonT(30) DEF IsState, StateFields
  <2>3. w.tasks = a /\ w.saved = s.saved
    BY <1>1, ZenonT(30) DEF IsState, StateFields
  <2>4. w.tidx = 0 /\ w.sa = FALSE
    BY <1>1, ZenonT(30) DEF IsState, StateFields
  <2> HIDE DEF w
  <2> QED
    BY <2>1, <2>2, <2>3, <2>4, ZenonT(30) DEF a
<1> HIDE DEF t
<1>3. DOMAIN t.tasks = {} /\ t.tasks = [k \in DOMAIN t.tasks |-> t.tasks[k]]
  BY <1>2, Zenon DEF Restrict
<1>4. IsMap(t.tasks)
  BY <1>3, FS_EmptySet, Zenon DEF IsMap
<1>5. Well(t)
  BY <1>2, <1>4 DEF Well
<1> QED
  BY <1>2, <1>3, <1>5, Zenon DEF t

\* Start, InitNecessaryState and Crash.
LEMMA RestartingKeeps ==
    ASSUME IndInv, Restarting
    PROVE  IndInv'
<1>1. CASE Start
  <2>1. phase # "ready" /\ phase' # "ready" /\ mgr' = mgr /\ before' = before
    BY <1>1, Zenon DEF Start
  <2> QED
    BY <2>1, Zenon DEF IndInv, Sound
<1>2. CASE InitNecessaryState
  <2>1. phase # "ready" /\ before' = before
    BY <1>2, Zenon DEF InitNecessaryState
  <2>2. CASE phase' = "failed" /\ mgr' = mgr
    <3>1. phase' # "ready"
      BY <2>2, Zenon
    <3> QED
      BY <2>1, <2>2, <3>1, Zenon DEF IndInv, Sound
  <2>3. CASE /\ phase' = "ready"
             /\ \E bad \in Faults : \E order \in Orders(DOMAIN mgr.saved), texts \in Texts :
                    mgr' = InitRequiredResourceInfo(mgr, bad, order, texts)
    <3>1. Well(mgr) /\ ~mgr.sa /\ mgr.tidx = 0 /\ (ProcessesListed => IdsUnique(mgr.saved))
      BY <2>1, Zenon DEF IndInv, Sound, Asleep
    <3>2. Good(mgr', {})
      BY <2>3, <3>1, RestoreKeeps, Zenon DEF Restored
    <3> QED
      BY <2>3, <3>2, AwakeSound, Zenon DEF IndInv
  <2> QED
    BY <1>2, <2>2, <2>3, Zenon DEF InitNecessaryState
<1>3. CASE Crash
  <2>1. phase' # "ready" /\ mgr' = Fresh(mgr) /\ before' = IF Ready THEN mgr.tasks ELSE before
    BY <1>3, Zenon DEF Crash
  <2>2. Well(mgr) /\ (ProcessesListed => IdsUnique(mgr.saved))
    BY Zenon DEF IndInv, Sound
  <2>3. Kept(mgr, before')
    <3>1. CASE Ready
      BY <2>1, <3>1, AwakeGood, Zenon DEF Good, Filed, Kept
    <3>2. CASE ~Ready
      BY <2>1, <3>2, Zenon DEF IndInv, Sound, Asleep, Ready
    <3> QED
      BY <3>1, <3>2, ZenonT(30)
  <2>4. /\ Well(mgr') /\ DOMAIN mgr'.tasks = {} /\ ~mgr'.sa /\ mgr'.tidx = 0
        /\ mgr'.saved = mgr.saved
    BY <2>1, <2>2, FreshAsleep, Zenon
  <2>5. Kept(mgr', before')
    BY <2>3, <2>4, Zenon DEF Kept
  <2> QED
    BY <2>1, <2>2, <2>4, <2>5, ZenonT(30) DEF IndInv, Sound, Asleep
<1> QED
  BY <1>1, <1>2, <1>3, Zenon DEF Restarting

\* The requests of applications and system abilities.
LEMMA RequestingKeeps ==
    ASSUME IndInv, Requesting
    PROVE  IndInv'
<1>1. CASE StartBackgroundRunning
  <2>1. Ready /\ \E q \in Requests, bad \in Faults : \E mergeId :
            Only(StartBackgroundRunningInner(mgr, bad, NewRecord(q, PidOf(q.uid), mergeId)))
    BY <1>1, Zenon DEF StartBackgroundRunning
  <2> QED
    BY <2>1, AwakeGood, StartKeeps, OnlyKeeps, ZenonT(30)
<1>2. CASE StartBackgroundRunningForInner
  <2>1. Ready /\ \E q \in Requests, bad \in Faults :
            Only(StartBackgroundRunningInner(mgr, bad, NewRecord(q, PidOf(q.uid), NoId)))
    BY <1>2, Zenon DEF StartBackgroundRunningForInner
  <2> QED
    BY <2>1, AwakeGood, StartKeeps, OnlyKeeps, Zenon
<1>3. CASE UpdateBackgroundRunning
  <2>0. PICK q \in Requests, k \in DOMAIN mgr.tasks, bad \in Faults :
            Ready /\ \E order \in OrdersOf(k[1]) :
               \/ Only(UpdateBackgroundRunningByTaskIdInner(mgr, bad, order, q.uid, k, q))
               \/ Only(UpdateBackgroundRunningInner(mgr, bad, order, k, q))
    BY <1>3, Zenon DEF UpdateBackgroundRunning
  <2>1. PICK order \in OrdersOf(k[1]) :
            /\ Ready
            /\ \/ Only(UpdateBackgroundRunningByTaskIdInner(mgr, bad, order, q.uid, k, q))
               \/ Only(UpdateBackgroundRunningInner(mgr, bad, order, k, q))
    BY <2>0, Zenon
  <2>2. SuspendedOf(mgr, k[1]) \subseteq DOMAIN mgr.tasks
    BY Zenon DEF SuspendedOf, TasksOf
  <2>3. order \in Orders(SuspendedOf(mgr, k[1]))
    BY Zenon DEF OrdersOf
  <2>4. /\ Good(UpdateBackgroundRunningByTaskIdInner(mgr, bad, order, q.uid, k, q), {})
        /\ Good(UpdateBackgroundRunningInner(mgr, bad, order, k, q), {})
    BY <2>1, <2>2, <2>3, AwakeGood, UpdateByTaskIdKeeps, UpdateInnerKeeps, ZenonT(30)
  <2> QED
    BY <2>1, <2>4, OnlyKeeps, Zenon
<1>4. CASE UpdateDataTransferProgress
  BY <1>4, AwakeGood, UpdateProgressKeeps, OnlyKeeps, Zenon DEF UpdateDataTransferProgress
<1>5. CASE StopBackgroundRunning
  <2>1. PICK uid \in Uids, ability \in Abilities, bad \in Faults :
            /\ Ready
            /\ \/ \E k \in DOMAIN mgr.tasks : Only(StopBackgroundRunningByTask(mgr, bad, k).s)
               \/ \E order \in Orders(TasksOfAbility(mgr, uid, ability)) :
                      Only(StopBackgroundRunningByContext(mgr, bad, order))
    BY <1>5, Zenon DEF StopBackgroundRunning, StopBackgroundRunningInner
  <2>2. TasksOfAbility(mgr, uid, ability) \subseteq DOMAIN mgr.tasks
    BY Zenon DEF TasksOfAbility, TasksOf
  <2>3. CASE \E k \in DOMAIN mgr.tasks : Only(StopBackgroundRunningByTask(mgr, bad, k).s)
    BY <2>1, <2>3, AwakeGood, StopKeeps, OnlyKeeps, ZenonT(30)
  <2>4. CASE \E order \in Orders(TasksOfAbility(mgr, uid, ability)) :
                 Only(StopBackgroundRunningByContext(mgr, bad, order))
    BY <2>1, <2>2, <2>4, AwakeGood, StopByContextKeeps, OnlyKeeps, ZenonT(30)
  <2> QED
    BY <2>1, <2>3, <2>4, Zenon
<1> QED
  BY <1>1, <1>2, <1>3, <1>4, <1>5, ZenonT(30) DEF Requesting

\* Subscribers come and go.
LEMMA SubscribingKeeps ==
    ASSUME IndInv, Subscribing
    PROVE  IndInv'
<1>1. CASE AddSubscriber
  <2>1. \E m : SameCore(mgr, m) /\ Only(m)
    BY <1>1, InvShape, LifeCore, Zenon DEF AddSubscriber
  <2> QED
    BY <2>1, CoreStep, Zenon DEF Only
<1>2. CASE RemoveSubscriber
  <2>1. \E m : SameCore(mgr, m) /\ Only(m)
    BY <1>2, InvShape, LifeCore, Zenon DEF RemoveSubscriber
  <2> QED
    BY <2>1, CoreStep, Zenon DEF Only
<1>3. CASE SystemAbilitySubscribes
  BY <1>3, AwakeGood, SubscribeKeeps, OnlyKeeps, ZenonT(30) DEF SystemAbilitySubscribes
<1> QED
  BY <1>1, <1>2, <1>3, Zenon DEF Subscribing

\* The scheduler stops, suspends and activates tasks.
LEMMA SchedulingKeeps ==
    ASSUME IndInv, Scheduling
    PROVE  IndInv'
<1>1. CASE StopContinuousTask
  BY <1>1, AwakeGood, HandleStopKeeps, OnlyKeeps, ZenonT(30) DEF StopContinuousTask
<1>2. CASE SuspendTask
  BY <1>2, AwakeGood, SuspendTaskKeeps, OnlyKeeps, ZenonT(30) DEF SuspendTask
<1>3. CASE ActivateTask
  <2>1. \A uid : SuspendedOf(mgr, uid) \subseteq DOMAIN mgr.tasks
    BY Zenon DEF SuspendedOf, TasksOf
  <2> QED
    BY <1>3, <2>1, AwakeGood, ActiveTaskKeeps, OnlyKeeps, ZenonT(30) DEF ActivateTask, OrdersOf
<1> QED
  BY <1>1, <1>2, <1>3, Zenon DEF Scheduling

\* Audio and sessions.
LEMMA SoundingKeeps ==
    ASSUME IndInv, Sounding
    PROVE  IndInv'
<1>0. \A uid : \A k \in FirstOf(uid) : TasksOf(mgr, uid) # {} => k \in DOMAIN mgr.tasks
  BY Zenon DEF FirstOf, TasksOf
<1>1. CASE SuspendContinuousAudioTask
  BY <1>1, AwakeGood, SuspendAudioTasksKeeps, OnlyKeeps, ZenonT(30) DEF SuspendContinuousAudioTask
<1>2. CASE SessionShown
  BY <1>0, <1>2, AwakeGood, AVSessionKeeps, OnlyKeeps, ZenonT(30) DEF SessionShown
<1>3. CASE SessionGone
  <2>1. \E m : SameCore(mgr, m) /\ Only(m)
    BY <1>3, InvShape, LifeCore, ZenonT(30) DEF SessionGone
  <2> QED
    BY <2>1, CoreStep, Zenon DEF Only
<1>4. CASE SessionGoneLate
  <2>1. PICK uid, bad, k : Ready /\ k \in FirstOf(uid)
            /\ Only(AVSessionNotifyUpdateNotificationInner([mgr EXCEPT !.late = @ \ {uid}], bad, uid, k, FALSE))
    BY <1>4, Zenon DEF SessionGoneLate
  <2> DEFINE s == [mgr EXCEPT !.late = @ \ {uid}]
  <2>2. SameCore(mgr, s)
    BY InvShape, SetState, ZenonT(30)
  <2>3. Only(AVSessionNotifyUpdateNotificationInner(s, bad, uid, k, FALSE))
    BY <2>1, Zenon
  <2> HIDE DEF s
  <2>4. Good(s, {}) /\ s.tasks = mgr.tasks
    BY <2>1, <2>2, AwakeGood, CoreKeeps, ZenonT(30) DEF Follows, SameCore
  <2>5. TasksOf(s, uid) # {} => k \in DOMAIN s.tasks
    BY <1>0, <2>1, <2>4, ZenonT(30) DEF TasksOf
  <2> QED
    BY <2>1, <2>3, <2>4, <2>5, AVSessionKeeps, OnlyKeeps, ZenonT(30)
<1>5. CASE NotifyAudioStart
  BY <1>5, AwakeGood, NotifyAudioStartKeeps, OnlyKeeps, Zenon DEF NotifyAudioStart
<1> QED
  BY <1>1, <1>2, <1>3, <1>4, <1>5, ZenonT(30) DEF Sounding

\* Notifications and live views.
LEMMA ShowingKeeps ==
    ASSUME IndInv, Showing
    PROVE  IndInv'
<1>1. CASE SendNotificationByDeteTask
  BY <1>1, AwakeGood, DeteTaskKeeps, OnlyKeeps, ZenonT(30) DEF SendNotificationByDeteTask
<1>2. CASE OnConsumed
  BY <1>2, AwakeGood, LiveViewKeeps, OnlyKeeps, ZenonT(30) DEF OnConsumed
<1>3. CASE OnCanceledLiveView
  BY <1>3, AwakeGood, LiveViewKeeps, OnlyKeeps, ZenonT(30) DEF OnCanceledLiveView
<1> QED
  BY <1>1, <1>2, <1>3, Zenon DEF Showing

\* An event that has been posted is handled while the service is ready, and lost
\* otherwise.
LEMMA PostedKeeps ==
    ASSUME IndInv, NEW m, Ready => Good(m, {}), mgr' = IF Ready THEN m ELSE mgr,
           phase' = phase, before' = before
    PROVE  IndInv'
<1>1. CASE Ready
  <2>1. Sound(m, "ready", before)
    BY <1>1, AwakeSound, ZenonT(30)
  <2> QED
    BY <1>1, <2>1, ZenonT(30) DEF IndInv, Ready
<1>2. CASE ~Ready
  BY <1>2, Zenon DEF IndInv
<1> QED
  BY <1>1, <1>2, Zenon

\* The user removes a notification, and the manager hears of it.
LEMMA RemovingKeeps ==
    ASSUME IndInv, Removing
    PROVE  IndInv'
<1>1. CASE UserRemoves
  <2>1. PICK v : mgr' = [mgr EXCEPT !.shade = v]
    BY <1>1, Zenon DEF UserRemoves
  <2>2. phase' = phase /\ before' = before
    BY <1>1, Zenon DEF UserRemoves
  <2>3. SameCore(mgr, [mgr EXCEPT !.shade = v])
    BY InvShape, SetState, Zenon
  <2> QED
    BY <2>1, <2>2, <2>3, CoreStep, ZenonT(30)
<1>2. CASE CancelNotificationByBgTask
  <2>0. PICK e, bad :
            /\ LET s == [mgr EXCEPT !.stuck = @ \cup ({e[2]} \cap {n[1] : n \in mgr.shade})]
               IN  mgr' = IF Ready THEN StopContinuousTaskByUserInner(s, bad, e[2][2], e[2][1] = "sub")
                          ELSE mgr
            /\ phase' = phase /\ before' = before
    BY <1>2, Zenon DEF CancelNotificationByBgTask
  <2> DEFINE k == e[2][2]
             isSub == e[2][1] = "sub"
             v == mgr.stuck \cup ({e[2]} \cap {n[1] : n \in mgr.shade})
  <2>1. mgr' = IF Ready THEN StopContinuousTaskByUserInner([mgr EXCEPT !.stuck = v], bad, k, isSub)
               ELSE mgr
    BY <2>0, Zenon
  <2>2. phase' = phase /\ before' = before
    BY <2>0, Zenon
  <2> HIDE DEF k, isSub, v
  <2>3. SameCore(mgr, [mgr EXCEPT !.stuck = v])
    BY InvShape, SetState, Zenon
  <2>4. Ready => Good([mgr EXCEPT !.stuck = v], {})
    BY <2>3, AwakeGood, CoreKeeps, ZenonT(30) DEF Follows
  <2>5. Ready => Good(StopContinuousTaskByUserInner([mgr EXCEPT !.stuck = v], bad, k, isSub), {})
    BY <2>4, StopByUserKeeps, ZenonT(30)
  <2> QED
    BY <2>1, <2>2, <2>5, PostedKeeps, ZenonT(30)
<1> QED
  BY <1>1, <1>2, ZenonT(30) DEF Removing

\* Applications start and die, and the manager hears of it.
LEMMA DyingKeeps ==
    ASSUME IndInv, Dying
    PROVE  IndInv'
<1>1. CASE AppStarts
  BY <1>1, Zenon DEF AppStarts, IndInv
<1>2. CASE AppDies
  <2>1. PICK uid, v, w : \/ mgr' = [mgr EXCEPT !.front = v, !.prelaunch = w]
                         \/ mgr' = OnRemoteSubscriberDiedInner([mgr EXCEPT !.front = v, !.prelaunch = w], uid)
    BY <1>2, Zenon DEF AppDies
  <2>2. phase' = phase /\ before' = before
    BY <1>2, Zenon DEF AppDies
  <2> DEFINE s == [mgr EXCEPT !.front = v, !.prelaunch = w]
  <2>3. SameCore(mgr, s)
    BY InvShape, SetState, ZenonT(30)
  <2>4. mgr' = s \/ mgr' = OnRemoteSubscriberDiedInner(s, uid)
    BY <2>1, Zenon
  <2> HIDE DEF s
  <2>5. SameCore(mgr, OnRemoteSubscriberDiedInner(s, uid))
    BY <2>3, CoreIsState, LifeCore, SameCoreTrans, ZenonT(30)
  <2>6. SameCore(mgr, mgr')
    BY <2>3, <2>4, <2>5, ZenonT(30)
  <2> QED
    BY <2>2, <2>6, CoreStep, ZenonT(30)
<1>3. CASE AppStopped
  <2>1. PICK uid, bad : mgr' = IF Ready THEN OnAppStopped(mgr, bad, uid) ELSE mgr
    BY <1>3, Zenon DEF AppStopped
  <2>2. phase' = phase /\ before' = before
    BY <1>3, Zenon DEF AppStopped
  <2>3. Ready => Good(OnAppStopped(mgr, bad, uid), {})
    BY AwakeGood, AppStoppedKeeps, ZenonT(30)
  <2> QED
    BY <2>1, <2>2, <2>3, PostedKeeps, ZenonT(30)
<1> QED
  BY <1>1, <1>2, <1>3, Zenon DEF Dying

\* Applications come to the foreground and leave it.
LEMMA MovingKeeps ==
    ASSUME IndInv, Moving
    PROVE  IndInv'
<1>1. CASE AppStateChanged
  <2>1. PICK uid, v, f : \/ Only([mgr EXCEPT !.front = v])
                         \/ Only(OnAppStateChanged([mgr EXCEPT !.front = v], uid, f))
    BY <1>1, Zenon DEF AppStateChanged
  <2> DEFINE s == [mgr EXCEPT !.front = v]
  <2>2. SameCore(mgr, s)
    BY InvShape, SetState, Zenon
  <2>3. Only(s) \/ Only(OnAppStateChanged(s, uid, f))
    BY <2>1, Zenon
  <2> HIDE DEF s
  <2>4. SameCore(mgr, OnAppStateChanged(s, uid, f))
    BY <2>2, CoreIsState, LifeCore, SameCoreTrans, ZenonT(30)
  <2>5. SameCore(mgr, mgr') /\ phase' = phase /\ before' = before
    BY <2>2, <2>3, <2>4, ZenonT(30) DEF Only
  <2> QED
    BY <2>5, CoreStep, ZenonT(30)
<1>2. CASE OnProcessCreated
  <2>1. \E v : Only([mgr EXCEPT !.prelaunch = v])
    BY <1>2, Zenon DEF OnProcessCreated
  <2>2. \E m : SameCore(mgr, m) /\ Only(m)
    BY <2>1, InvShape, SetState, ZenonT(30)
  <2> QED
    BY <2>2, CoreStep, Zenon DEF Only
<1>3. CASE EnableContinuousTaskRequest
  <2>1. \E v : Only([mgr EXCEPT !.disabled = v])
    BY <1>3, Zenon DEF EnableContinuousTaskRequest
  <2>2. \E m : SameCore(mgr, m) /\ Only(m)
    BY <2>1, InvShape, SetState, ZenonT(30)
  <2> QED
    BY <2>2, CoreStep, Zenon DEF Only
<1> QED
  BY <1>1, <1>2, <1>3, Zenon DEF Moving

\* Abilities, bundles, accounts and system abilities go; the shell command.
LEMMA ClearingKeeps ==
    ASSUME IndInv, Clearing
    PROVE  IndInv'
<1>1. CASE OnAbilityStateChanged
  <2>1. \A uid, ability : TasksOfAbility(mgr, uid, ability) \subseteq DOMAIN mgr.tasks
    BY Zenon DEF TasksOfAbility, TasksOf
  <2> QED
    BY <1>1, <2>1, AwakeGood, StopByContextKeeps, OnlyKeeps, ZenonT(30) DEF OnAbilityStateChanged
<1>2. CASE BundleInfoChanged
  BY <1>2, AwakeGood, BundleInfoKeeps, OnlyKeeps, ZenonT(30) DEF BundleInfoChanged
<1>3. CASE OnBundleResourcesChanged
  BY <1>3, AwakeGood, BundleResourcesKeeps, OnlyKeeps, ZenonT(30) DEF OnBundleResourcesChanged
<1>4. CASE OnAccountsStateChanged
  BY <1>4, AwakeGood, ClearAccountKeeps, OnlyKeeps, ZenonT(30) DEF OnAccountsStateChanged
<1>5. CASE OnRemoveSystemAbility
  BY <1>5, AwakeGood, RemoveByModeKeeps, OnlyKeeps, ZenonT(30) DEF OnRemoveSystemAbility
<1>6. CASE ShellDump
  BY <1>6, AwakeGood, DumpCancelTaskKeeps, OnlyKeeps, ZenonT(30) DEF ShellDump
<1> QED
  BY <1>1, <1>2, <1>3, <1>4, <1>5, <1>6, ZenonT(30) DEF Clearing

\* Every step keeps the invariant.
LEMMA NextKeeps ==
    ASSUME IndInv, [Next]_vars
    PROVE  IndInv'
<1>1. CASE UNCHANGED vars
  BY <1>1, Zenon DEF vars, IndInv
<1>2. CASE Next
  BY <1>2, RestartingKeeps, RequestingKeeps, SubscribingKeeps, SchedulingKeeps, SoundingKeeps,
     ShowingKeeps, RemovingKeeps, DyingKeeps, MovingKeeps, ClearingKeeps, ZenonT(30) DEF Next
<1> QED
  BY <1>1, <1>2, ZenonT(30)

-----------------------------------------------------------------------------
(* Results.                                                                *)

\* Whatever is asked of the service, whatever fails and whenever it dies: while it is
\* ready its file and its subscriber have its tasks, and while it is not its file has
\* the tasks it had.
THEOREM Consistent == Spec => []IndInv
<1>1. Init => IndInv
  BY InitSound, Zenon
<1>2. IndInv /\ [Next]_vars => IndInv'
  BY NextKeeps, Zenon
<1> QED
  BY <1>1, <1>2, PTL DEF Spec

\* After every operation the file of ParseRecordToStr has the tasks of
\* continuousTaskInfosMap_ and whether they are suspended, for any requests,
\* applications and failures.
THEOREM FileIsCurrent == Spec => []FileMatchesTasks
<1>1. IndInv => FileMatchesTasks
  BY AwakeGood, SMTT(30) DEF Good, Filed, FileMatchesTasks
<1> QED
  BY <1>1, Consistent, PTL

\* A system ability that follows OnContinuousTaskStart, Update, Stop and
\* OnAppContinuousTaskStop knows the tasks that run and the applications with tasks.
THEOREM SubscriberIsCurrent == Spec => []SubscriberView
<1>1. IndInv => SubscriberView
  <2> SUFFICES ASSUME IndInv, Ready, mgr.sa
               PROVE  /\ GetContinuousTaskAppsInner(mgr, Uids, FALSE) \subseteq mgr.heard
                      /\ mgr.heard \subseteq DOMAIN mgr.tasks
                      /\ mgr.busy = {k[1] : k \in DOMAIN mgr.tasks}
    BY ZenonT(30) DEF SubscriberView
  <2>1. Told(mgr, {})
    BY AwakeGood, Zenon DEF Good, Live
  <2> QED
    BY <2>1, Zenon DEF Told, Owners, GetContinuousTaskAppsInner
<1> QED
  BY <1>1, Consistent, PTL

\* As long as HandlePersistenceData can list the processes, the ids of
\* continuousTaskIdIndex_ never name two tasks, over restarts.
THEOREM IdsNameOneTask == ASSUME ProcessesListed PROVE Spec => []TaskIdsUnique
<1>1. IndInv => TaskIdsUnique
  <2>1. CASE Ready
    BY <2>1, AwakeGood, SMTT(30) DEF Good, Live, Numbered, IdsUnique, TaskIdsUnique
  <2>2. CASE ~Ready
    BY <2>2, Zenon DEF IndInv, Sound, Asleep, Ready, TaskIdsUnique
  <2> QED
    BY <2>1, <2>2, Zenon
<1> QED
  BY <1>1, Consistent, PTL

\* Only InitNecessaryState makes the service ready.
LEMMA OnlyInitReadies ==
    ASSUME Next, phase # "ready", phase' = "ready"
    PROVE  InitNecessaryState
<1>1. phase' # phase
  BY Zenon
<1>2. ~Requesting
  BY <1>1, Zenon DEF Requesting, Only, StartBackgroundRunning, StartBackgroundRunningForInner,
     UpdateBackgroundRunning, UpdateDataTransferProgress, StopBackgroundRunning,
     StopBackgroundRunningInner
<1>3. ~Subscribing /\ ~Scheduling
  BY <1>1, Zenon DEF Subscribing, Scheduling, Only, AddSubscriber, RemoveSubscriber,
     SystemAbilitySubscribes, StopContinuousTask, SuspendTask, ActivateTask
<1>4. ~Sounding /\ ~Showing
  BY <1>1, Zenon DEF Sounding, Showing, Only, SuspendContinuousAudioTask, SessionShown, SessionGone,
     SessionGoneLate, NotifyAudioStart, SendNotificationByDeteTask, OnConsumed, OnCanceledLiveView
<1>5. ~Removing /\ ~Dying
  BY <1>1, Zenon DEF Removing, Dying, UserRemoves, CancelNotificationByBgTask, AppStarts, AppDies,
     AppStopped
<1>6. ~Moving /\ ~Clearing
  BY <1>1, Zenon DEF Moving, Clearing, Only, AppStateChanged, OnProcessCreated,
     EnableContinuousTaskRequest, OnAbilityStateChanged, BundleInfoChanged,
     OnBundleResourcesChanged,
     OnAccountsStateChanged, OnRemoveSystemAbility, ShellDump
<1>7. ~Start /\ ~Crash
  BY Zenon DEF Start, Crash
<1> QED
  BY <1>2, <1>3, <1>4, <1>5, <1>6, <1>7, ZenonT(30) DEF Next, Restarting

\* As long as HandlePersistenceData can list the processes, a service that becomes
\* ready has the tasks that the last one had and whose process lives, as suspended.
THEOREM TasksOutliveService == ASSUME ProcessesListed PROVE Spec => TasksSurvive
<1> DEFINE Same ==
        /\ DOMAIN mgr'.tasks = {k \in DOMAIN before : Lives(before[k].pid)}
        /\ \A k \in DOMAIN mgr'.tasks : mgr'.tasks[k].suspended = before[k].suspended
<1>1. ASSUME IndInv, Next, phase # "ready", phase' = "ready" PROVE Same
  <2>1. Asleep(mgr, before) /\ Well(mgr) /\ IdsUnique(mgr.saved)
    BY <1>1, Zenon DEF IndInv, Sound
  <2>2. PICK bad \in Faults, order \in Orders(DOMAIN mgr.saved), texts \in Texts :
            mgr' = InitRequiredResourceInfo(mgr, bad, order, texts)
    <3>1. InitNecessaryState
      BY <1>1, OnlyInitReadies, Zenon
    <3>2. phase' # "failed"
      BY <1>1, Zenon
    <3> QED
      BY <3>1, <3>2, Zenon DEF InitNecessaryState
  <2>3. Restored(mgr, mgr')
    BY <2>1, <2>2, RestoreKeeps, ZenonT(30) DEF Asleep
  <2> QED
    BY <2>1, <2>3, Zenon DEF Restored, Asleep, Kept
<1>2. IndInv /\ [Next]_vars => [phase # "ready" /\ phase' = "ready" => Same]_vars
  BY <1>1, Zenon
<1> QED
  BY <1>2, Consistent, PTL DEF Spec, TasksSurvive

=============================================================================
