--------------------------- MODULE DelayAccounting ---------------------------
(***************************************************************************)
(* The arithmetic of transient-task accounting: what one delay request     *)
(* (DelaySuspendInfoEx) and the quota of one application                   *)
(* (PkgDelaySuspendInfo) become when accounting starts, stops or is        *)
(* brought up to date.  The operators are pure; `now' is the value of      *)
(* TimeProvider::GetCurrentTime().  Times are in an abstract unit.         *)
(***************************************************************************)
EXTENDS Integers, FiniteSets

CONSTANTS
    INIT_QUOTA,             \* quota of one application per day
    MIN_ALLOW_QUOTA_TIME,   \* below this quota a request is refused
    MAX_REQUEST_ID,         \* most requests one application may hold
    AdvanceTime,            \* how long before the end OnExpired is called
    WATCHDOG_DELAY_TIME,    \* from OnExpired to the forced cancellation
    Int32Half,              \* 2^31, scaled
    MaxRequests             \* bound: request ids are 1..MaxRequests

ASSUME AccountingAssumption ==
    /\ INIT_QUOTA \in Nat
    /\ MIN_ALLOW_QUOTA_TIME \in Nat
    /\ MAX_REQUEST_ID \in Nat
    /\ AdvanceTime \in Nat
    /\ WATCHDOG_DELAY_TIME \in Nat
    /\ Int32Half \in Nat \ {0}
    /\ MaxRequests \in Nat

Ids == 1 .. MaxRequests

\* static_cast<int32_t> of a 64-bit time.
ToInt32(n) == ((n + Int32Half) % (2 * Int32Half)) - Int32Half

NonNegative(n) == IF n < 0 THEN 0 ELSE n

-----------------------------------------------------------------------------
(* DelaySuspendInfoEx.  base = 0 means the request is not being counted.   *)

Request == [base : Nat, spent : Nat, actual : Nat]

NoRequest == [base |-> 0, spent |-> 0, actual |-> 0]

Counted(r) == r.base # 0

SpendTime(r, now) == IF r.base > 0 THEN r.spent + (now - r.base) ELSE r.spent

GetRemainDelayTime(r, now) == NonNegative(r.actual - ToInt32(SpendTime(r, now)))

GetAdvanceCallbackTime(r, now) == NonNegative(GetRemainDelayTime(r, now) - AdvanceTime)

StartRequest(r, now) == IF r.base = 0 THEN [r EXCEPT !.base = now] ELSE r

StopRequest(r, now) ==
    IF r.base # 0 THEN [r EXCEPT !.spent = @ + (now - r.base), !.base = 0] ELSE r

-----------------------------------------------------------------------------
(* PkgDelaySuspendInfo.  present = FALSE stands for "no entry in           *)
(* pkgDelaySuspendInfoMap_"; the requests themselves are kept apart, as a  *)
(* set of ids per application.  baseTime_ is read only while isCounting_,  *)
(* and is 0 here otherwise.                                                *)

Package == [present : BOOLEAN, quota : 0 .. INIT_QUOTA, base : Int, counting : BOOLEAN]

NoPackage == [present |-> FALSE, quota |-> INIT_QUOTA, base |-> 0, counting |-> FALSE]

NewPackage == [NoPackage EXCEPT !.present = TRUE]

\* `exempted' is the exempted quota of the application, 0 if it has none.
GetModifiedTime(p, exempted, now) ==
    NonNegative(ToInt32(ToInt32(now) - p.base - exempted))

\* UpdateQuota that moves baseTime_ without charging the time before it.
MutUpdateQuotaUncharged(p, exempted, now) ==
    [p EXCEPT !.base = IF p.counting THEN ToInt32(now) ELSE 0]

UpdateQuota(p, exempted, now) ==
    [p EXCEPT !.quota = NonNegative(@ - (IF p.counting
                                         THEN GetModifiedTime(p, exempted, now) ELSE 0)),
              !.base  = IF p.counting THEN ToInt32(now) ELSE 0]

\* UpdateQuota(true): the daily reset.
ResetQuota(p, exempted, now) ==
    [UpdateQuota(p, exempted, now) EXCEPT !.quota = INIT_QUOTA]

\* AddRequest: the time granted to a new request.
GrantedTime(p, delayTime, needSetTime, exemptedQuota) ==
    IF needSetTime THEN exemptedQuota + WATCHDOG_DELAY_TIME
    ELSE IF p.quota < delayTime THEN p.quota ELSE delayTime

\* StartAccounting over the requests S of the application (its whole list, or
\* the one request just added): the package, the requests and the timers.
StartPackage(p, S, exempted, now) ==
    IF S = {} \/ p.counting THEN p
    ELSE [UpdateQuota(p, exempted, now) EXCEPT !.counting = TRUE, !.base = ToInt32(now)]

StartInfo(info, S, now) ==
    [i \in Ids |-> IF i \in S THEN StartRequest(info[i], now) ELSE info[i]]

\* StartAccounting that adds the timer only the first time.
MutStartTimerFirst(timer, info, S, now) ==
    [i \in Ids |-> IF i \in S /\ ~Counted(info[i]) /\ info[i].spent = 0
                   THEN {now + GetAdvanceCallbackTime(info[i], now)} ELSE timer[i]]

StartTimer(timer, info, S, now) ==
    [i \in Ids |-> IF i \in S /\ ~Counted(info[i])
                   THEN {now + GetAdvanceCallbackTime(info[i], now)} ELSE timer[i]]

\* StopAccounting and StopAccountingAll over the requests S.
StopPackage(p, exempted, now) ==
    [UpdateQuota(p, exempted, now) EXCEPT !.counting = FALSE, !.base = 0]

StopInfo(info, S, now) ==
    [i \in Ids |-> IF i \in S THEN StopRequest(info[i], now) ELSE info[i]]

\* StopAccounting that forgets RemoveTimer.
MutStopTimerKept(timer, info, S) == timer

StopTimer(timer, info, S) ==
    [i \in Ids |-> IF i \in S /\ Counted(info[i]) THEN {} ELSE timer[i]]

\* RemoveRequest that clears isCounting_ although requests are left.
MutRemovePackageAny(p, L, S, exempted, now) ==
    IF L \cap S # {} THEN StopPackage(p, exempted, now) ELSE p

\* RemoveRequest of the requests S out of the list L of the application.
RemovePackage(p, L, S, exempted, now) ==
    IF L \cap S # {} /\ L \subseteq S THEN StopPackage(p, exempted, now) ELSE p

ForgetInfo(info, S) == [i \in Ids |-> IF i \in S THEN NoRequest ELSE info[i]]
=============================================================================
