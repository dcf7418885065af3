--------------------------------- MODULE Quota ---------------------------------
(***************************************************************************)
(* check_rate_limit of crates/electro-core/src/tenant_impl.rs: the calls   *)
(* one tenant makes on a day are counted under a lock, while the day is    *)
(* read before the lock is taken, so that at midnight a call of the old    *)
(* day may come after one of the new.                                      *)
(***************************************************************************)
EXTENDS Integers, FiniteSets

CONSTANTS
  QuotaCalls,    \* calls under way at the same time
  DailyLimit,  \* max_api_calls_per_day
  MaxDays,     \* bound: days
  MaxPerDay    \* bound: calls of one day

ASSUME QuotaAssumption == MaxDays \in Nat \ {0} /\ {DailyLimit, MaxPerDay} \subseteq Nat

VARIABLES
  day,         \* the day it is
  callCount,   \* call_count
  dayEpoch,    \* day_epoch, 0 before the first call
  readDay,     \* per call: the day it read, 0 when it is not waiting for the lock
  granted,     \* per day: how many calls were let through (history)
  refused,     \* per day: how many were not (history)
  turnedBack   \* how often the counter went back to an earlier day (history)

quotaVars == <<day, callCount, dayEpoch, readDay, granted, refused, turnedBack>>
Days == 1 .. MaxDays

QuotaInit ==
  /\ day = 1 /\ callCount = 0 /\ dayEpoch = 0 /\ readDay = [r \in QuotaCalls |-> 0]
  /\ granted = [d \in Days |-> 0] /\ refused = [d \in Days |-> 0] /\ turnedBack = 0

ReadDay(r) ==
  /\ readDay[r] = 0 /\ granted[day] + refused[day] < MaxPerDay
  /\ readDay' = [readDay EXCEPT ![r] = day]
  /\ UNCHANGED <<day, callCount, dayEpoch, granted, refused, turnedBack>>

\* Mutant: only a later day resets the counter.
CountOfLater(today) == IF today > dayEpoch THEN 0 ELSE callCount

\* The counter a call finds: reset when its day is another.
CountOf(today) == IF today # dayEpoch THEN 0 ELSE callCount

\* Mutant: the call that reaches the limit is let through as well.
WithinQuotaLate(count) == count <= DailyLimit

WithinQuota(count) == count < DailyLimit

\* The rest is done under the lock.
CountCall(r) ==
  LET today == readDay[r]  count == CountOf(today)  ok == WithinQuota(count)
  IN  /\ today # 0 /\ readDay' = [readDay EXCEPT ![r] = 0] /\ dayEpoch' = today
      /\ callCount' = IF ok THEN count + 1 ELSE count
      /\ granted' = IF ok THEN [granted EXCEPT ![today] = @ + 1] ELSE granted
      /\ refused' = IF ok THEN refused ELSE [refused EXCEPT ![today] = @ + 1]
      /\ turnedBack' = IF today < dayEpoch THEN turnedBack + 1 ELSE turnedBack
      /\ UNCHANGED day

Midnight ==
  /\ day < MaxDays /\ day' = day + 1
  /\ UNCHANGED <<callCount, dayEpoch, readDay, granted, refused, turnedBack>>

QuotaNext == (\E r \in QuotaCalls : ReadDay(r) \/ CountCall(r)) \/ Midnight
QuotaSpec == QuotaInit /\ [][QuotaNext]_quotaVars

-----------------------------------------------------------------------------
\* Every variable keeps its type.
QuotaTypeOK ==
  /\ day \in Days /\ callCount \in Nat /\ dayEpoch \in 0 .. MaxDays
  /\ readDay \in [QuotaCalls -> 0 .. MaxDays] /\ turnedBack \in Nat
  /\ granted \in [Days -> Nat] /\ refused \in [Days -> Nat]

\* A day gets no more calls than its limit, but for a whole limit more each
\* time a call of an earlier day turned the counter back.
LimitKept == \A d \in Days : granted[d] <= DailyLimit * (1 + turnedBack)

\* No call is refused before the calls of its day have used up the limit.
RefusedRightly == \A d \in Days : refused[d] > 0 => granted[d] >= DailyLimit

QuotaSound == LimitKept /\ RefusedRightly
=============================================================================
