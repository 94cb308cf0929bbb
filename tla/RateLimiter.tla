------------------------------ MODULE RateLimiter ------------------------------
(* The token bucket of a device, with the wall clock it is refilled by.    *)
(* Tokens are counted in the milliseconds that refill them, so that a      *)
(* bucket of 50 tokens at 10 a second holds 5000 and a call costs 100.     *)
EXTENDS Integers

CONSTANTS
  Capacity,   \* a full bucket
  Cost,       \* what one call takes
  MaxClock    \* bound on the clock and on the time that passes

ASSUME BucketAssumption == Capacity \in Nat /\ Cost \in Nat /\ MaxClock \in Nat

VARIABLES
  now,         \* Date.now()
  bucket,      \* the entry of the device: [known, tokens, lastRefill]
  granted,     \* history: what the calls took so far
  elapsed      \* history: the time by which the clock went forward

limiterVars == <<now, bucket, granted, elapsed>>

LimiterInit ==
  /\ now \in 0..MaxClock
  /\ bucket = [known |-> FALSE, tokens |-> 0, lastRefill |-> 0]
  /\ granted = 0 /\ elapsed = 0

(* Time passes, or the clock of the host is set back.                      *)
Tick(t) ==
  /\ t \in (now + 1)..MaxClock /\ elapsed + (t - now) <= MaxClock
  /\ now' = t
  /\ elapsed' = elapsed + (t - now)
  /\ UNCHANGED <<bucket, granted>>

SetBack(t) ==
  /\ t \in 0..(now - 1)
  /\ now' = t
  /\ UNCHANGED <<bucket, granted, elapsed>>

Least(a, b) == IF a < b THEN a ELSE b
Since(t) == IF now > t THEN now - t ELSE 0

\* Mutant of Refilled: a clock set back refills by its distance
RefilledByDistance ==
  IF bucket.known
  THEN Least(Capacity, bucket.tokens + Since(bucket.lastRefill) +
                       (IF bucket.lastRefill > now THEN bucket.lastRefill - now ELSE 0))
  ELSE Capacity

Refilled ==
  IF bucket.known THEN Least(Capacity, bucket.tokens + Since(bucket.lastRefill)) ELSE Capacity

Consume(tokens) ==
  /\ bucket' = [known |-> TRUE, tokens |-> tokens, lastRefill |-> now]
  /\ UNCHANGED <<now, elapsed>>

TryConsume ==
  \/ /\ Refilled >= Cost
     /\ Consume(Refilled - Cost)
     /\ granted' = granted + Cost
  \/ /\ Refilled < Cost
     /\ Consume(Refilled)
     /\ UNCHANGED granted

LimiterNext ==
  \/ \E t \in 0..MaxClock : Tick(t) \/ SetBack(t)
  \/ TryConsume

LimiterSpec == LimiterInit /\ [][LimiterNext]_limiterVars

LimiterTypeOK ==
  /\ now \in 0..MaxClock /\ granted \in Nat /\ elapsed \in 0..MaxClock
  /\ bucket \in [known : BOOLEAN, tokens : 0..Capacity, lastRefill : 0..MaxClock]

(* However the clock jumps, a device is granted no more than a full bucket *)
(* and what the clock's forward moves refill. A clock set back and forward *)
(* again does refill the same stretch twice, against rate-limit.ts:71-75;  *)
(* the bound counts that stretch twice too.                                *)
GrantsBounded == granted <= Capacity + elapsed

(* The strengthening: what is in the bucket, and what the time since its   *)
(* anchor will add, is paid for as well.                                   *)
BudgetKept ==
  bucket.known => granted + bucket.tokens + Since(bucket.lastRefill) <= Capacity + elapsed
=============================================================================
