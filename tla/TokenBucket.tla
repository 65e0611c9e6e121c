---------------------------- MODULE TokenBucket ----------------------------
(***************************************************************************)
(* TokenBucketRateLimiter of tools/rate_limiter, after Init(timewindow,    *)
(* max_permits), and OrderController::allow of main.cc, which calls it.    *)
(* Aquire holds mut_ from beginning to end, so a call is one step however  *)
(* many threads call it; the time stamps are the callers' and need not be  *)
(* in order.                                                               *)
(*                                                                         *)
(* UNITS.  The code counts permits in doubles.  interval_ is Window /      *)
(* max_permits microseconds per permit, so a permit is kept here as Window *)
(* units and a microsecond produces max_permits units: sums and products   *)
(* are exact, and the conversion of a price to whole microseconds (line 56 *)
(* of token_bucket_limiter.cc) truncates as the code's does.  The rounding *)
(* of doubles, fractions of a permit and negative windows are left out.    *)
(*                                                                         *)
(* Init replaces an argument max_permits <= 0 by 1 in the capacity (lines  *)
(* 20-25), but computes interval_ from the argument itself (line 27): it   *)
(* is then negative or infinite.  The arithmetic of next_free_, a          *)
(* uint64_t, wraps around as soon as interval_ is negative, and is modelled*)
(* with its width; with a positive interval_ it would take TimeRange       *)
(* microseconds of claims to do so, which is left out.                     *)
(***************************************************************************)
EXTENDS Integers, Sequences, FiniteSets, FiniteSetsExt

CONSTANTS Window,       \* timewindow * 1000, microseconds
          MaxPermits,   \* arguments max_permits of Init
          Permits,      \* arguments permits of Aquire
          Times,        \* arguments now of Aquire, microseconds
          Stamps,       \* reqTimestamp of an OrderRequest, milliseconds
          Thousand,     \* microseconds in a millisecond
          UintRange,    \* unsigned int counts modulo this number
          TimeRange,    \* uint64_t counts modulo this number
          MaxCalls      \* bound: how many calls are made

ASSUME BucketAssumption ==
    /\ Window \in Nat
    /\ MaxPermits \subseteq Int
    /\ Window = 0 => MaxPermits \subseteq Nat \ {0}
    /\ Permits \subseteq Int
    /\ Stamps \subseteq Nat
    /\ Thousand \in Nat
    /\ UintRange \in Nat \ {0}
    /\ TimeRange \in Nat /\ UintRange <= TimeRange
    /\ Times \subseteq 0 .. TimeRange - 1
    /\ MaxCalls \in Nat

VARIABLES
    max_permits,       \* the argument of Init, which interval_ is computed from
    stored_permits_,   \* in units of 1 / Window permit
    next_free_,        \* microseconds
    calls,             \* history: how many calls were made
    claimed,           \* history: the units all calls have claimed
    returned,          \* history: the units put back by calls with negative permits
    log                \* history: the calls that passed

bucketvars == <<max_permits, stored_permits_, next_free_, calls, claimed, returned, log>>

max_permits_ == IF max_permits <= 0 THEN 1 ELSE max_permits
Capacity == max_permits_ * Window
Price(permits) == permits * Window

\* The constructor and TokenBucketRateLimiter::Init.
BucketInit ==
    /\ max_permits \in MaxPermits
    /\ stored_permits_ = Capacity
    /\ next_free_ = 0
    /\ calls = 0
    /\ claimed = 0
    /\ returned = 0
    /\ log = <<>>

\* Mutant: the refill is not guarded, and now - next_free_ wraps around.
SyncUnguarded(now) ==
    [stored |-> IF now < next_free_ THEN Capacity
                ELSE Min({Capacity, stored_permits_ + (now - next_free_) * max_permits}),
     free |-> Max({now, next_free_})]

\* Sync: the permits produced since next_free_ are added, and next_free_ is now.
\* With a negative interval_ they are taken away, with an infinite one there are none.
Sync(now) ==
    IF now > next_free_
    THEN [stored |-> Min({Capacity, stored_permits_ + (now - next_free_) * max_permits}),
          free |-> now]
    ELSE [stored |-> stored_permits_, free |-> next_free_]

\* Mutant: what the bucket did not hold is not charged.
DelayFree(fresh) == {0}

\* ClaimNext: how long it takes to produce the missing permits, truncated towards
\* zero.  With an infinite interval_ the product is infinite or not a number, and
\* its conversion to uint64_t undefined: the build makes 0 or 2^63 of it.
Delay(fresh) ==
    CASE max_permits > 0 -> {fresh \div max_permits}
      [] max_permits < 0 -> {-(fresh \div (-max_permits))}
      [] max_permits = 0 -> {0, TimeRange \div 2}

\* The sum of two uint64_t.
Later(free, delay) == IF max_permits > 0 THEN free + delay ELSE (free + delay) % TimeRange

\* Aquire, with ClaimNext.  A call passes when it need not wait; a call that does
\* not pass is charged all the same, and one with negative permits (the empty if of
\* lines 31-32) fills the bucket, beyond its capacity if need be.
Aquire(permits, now) ==
    /\ calls < MaxCalls
    /\ LET synced == Sync(now)
           wait   == synced.free - now
           stored == Min({Price(permits), synced.stored})
           fresh  == Price(permits) - stored
       IN /\ \E delay \in Delay(fresh) : next_free_' = Later(synced.free, delay)
          /\ stored_permits_' = synced.stored - stored
          /\ log' = IF wait = 0
                    THEN Append(log, [now |-> now, before |-> claimed, back |-> returned,
                                      call |-> calls])
                    ELSE log
    /\ claimed' = claimed + Max({Price(permits), 0})
    /\ returned' = returned + Max({-Price(permits), 0})
    /\ calls' = calls + 1
    /\ UNCHANGED max_permits

\* OrderController::allow: the product is computed in unsigned int.
allow(reqTimestamp) == Aquire(1, (reqTimestamp * Thousand) % UintRange)

BucketNext ==
    \/ \E permits \in Permits, now \in Times : Aquire(permits, now)
    \/ \E reqTimestamp \in Stamps : allow(reqTimestamp)

BucketSpec == BucketInit /\ [][BucketNext]_bucketvars

-----------------------------------------------------------------------------
(* Properties. *)

\* Every variable keeps its type.
BucketTypeOK ==
    /\ max_permits \in MaxPermits
    /\ stored_permits_ \in Int
    /\ next_free_ \in Nat
    /\ calls \in Nat
    /\ claimed \in Nat
    /\ returned \in Nat
    /\ log \in Seq([now : Nat, before : Nat, back : Nat, call : Nat])

\* The bucket is never negative, and fuller than its capacity only by what calls
\* with negative permits have put back.
WithinCapacity == stored_permits_ \in 0 .. Capacity + returned

\* The rate limit.  Between two calls that passed, the calls from the first
\* up to, but without, the second have claimed no more than the bucket holds
\* plus what was put back and what the time between the two produces; every call
\* may gain less than one microsecond by the truncation in ClaimNext.  Whatever
\* the order of the time stamps, no longer stretch of calls can exceed the
\* configured rate.
RateBound ==
    \A i, j \in DOMAIN log :
        i <= j => log[j].before - log[i].before
                     <= Capacity + log[j].back + (log[j].now - log[i].now) * max_permits
                                 + (log[j].call - log[i].call) * (max_permits - 1)

\* The limiter keeps its types whatever it was initialised with and whatever it is
\* asked for; initialised with a positive max_permits, it keeps its bucket within
\* bounds and its rate.
RateLimited == BucketTypeOK /\ (max_permits > 0 => WithinCapacity /\ RateBound)

\* As long as max_permits is positive, next_free_ never moves back, and the bucket
\* gains only if next_free_ moves forward or permits are put back: a stale time
\* stamp (the guard of Sync) produces no permits.
NoPermitsFromThePast ==
    [][max_permits > 0 =>
          /\ next_free_' >= next_free_
          /\ stored_permits_' > stored_permits_
                => next_free_' > next_free_ \/ returned' > returned]_bucketvars

\* What main.cc (line 33) expects of a limiter for one permit per window of three
\* milliseconds, whose requests all cost one permit: within one window at most
\* max_permits requests pass.  A request that finds no permit in the bucket and need
\* not wait for an earlier one passes nevertheless, on credit.
AtMostUpperLimit ==
    \A i \in DOMAIN log :
        Cardinality({j \in DOMAIN log : log[j].now \in log[i].now .. log[i].now + Window - 1})
            <= max_permits_
=============================================================================
