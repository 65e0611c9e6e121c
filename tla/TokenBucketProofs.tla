------------------------- MODULE TokenBucketProofs -------------------------
(***************************************************************************)
(* Proofs about TokenBucket, for every window, every argument of Init,     *)
(* every sequence of permits, negative ones included, and every sequence   *)
(* of time stamps.                                                         *)
(***************************************************************************)
EXTENDS TokenBucket, TLAPS

(* RateBound speaks about the moments at which calls passed.  The inductive
   invariant keeps the account in between: since a call that passed at time
   log[i].now, what was claimed and what is left in the bucket together never
   exceed one full bucket, what was put back, what has been produced up to
   next_free_, and what the truncated prices gave away. *)
Account ==
    \A i \in DOMAIN log :
        claimed - log[i].before + stored_permits_
            <= Capacity + returned + (next_free_ - log[i].now) * max_permits
                        + (calls - log[i].call) * (max_permits - 1)

BucketInv == BucketTypeOK /\ (max_permits > 0 => WithinCapacity /\ Account /\ RateBound)

Entry == [now : Nat, before : Nat, back : Nat, call : Nat]

\* What a call adds to claimed and to returned.
Claim(permits) == Max({Price(permits), 0})
Return(permits) == Max({-Price(permits), 0})

\* Min of two integers.
LEMMA MinLemma ==
    ASSUME NEW a \in Int, NEW b \in Int
    PROVE  Min({a, b}) = IF a <= b THEN a ELSE b
  BY DEF Min

\* Max of two integers.
LEMMA MaxLemma ==
    ASSUME NEW a \in Int, NEW b \in Int
    PROVE  Max({a, b}) = IF a >= b THEN a ELSE b
  BY DEF Max

\* A truncated quotient loses less than one unit of the divisor.
LEMMA DelayLemma ==
    ASSUME NEW f \in Nat, max_permits \in Int, max_permits > 0, NEW d \in Delay(f)
    PROVE  /\ d \in Nat
           /\ f <= d * max_permits + (max_permits - 1)
  BY DEF Delay

\* Whatever Init was given, a delay is an integer.
LEMMA DelayType ==
    ASSUME NEW f \in Int, max_permits \in Int, NEW d \in Delay(f)
    PROVE  d \in Int
  <1>1. CASE max_permits > 0
    BY <1>1 DEF Delay
  <1>2. CASE max_permits < 0
    <2>1. PICK m \in Nat \ {0} : m = -max_permits
      BY <1>2
    <2>2. d = -(f \div m)
      BY <1>2, <2>1 DEF Delay
    <2>3. QED
      BY <2>2
  <1>3. CASE max_permits = 0
    BY <1>3, BucketAssumption DEF Delay
  <1>4. QED
    BY <1>1, <1>2, <1>3

\* The capacity is a natural number, prices are integers, and a price is what a call
\* claims less what it puts back.
LEMMA PriceLemma ==
    ASSUME max_permits \in Int
    PROVE  /\ Capacity \in Nat
           /\ \A p \in Int : /\ Price(p) \in Int
                             /\ Claim(p) \in Nat /\ Return(p) \in Nat
                             /\ Price(p) = Claim(p) - Return(p)
                             /\ Claim(p) = 0 \/ Return(p) = 0
  <1>1. Capacity \in Nat
    <2>1. PICK m \in Nat : m = max_permits_
      BY DEF max_permits_
    <2>2. QED
      BY <2>1, BucketAssumption DEF Capacity
  <1>2. ASSUME NEW p \in Int
        PROVE  /\ Price(p) \in Int
               /\ Claim(p) \in Nat /\ Return(p) \in Nat
               /\ Price(p) = Claim(p) - Return(p)
               /\ Claim(p) = 0 \/ Return(p) = 0
    <2>1. PICK x \in Int : x = Price(p)
      BY BucketAssumption DEF Price
    <2>2. /\ Claim(p) = (IF x >= 0 THEN x ELSE 0)
          /\ Return(p) = (IF -x >= 0 THEN -x ELSE 0)
      <3>1. -x \in Int /\ 0 \in Int
        OBVIOUS
      <3>2. Max({x, 0}) = (IF x >= 0 THEN x ELSE 0)
        BY <3>1, MaxLemma
      <3>3. Max({-x, 0}) = (IF -x >= 0 THEN -x ELSE 0)
        BY <3>1, MaxLemma
      <3>4. QED
        BY <2>1, <3>2, <3>3 DEF Claim, Return
    <2>3. QED
      BY <2>1, <2>2
  <1>3. QED
    BY <1>1, <1>2

\* Whatever Init was given, Sync keeps the types.
LEMMA SyncType ==
    ASSUME BucketTypeOK, NEW now \in Nat
    PROVE  Sync(now).stored \in Int /\ Sync(now).free \in Nat
  <1>0. max_permits \in Int /\ next_free_ \in Nat /\ stored_permits_ \in Int
    BY BucketAssumption DEF BucketTypeOK
  <1>1. CASE now > next_free_
    <2>1. PICK sum \in Int : sum = stored_permits_ + (now - next_free_) * max_permits
      BY <1>0
    <2>2. Capacity \in Int
      BY <1>0, PriceLemma
    <2>3. Sync(now).free = now /\ Sync(now).stored = Min({Capacity, sum})
      BY <1>1, <2>1 DEF Sync
    <2>4. QED
      BY <2>1, <2>2, <2>3, MinLemma
  <1>2. CASE ~(now > next_free_)
    BY <1>0, <1>2 DEF Sync
  <1>3. QED
    BY <1>1, <1>2

\* Sync with a positive max_permits: never below zero, never beyond what the bucket
\* may hold, never more than the elapsed time produces, and never back in time.
LEMMA SyncLemma ==
    ASSUME BucketTypeOK, max_permits > 0, WithinCapacity, NEW now \in Nat
    PROVE  /\ Sync(now).stored \in 0 .. Capacity + returned
           /\ Sync(now).free \in Nat
           /\ Sync(now).free >= now /\ Sync(now).free >= next_free_
           /\ Sync(now).stored
                 <= stored_permits_ + (Sync(now).free - next_free_) * max_permits
  <1>0. /\ max_permits \in Nat /\ Capacity \in Nat /\ next_free_ \in Nat
        /\ stored_permits_ \in 0 .. Capacity + returned /\ returned \in Nat
    BY BucketAssumption, PriceLemma DEF BucketTypeOK, WithinCapacity
  <1>1. CASE now > next_free_
    <2>1. PICK made \in Nat : made = (now - next_free_) * max_permits
      BY <1>0, <1>1
    <2>2. /\ Sync(now).free = now
          /\ Sync(now).stored = Min({Capacity, stored_permits_ + made})
      BY <1>1, <2>1 DEF Sync
    <2>3. PICK sum \in Nat : sum = stored_permits_ + made
      BY <1>0
    <2>4. Sync(now).stored = IF Capacity <= sum THEN Capacity ELSE sum
      BY <1>0, <2>2, <2>3, MinLemma
    <2>5. /\ Sync(now).stored \in 0 .. Capacity + returned
          /\ Sync(now).stored <= stored_permits_ + made
      BY <1>0, <2>3, <2>4
    <2>6. QED
      BY <1>0, <1>1, <2>1, <2>2, <2>5
  <1>2. CASE ~(now > next_free_)
    <2>1. Sync(now).free = next_free_ /\ Sync(now).stored = stored_permits_
      BY <1>2 DEF Sync
    <2>2. QED
      BY <1>0, <1>2, <2>1
  <1>3. QED
    BY <1>1, <1>2

(* Facts of arithmetic: the products below are the only nonlinear terms. *)
LEMMA Products ==
    ASSUME NEW a \in Int, NEW b \in Int, NEW c \in Int, NEW m \in Int
    PROVE  /\ (a - b) * m \in Int
           /\ (a - b) * m + (c - a) * m = (c - b) * m
           /\ (a + c - b) * m = (a - b) * m + c * m
           /\ (a + 1 - b) * m = (a - b) * m + m
  OBVIOUS

\* A call of Aquire keeps the types.
LEMMA AquireTypes ==
    ASSUME BucketTypeOK, NEW permits \in Int, NEW now \in Nat, Aquire(permits, now)
    PROVE  BucketTypeOK'
  <1> DEFINE S == Sync(now).stored
             F == Sync(now).free
             P == Price(permits)
             used == Min({P, S})
             entry == [now |-> now, before |-> claimed, back |-> returned, call |-> calls]
  <1>0. /\ max_permits \in Int /\ calls \in Nat /\ claimed \in Nat /\ returned \in Nat
        /\ log \in Seq(Entry)
    BY BucketAssumption DEF BucketTypeOK, Entry
  <1>1. /\ \E delay \in Delay(P - used) : next_free_' = Later(F, delay)
        /\ stored_permits_' = S - used
        /\ log' = IF F - now = 0 THEN Append(log, entry) ELSE log
        /\ claimed' = claimed + Claim(permits)
        /\ returned' = returned + Return(permits)
        /\ calls' = calls + 1
        /\ max_permits' = max_permits
    BY DEF Aquire, Claim, Return
  <1>2. /\ S \in Int /\ F \in Nat /\ P \in Int /\ Claim(permits) \in Nat
        /\ Return(permits) \in Nat
    BY <1>0, SyncType, PriceLemma
  <1> HIDE DEF S, F, P
  <1>3. used \in Int /\ P - used \in Nat
    BY <1>2, MinLemma
  <1> HIDE DEF used
  <1>4. next_free_' \in Nat
    <2>1. PICK delay \in Delay(P - used) : next_free_' = Later(F, delay)
      BY <1>1
    <2>2. CASE max_permits > 0
      <3>1. delay \in Nat
        BY <1>0, <1>3, <2>1, <2>2, DelayLemma
      <3>2. QED
        BY <1>2, <2>1, <2>2, <3>1 DEF Later
    <2>3. CASE ~(max_permits > 0)
      <3>1. PICK t \in Int : t = F + delay
        BY <1>0, <1>2, <1>3, <2>1, DelayType
      <3>2. TimeRange \in Nat \ {0}
        BY BucketAssumption
      <3>3. t % TimeRange \in Nat
        BY <3>1, <3>2
      <3>4. QED
        BY <2>1, <2>3, <3>1, <3>3 DEF Later
    <2>4. QED
      BY <2>2, <2>3
  <1>5. log' \in Seq(Entry)
    <2>1. entry \in Entry
      BY <1>0 DEF Entry
    <2>2. CASE F - now = 0
      BY <1>0, <1>1, <2>1, <2>2
    <2>3. CASE F - now # 0
      BY <1>0, <1>1, <2>3
    <2>4. QED
      BY <2>2, <2>3
  <1>6. QED
    <2>0. stored_permits_' \in Int
      BY <1>1, <1>2, <1>3
    <2>1. stored_permits_' \in Int /\ calls' \in Nat /\ claimed' \in Nat /\ returned' \in Nat
      <3>1. /\ calls' = calls + 1 /\ claimed' = claimed + Claim(permits)
            /\ returned' = returned + Return(permits)
        BY <1>1
      <3>2. /\ calls \in Nat /\ claimed \in Nat /\ returned \in Nat
            /\ Claim(permits) \in Nat /\ Return(permits) \in Nat
        BY <1>0, <1>2
      <3>3. QED
        BY <2>0, <3>1, <3>2
    <2>2. max_permits' \in MaxPermits
      BY <1>1 DEF BucketTypeOK
    <2>3. QED
      BY <1>4, <1>5, <2>1, <2>2 DEF BucketTypeOK, Entry

\* With a positive max_permits, a call of Aquire preserves the account.
LEMMA AquireStep ==
    ASSUME BucketInv, NEW permits \in Int, NEW now \in Nat, Aquire(permits, now),
           max_permits > 0
    PROVE  /\ WithinCapacity' /\ Account' /\ RateBound'
           /\ next_free_' >= next_free_
           /\ stored_permits_' > stored_permits_
                 => next_free_' > next_free_ \/ returned' > returned
  <1> USE BucketAssumption
  <1> DEFINE S == Sync(now).stored
             F == Sync(now).free
             P == Price(permits)
             C == Claim(permits)
             R == Return(permits)
             used == Min({P, S})
             M == max_permits
             entry == [now |-> now, before |-> claimed, back |-> returned, call |-> calls]
  <1>0. /\ M \in Nat \ {0} /\ Capacity \in Nat
        /\ stored_permits_ \in 0 .. Capacity + returned
        /\ next_free_ \in Nat /\ calls \in Nat /\ claimed \in Nat /\ returned \in Nat
        /\ log \in Seq(Entry)
    BY PriceLemma DEF BucketInv, BucketTypeOK, WithinCapacity, Entry
  <1>a. P \in Int /\ C \in Nat /\ R \in Nat /\ P = C - R /\ (C = 0 \/ R = 0)
    BY <1>0, PriceLemma
  <1>1. /\ \E delay \in Delay(P - used) : next_free_' = F + delay
        /\ stored_permits_' = S - used
        /\ log' = IF F - now = 0 THEN Append(log, entry) ELSE log
        /\ claimed' = claimed + C
        /\ returned' = returned + R
        /\ calls' = calls + 1
        /\ max_permits' = M
    BY DEF Aquire, Claim, Return, Later
  <1>b. Capacity' = Capacity
    BY <1>1 DEF Capacity, max_permits_
  <1>2. /\ S \in 0 .. Capacity + returned /\ F \in Nat /\ F >= now /\ F >= next_free_
        /\ S <= stored_permits_ + (F - next_free_) * M
    BY SyncLemma DEF BucketInv
  <1> HIDE DEF S, F, P, C, R
  <1>3. used \in Int /\ used <= S /\ used = (IF P <= S THEN P ELSE S) /\ P - used \in Nat
    BY <1>a, <1>2, MinLemma
  <1> HIDE DEF used
  <1>4. PICK D \in Nat : next_free_' = F + D /\ P - used <= D * M + (M - 1)
    <2>1. PICK D \in Delay(P - used) : next_free_' = F + D
      BY <1>1
    <2>2. D \in Nat /\ P - used <= D * M + (M - 1)
      BY <1>0, <1>3, <2>1, DelayLemma
    <2>3. QED
      BY <2>1, <2>2
  <1> HIDE DEF M
  <1>5. stored_permits_' \in 0 .. Capacity + returned'
    BY <1>0, <1>1, <1>2, <1>3, <1>a
  <1>6. PICK d \in Int : d = D * M
    BY <1>0, <1>4
  <1>7. claimed' + stored_permits_' <= claimed + S + R + d + (M - 1)
    BY <1>0, <1>1, <1>2, <1>3, <1>4, <1>6, <1>a
  <1>8. ASSUME NEW e \in Entry,
               claimed - e.before + stored_permits_
                  <= Capacity + returned + (next_free_ - e.now) * M + (calls - e.call) * (M - 1)
        PROVE  /\ claimed' - e.before + stored_permits_'
                     <= Capacity + returned' + (next_free_' - e.now) * M
                           + (calls' - e.call) * (M - 1)
               /\ claimed - e.before
                     <= Capacity + returned + (F - e.now) * M + (calls - e.call) * (M - 1)
    <2>0. e.now \in Nat /\ e.before \in Nat /\ e.call \in Nat
      BY DEF Entry
    <2>1. PICK x \in Int : x = (next_free_ - e.now) * M
      BY <1>0, <2>0, Products
    <2>2. PICK y \in Int : y = (F - next_free_) * M
      BY <1>0, <1>2, Products
    <2>3. PICK z \in Int : z = (calls - e.call) * (M - 1)
      BY <1>0, <2>0, Products
    <2>4. (F - e.now) * M = x + y
      <3>1. next_free_ \in Int /\ e.now \in Int /\ F \in Int /\ M \in Int
        BY <1>0, <1>2, <2>0
      <3>2. (next_free_ - e.now) * M + (F - next_free_) * M = (F - e.now) * M
        BY <3>1, Products
      <3>3. QED
        BY <2>1, <2>2, <3>2
    <2>5. (next_free_' - e.now) * M = x + y + d
      <3>1. (F + D - e.now) * M = (F - e.now) * M + D * M
        BY <1>0, <1>2, <1>4, <2>0, Products
      <3>2. (F - e.now) * M + D * M = x + y + d
        BY <1>6, <2>4
      <3>3. next_free_' - e.now = F + D - e.now
        BY <1>0, <1>2, <1>4, <2>0
      <3>4. QED
        BY <3>1, <3>2, <3>3
    <2>6. (calls' - e.call) * (M - 1) = z + (M - 1)
      <3>1. PICK m \in Int : m = M - 1
        BY <1>0
      <3>2. (calls + 1 - e.call) * m = (calls - e.call) * m + m
        BY <1>0, <2>0, Products
      <3>3. calls' - e.call = calls + 1 - e.call
        <4>1. calls \in Nat /\ calls' = calls + 1
          BY <1>0, <1>1
        <4>2. QED
          BY <2>0, <4>1
      <3>4. (calls' - e.call) * m = z + m
        BY <2>3, <3>1, <3>2, <3>3
      <3>5. QED
        BY <3>1, <3>4
    <2>7. claimed - e.before + stored_permits_ <= Capacity + returned + x + z
      BY <1>8, <2>1, <2>3
    <2>8. S <= stored_permits_ + y
      BY <1>2, <2>2
    <2>9. claimed - e.before + S <= Capacity + returned + x + y + z
      BY <1>0, <1>2, <2>0, <2>7, <2>8
    <2>10. claimed' - e.before + stored_permits_' <= Capacity + returned' + (x + y + d) + (z + (M - 1))
      BY <1>0, <1>1, <1>2, <1>3, <1>5, <1>7, <1>a, <2>0, <2>9, SMTT(30)
    <2>11. claimed - e.before <= Capacity + returned + (x + y) + z
      BY <1>0, <1>2, <2>0, <2>9
    <2>12. QED
      BY <2>3, <2>4, <2>5, <2>6, <2>10, <2>11
  <1>9. \A i \in DOMAIN log :
           /\ log[i] \in Entry
           /\ claimed - log[i].before + stored_permits_
                 <= Capacity + returned + (next_free_ - log[i].now) * M
                             + (calls - log[i].call) * (M - 1)
    <2>1. \A i \in DOMAIN log : log[i] \in Entry
      BY <1>0
    <2>2. QED
      BY <1>0, <2>1 DEF BucketInv, Account, M
  <1>10. ASSUME F - now = 0 PROVE Account' /\ RateBound'
    <2>1. /\ log' = Append(log, entry) /\ DOMAIN log' = 1 .. Len(log) + 1
          /\ DOMAIN log = 1 .. Len(log) /\ Len(log) \in Nat
          /\ \A i \in DOMAIN log : log'[i] = log[i]
          /\ log'[Len(log) + 1] = entry
      <3>1. log \in Seq(Entry) /\ entry \in Entry
        BY <1>0 DEF Entry
      <3>2. log' = Append(log, entry)
        BY <1>1, <1>10
      <3> HIDE DEF entry
      <3>3. QED
        BY <3>1, <3>2
    <2>2. Account'
      <3>1. claimed' - claimed + stored_permits_'
               <= Capacity + returned' + (next_free_' - now) * M + (calls' - calls) * (M - 1)
        <4>1. next_free_' - now = D /\ calls' - calls = 1
          BY <1>0, <1>1, <1>2, <1>4, <1>10
        <4>2. (next_free_' - now) * M = d /\ (calls' - calls) * (M - 1) = M - 1
          BY <1>0, <1>6, <4>1
        <4>3. claimed' - claimed + stored_permits_' <= Capacity + returned' + d + (M - 1)
          BY <1>0, <1>1, <1>2, <1>3, <1>5, <1>7, <1>a
        <4>4. QED
          BY <4>2, <4>3
      <3>2. ASSUME NEW i \in DOMAIN log'
            PROVE  claimed' - log'[i].before + stored_permits_'
                      <= Capacity + returned' + (next_free_' - log'[i].now) * M
                                  + (calls' - log'[i].call) * (M - 1)
        <4>1. CASE i \in DOMAIN log
          BY <1>8, <1>9, <2>1, <4>1
        <4>2. CASE i = Len(log) + 1
          BY <2>1, <3>1, <4>2
        <4>3. QED
          BY <2>1, <4>1, <4>2
      <3>3. QED
        BY <1>1, <1>b, <3>2 DEF Account, M
    <2>3. RateBound'
      <3>1. ASSUME NEW i \in DOMAIN log', NEW j \in DOMAIN log', i <= j
            PROVE  log'[j].before - log'[i].before
                      <= Capacity + log'[j].back + (log'[j].now - log'[i].now) * M
                                  + (log'[j].call - log'[i].call) * (M - 1)
        <4>1. CASE j \in DOMAIN log
          <5>1. i \in DOMAIN log
            BY <2>1, <3>1, <4>1
          <5>2. QED
            BY <1>0, <2>1, <3>1, <4>1, <5>1 DEF BucketInv, RateBound, M
        <4>2. CASE j = Len(log) + 1 /\ i \in DOMAIN log
          <5>1. claimed - log[i].before
                   <= Capacity + returned + (F - log[i].now) * M
                               + (calls - log[i].call) * (M - 1)
            BY <1>8, <1>9, <4>2
          <5>2. F = now
            BY <1>2, <1>10
          <5>3. QED
            BY <2>1, <4>2, <5>1, <5>2
        <4>3. CASE i = Len(log) + 1 /\ j = Len(log) + 1
          <5>1. /\ log'[j].before - log'[i].before = 0
                /\ log'[j].now - log'[i].now = 0
                /\ log'[j].call - log'[i].call = 0 /\ log'[j].back \in Nat
            BY <1>0, <2>1, <4>3
          <5>2. QED
            BY <1>0, <5>1
        <4>4. QED
          BY <2>1, <3>1, <4>1, <4>2, <4>3
      <3>2. QED
        BY <1>1, <1>b, <3>1 DEF RateBound, M
    <2>4. QED
      BY <2>2, <2>3
  <1>11. ASSUME F - now # 0 PROVE Account' /\ RateBound'
    <2>1. log' = log
      BY <1>1, <1>11
    <2>2. \A i \in DOMAIN log :
             claimed' - log[i].before + stored_permits_'
                <= Capacity + returned' + (next_free_' - log[i].now) * M
                            + (calls' - log[i].call) * (M - 1)
      BY <1>8, <1>9
    <2>3. QED
      BY <1>0, <1>1, <1>b, <2>1, <2>2 DEF BucketInv, Account, RateBound, M
  <1>12. next_free_' >= next_free_
    BY <1>0, <1>2, <1>4
  <1>13. stored_permits_' > stored_permits_
            => next_free_' > next_free_ \/ returned' > returned
    <2>1. CASE F = next_free_ /\ R = 0
      <3>1. S <= stored_permits_
        BY <1>0, <1>2, <2>1
      <3>2. used >= 0
        BY <1>2, <1>3, <1>a, <2>1
      <3>3. QED
        BY <1>0, <1>1, <1>2, <1>3, <3>1, <3>2
    <2>2. CASE F > next_free_
      BY <1>0, <1>2, <1>4, <2>2
    <2>3. CASE R # 0
      BY <1>0, <1>1, <1>a, <2>3
    <2>4. QED
      BY <1>0, <1>2, <2>1, <2>2, <2>3
  <1>14. Account' /\ RateBound'
    BY <1>10, <1>11, Zenon
  <1>15. WithinCapacity'
    BY <1>5, <1>b DEF WithinCapacity
  <1>16. QED
    BY <1>12, <1>13, <1>14, <1>15, Zenon

\* Every step is a call of Aquire, which leaves max_permits alone.
LEMMA EveryStepAquires ==
    ASSUME BucketNext
    PROVE  /\ \E permits \in Int, now \in Nat : Aquire(permits, now)
           /\ max_permits' = max_permits
  <1>1. ASSUME NEW r \in Stamps, allow(r)
        PROVE  \E permits \in Int, now \in Nat : Aquire(permits, now)
    <2>1. PICK now \in Nat : now = (r * Thousand) % UintRange
      BY BucketAssumption
    <2>2. QED
      BY <1>1, <2>1 DEF allow
  <1>2. \E permits \in Int, now \in Nat : Aquire(permits, now)
    BY <1>1, BucketAssumption DEF BucketNext
  <1>3. QED
    BY <1>2 DEF Aquire

\* The invariant holds initially.
LEMMA BucketInvInit == BucketInit => BucketInv
  <1> SUFFICES ASSUME BucketInit PROVE BucketInv
    OBVIOUS
  <1>1. max_permits \in Int /\ max_permits \in MaxPermits
    BY BucketAssumption DEF BucketInit
  <1>2. Capacity \in Nat
    BY <1>1, PriceLemma
  <1>3. QED
    BY <1>1, <1>2 DEF BucketInit, BucketInv, BucketTypeOK, WithinCapacity, Account, RateBound

\* The invariant is preserved.
LEMMA BucketInvStep == BucketInv /\ [BucketNext]_bucketvars => BucketInv'
  <1> SUFFICES ASSUME BucketInv, [BucketNext]_bucketvars PROVE BucketInv'
    OBVIOUS
  <1>1. CASE BucketNext
    <2>1. PICK permits \in Int, now \in Nat : Aquire(permits, now)
      BY <1>1, EveryStepAquires
    <2>2. BucketTypeOK'
      BY <2>1, AquireTypes DEF BucketInv
    <2>3. max_permits > 0 => WithinCapacity' /\ Account' /\ RateBound'
      BY <2>1, AquireStep
    <2>4. QED
      BY <1>1, <2>2, <2>3, EveryStepAquires DEF BucketInv
  <1>2. CASE UNCHANGED bucketvars
    BY <1>2 DEF bucketvars, BucketInv, BucketTypeOK, WithinCapacity, Account, RateBound,
                Capacity, max_permits_
  <1>3. QED
    BY <1>1, <1>2

\* Whatever Init and Aquire are given, the limiter keeps its types; with a positive
\* max_permits, the bucket exceeds its capacity only by what was put back, and between
\* any two calls that passed no more is claimed than a full bucket, what was put back
\* and the elapsed time allow.
THEOREM RateIsLimited == BucketSpec => []RateLimited
  <1>1. BucketInv => RateLimited
    BY DEF BucketInv, RateLimited
  <1>2. QED
    BY BucketInvInit, BucketInvStep, <1>1, PTL DEF BucketSpec

\* With a positive max_permits, a time stamp of the past never moves next_free_ back,
\* and the bucket gains only by time or by permits put back.
THEOREM PastGivesNothing == BucketSpec => NoPermitsFromThePast
  <1>1. BucketInv /\ [BucketNext]_bucketvars
        => [max_permits > 0 =>
               /\ next_free_' >= next_free_
               /\ stored_permits_' > stored_permits_
                     => next_free_' > next_free_ \/ returned' > returned]_bucketvars
    <2> SUFFICES ASSUME BucketInv, BucketNext, max_permits > 0
                 PROVE  /\ next_free_' >= next_free_
                        /\ stored_permits_' > stored_permits_
                              => next_free_' > next_free_ \/ returned' > returned
      OBVIOUS
    <2>1. PICK permits \in Int, now \in Nat : Aquire(permits, now)
      BY EveryStepAquires
    <2>2. QED
      BY <2>1, AquireStep
  <1>2. QED
    BY <1>1, BucketInvInit, BucketInvStep, PTL DEF BucketSpec, NoPermitsFromThePast
=============================================================================
