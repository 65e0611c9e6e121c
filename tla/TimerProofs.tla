----------------------------- MODULE TimerProofs -----------------------------
(***************************************************************************)
(* Proofs about the timers.  First the queue, module TimerQueue, for any   *)
(* number of timers, delays, intervals and adjustments of the clock, when  *)
(* the application calls the queue from callbacks or while the loop waits  *)
(* (Serialised); then the manager's loop and its channels, module          *)
(* TimerLoop.                                                              *)
(***************************************************************************)
EXTENDS TimerQueue, TimerLoop, FunctionTheorems, FiniteSetTheorems, TLAPS

-----------------------------------------------------------------------------
(* The inductive invariant. *)

(* Only thread h is in a call.  A call of the loop thread comes from a callback or
   from Reset, one of the user thread while the loop waits. *)
Alone(h) ==
    /\ \A g \in Thread \ {h} : cpc[g] = "idle"
    /\ cpc[h] # "idle" => IF h = "user" THEN lpc = "wait" ELSE lpc \in {"callback", "reset"}
    /\ lpc = "reset" => cpc[h] \in {"idle", "insert", "emplace", "activate"}

(* Where the timers are while the call stands at l and is about timer x. *)
Stored(l, x) ==
    LET T == Entries(timers_)
    IN CASE lpc = "deactivate" -> active_timers_ = T \cup lexpired /\ T \cap lexpired = {}
         [] l = "activate"     -> T = active_timers_ \cup {x} /\ x \notin active_timers_
         [] l = "delete"       -> active_timers_ = T \cup {x} /\ x \notin T
         [] OTHER              -> T = active_timers_

(* Which Timer objects exist, and whose they are. *)
Owned(l, x) ==
    /\ alive = active_timers_ \cup lexpired
                   \cup (IF l \in {"insert", "emplace", "activate"} THEN {x} ELSE {})
    /\ l \in {"insert", "emplace", "activate"} => x \notin active_timers_ \cup lexpired
    /\ l \in {"arm", "result", "erase", "delete"} => x \in active_timers_

(* The expired timers: in no container once GetExpired has returned, and in lrun
   those whose callbacks have not started. *)
Expired ==
    /\ lpc # "deactivate" => lexpired \cap active_timers_ = {}
    /\ lpc \in {"wait", "read", "expire", "rearm"} => lexpired = {}
    /\ lrun \subseteq lexpired
    /\ lrun # {} => lpc \in {"calling", "run", "callback"}

(* The end iterator is read by a StopTimer for a timer in neither container, and it ends
   the program: the thread stays there. *)
EndRead ==
    /\ \A h \in Thread : cpc[h] = "canceling" => fault = "end_deref"
    /\ fault = "end_deref"
          => /\ callingExpiredTimers_
             /\ \E h \in Thread : /\ cpc[h] = "canceling"
                                  /\ ctimer[h] \notin active_timers_ \cup Entries(timers_)

(* An entry carries the expiration of its timer. *)
Exact == \A e \in timers_ : e[1] = expiration_[e[2]]

CallInv(h) == Alone(h) /\ Stored(cpc[h], ctimer[h]) /\ Owned(cpc[h], ctimer[h])

QueueInv ==
    /\ TypeOK /\ fault \in {"none", "end_deref"}
    /\ Exact /\ Expired /\ EndRead
    /\ \E h \in Thread : CallInv(h)

-----------------------------------------------------------------------------
(* What the steps rest on. *)

\* The greatest of one and a number.
LEMMA MaxOne == \A s \in Int : Max({1, s}) = IF s <= 1 THEN 1 ELSE s
  <1> SUFFICES ASSUME NEW s \in Int PROVE Max({1, s}) = IF s <= 1 THEN 1 ELSE s
    OBVIOUS
  <1>1. \E x \in {1, s} : \A y \in {1, s} : x >= y
    OBVIOUS
  <1>2. Max({1, s}) \in {1, s} /\ \A y \in {1, s} : Max({1, s}) >= y
    BY <1>1 DEF Max
  <1>3. QED
    BY <1>2

\* Entries that carry the expirations of their timers are as many as the timers.
LEMMA SizeOfEntries ==
    ASSUME TypeOK, Exact
    PROVE  Cardinality(timers_) = Cardinality(Entries(timers_))
  <1> DEFINE T == Entries(timers_)
             f == [t \in T |-> <<expiration_[t], t>>]
  <1>1. T \subseteq TimerId /\ timers_ \subseteq Int \X TimerId
    BY DEF TypeOK, Entries
  <1>2. IsFiniteSet(T)
    <2>1. IsFiniteSet(TimerId)
      BY TimerConstants, FS_Interval DEF TimerId
    <2>2. QED
      BY <1>1, <2>1, FS_Subset
  <1>3. \A e \in timers_ : e = <<expiration_[e[2]], e[2]>> /\ e[2] \in T
    BY <1>1 DEF Exact, Entries
  <1>4. \A t \in T : <<expiration_[t], t>> \in timers_
    BY <1>3 DEF Entries
  <1>5. f \in Bijection(T, timers_)
    <2> HIDE DEF T
    <2>1. f \in [T -> timers_]
      BY <1>4
    <2>2. f \in Injection(T, timers_)
      BY <2>1 DEF Injection, IsInjective
    <2>3. \A e \in timers_ : \E t \in T : f[t] = e
      BY <1>3
    <2>4. QED
      BY <2>1, <2>2, <2>3 DEF Bijection, Surjection
  <1>6. QED
    BY <1>2, <1>5, FS_Bijection DEF ExistsBijection

\* The thread that is in a call.
LEMMA InCall ==
    ASSUME QueueInv, NEW h \in Thread, cpc[h] # "idle", fault = "none"
    PROVE  /\ CallInv(h) /\ \A g \in Thread \ {h} : cpc[g] = "idle"
           /\ ctimer[h] \in alive /\ ctimer[h] \in TimerId
           /\ lpc = IF h = "user" THEN "wait" ELSE IF lpc = "reset" THEN "reset" ELSE "callback"
  <1>1. CallInv(h)
    BY DEF QueueInv, CallInv, Alone
  <1>2. cpc[h] \in {"insert", "emplace", "activate", "arm", "result", "erase", "delete"}
    BY DEF QueueInv, TypeOK, EndRead
  <1>3. ctimer[h] \in alive
    BY <1>1, <1>2 DEF CallInv, Owned
  <1>4. alive \subseteq TimerId
    BY TimerConstants DEF QueueInv, TypeOK, TimerId
  <1>5. QED
    BY <1>1, <1>3, <1>4 DEF CallInv, Alone

\* HandleRead goes on while no call is under way.
LEMMA NoCall ==
    ASSUME Serialised, QueueInv, cpc["loop"] = "idle", lpc # "wait" \/ cpc["user"] = "idle"
    PROVE  /\ \A h \in Thread : cpc[h] = "idle" /\ CallInv(h)
           /\ alive = active_timers_ \cup lexpired /\ alive \subseteq TimerId
           /\ lpc # "deactivate" => Entries(timers_) = active_timers_
  <1>1. PICK h \in Thread : CallInv(h)
    BY DEF QueueInv
  <1>2. \A g \in Thread : cpc[g] = "idle"
    BY <1>1 DEF CallInv, Alone, Thread
  <1>3. \A g \in Thread : CallInv(g)
    BY <1>1, <1>2 DEF CallInv, Alone, Stored, Owned
  <1>4. alive \subseteq TimerId
    BY TimerConstants DEF QueueInv, TypeOK, TimerId
  <1>5. QED
    BY <1>1, <1>2, <1>3, <1>4 DEF CallInv, Stored, Owned

\* delete keeps the types of what it changes.
LEMMA DeleteTypes ==
    ASSUME TypeOK, NEW t \in TimerId, Delete(t), num_created_' = num_created_
    PROVE  /\ alive' \subseteq 0 .. num_created_' - 1
           /\ expiration_' \in [TimerId -> Int] /\ interval_' \in [TimerId -> Nat]
  <1>1. alive' \subseteq alive /\ alive \subseteq 0 .. num_created_ - 1
    BY DEF TypeOK, Delete
  <1>2. expiration_' \in [TimerId -> Int]
    BY DEF TypeOK, Delete
  <1>3. interval_' \in [TimerId -> Nat]
    BY DEF TypeOK, Delete
  <1>4. QED
    BY <1>1, <1>2, <1>3

\* Every step keeps the types.
LEMMA ApiTypes ==
    ASSUME QueueInv, NEW h \in Thread, ApiCall(h) \/ ApiStep(h)
    PROVE  TypeOK'
  <1>1. TypeOK /\ fault \in {"none", "end_deref"} /\ jumps' = jumps
    BY DEF QueueInv, ApiCall, ApiStep
  <1>2. ASSUME NEW when \in Delays, NEW interval \in Intervals, AddTimer(h, when, interval)
        PROVE  TypeOK'
    <2>1. when \in Int /\ interval \in Nat /\ num_created_ \in TimerId /\ num_created_ + 1 \in 0 .. MaxTimers
      BY <1>1, <1>2, TimerConstants DEF AddTimer, TypeOK, TimerId
    <2>2. alive' \subseteq 0 .. num_created_' - 1
      BY <1>1, <1>2 DEF AddTimer, TypeOK
    <2>3. QED
      BY <1>1, <1>2, <2>1, <2>2 DEF AddTimer, TypeOK, Goto, qvars, callingvars, lvars
  <1>3. ASSUME NEW t \in TimerId, StopTimer(h, t) PROVE TypeOK'
    <2>1. UNCHANGED <<tvars, qvars, timerfd, cearliest, lvars>>
      BY <1>3 DEF StopTimer
    <2>2. /\ fault' \in {"none", "assert", "end_deref"}
          /\ ctimer' \in [Thread -> TimerId \cup {0}]
      BY <1>1, <1>3 DEF StopTimer, Assert, TypeOK
    <2>3. \/ cpc' = cpc
          \/ \E l \in {"erase", "canceling"} : Goto(h, l)
      BY <1>3 DEF StopTimer
    <2>4. cpc' \in [Thread -> {"idle", "insert", "emplace", "activate", "arm", "result",
                              "erase", "delete", "canceling"}]
      BY <1>1, <2>3 DEF Goto, TypeOK
    <2>5. QED
      BY <1>1, <2>1, <2>2, <2>4 DEF TypeOK, tvars, qvars, callingvars, lvars
  <1>4. ASSUME cpc[h] # "idle", fault = "none"
        PROVE  ctimer[h] \in TimerId /\ expiration_[ctimer[h]] \in Int
    BY <1>1, <1>4, InCall DEF TypeOK
  <1>5. CASE InsertEarliest(h)
    BY <1>1, <1>5 DEF InsertEarliest, TypeOK, Goto, Assert, tvars, qvars, callingvars, lvars
  <1>6. CASE InsertTimers(h)
    BY <1>1, <1>4, <1>6 DEF InsertTimers, In, callingvars, TypeOK, Goto, tvars, lvars
  <1>7. CASE InsertActive(h)
    BY <1>1, <1>4, <1>7 DEF InsertActive, In, callingvars, TypeOK, Goto, Return, Assert, tvars, lvars
  <1>8. CASE ArmForNewTimer(h)
    <2>1. timerfd' \in Nat
      BY <1>4, <1>8, MaxOne DEF ArmForNewTimer, In, resetTimerfd
    <2>2. QED
      BY <1>1, <1>8, <2>1 DEF ArmForNewTimer, Deref, TypeOK, Goto, tvars, qvars, callingvars, lvars
  <1>9. CASE AddTimerResult(h)
    BY <1>1, <1>9 DEF AddTimerResult, Deref, TypeOK, Goto, Return, tvars, qvars, callingvars, lvars
  <1>10. CASE CancelTimers(h)
    BY <1>1, <1>10 DEF CancelTimers, Deref, callingvars, TypeOK, Goto, tvars, lvars
  <1>11. CASE CancelActive(h)
    <2>1. /\ alive' \subseteq 0 .. num_created_' - 1
          /\ expiration_' \in [TimerId -> Int] /\ interval_' \in [TimerId -> Nat]
      BY <1>1, <1>4, <1>11, DeleteTypes DEF CancelActive, In
    <2>2. QED
      BY <1>1, <1>11, <2>1 DEF CancelActive, callingvars, Assert, TypeOK, Goto, Return, lvars
  <1>12. QED
    BY <1>2, <1>3, <1>5, <1>6, <1>7, <1>8, <1>9, <1>10, <1>11 DEF ApiCall, ApiStep

\* The same for HandleRead.
LEMMA LoopTypes ==
    ASSUME QueueInv, LoopStep
    PROVE  TypeOK'
  <1>1. TypeOK /\ fault \in {"none", "end_deref"} /\ jumps' = jumps
    BY DEF QueueInv, LoopStep
  <1>2. CASE Wakeup \/ ReadTimerfd \/ BeginCalling \/ CallbackReturns \/ EndCalling
    <2>1. CASE Wakeup
      BY <1>1, <2>1 DEF Wakeup, TypeOK, tvars, qvars, callingvars, cvars
    <2>2. CASE CallbackReturns
      BY <1>1, <2>2 DEF CallbackReturns, TypeOK, tvars, qvars, callingvars, cvars
    <2>3. CASE ReadTimerfd
      BY <1>1, <2>3 DEF ReadTimerfd, TypeOK, tvars, qvars, callingvars, cvars
    <2>4. CASE BeginCalling
      BY <1>1, <2>4 DEF BeginCalling, TypeOK, tvars, cvars
    <2>5. CASE EndCalling
      BY <1>1, <2>5 DEF EndCalling, TypeOK, tvars, cvars
    <2>6. QED
      BY <1>2, <2>1, <2>2, <2>3, <2>4, <2>5
  <1>3. CASE ExpireTimers
    <2>1. lexpired' \subseteq TimerId /\ timers_' \subseteq Int \X TimerId
      BY <1>1, <1>3 DEF ExpireTimers, Due, TypeOK
    <2>2. QED
      BY <1>1, <1>3, <2>1 DEF ExpireTimers, TypeOK, callingvars, tvars, cvars
  <1>4. CASE ExpireActive
    BY <1>1, <1>4 DEF ExpireActive, TypeOK, callingvars, tvars, cvars
  <1>5. ASSUME NEW t \in TimerId, StartTimer(t) PROVE TypeOK'
    BY <1>1, <1>5 DEF StartTimer, Deref, TypeOK, tvars, qvars, callingvars, cvars
  <1>6. ASSUME NEW t \in TimerId, ResetRepeating(t) PROVE TypeOK'
    <2>1. lnow + interval_[t] \in Int
      BY <1>1 DEF TypeOK
    <2>2. QED
      BY <1>1, <1>6, <2>1 DEF ResetRepeating, Deref, Goto, TypeOK, Thread, qvars, callingvars
  <1>7. ASSUME NEW t \in TimerId, ResetOneShot(t) PROVE TypeOK'
    <2>1. /\ alive' \subseteq 0 .. num_created_' - 1
          /\ expiration_' \in [TimerId -> Int] /\ interval_' \in [TimerId -> Nat]
      BY <1>1, <1>7, DeleteTypes DEF ResetOneShot
    <2>2. QED
      BY <1>1, <1>7, <2>1 DEF ResetOneShot, Deref, TypeOK, qvars, callingvars, cvars
  <1>8. CASE ResetNextExpire
    BY <1>1, <1>8 DEF ResetNextExpire, Deref, TypeOK, tvars, qvars, callingvars, cvars
  <1>9. CASE ResetRearm
    <2>1. timerfd' \in Nat
      BY <1>1, <1>9, MaxOne DEF ResetRearm, resetTimerfd, TypeOK
    <2>2. QED
      BY <1>1, <1>9, <2>1 DEF ResetRearm, TypeOK, tvars, qvars, callingvars, cvars
  <1>10. QED
    BY <1>2, <1>3, <1>4, <1>5, <1>6, <1>7, <1>8, <1>9 DEF LoopStep

-----------------------------------------------------------------------------
(* The steps of the containers. *)

(* What is left to show of a step of thread h. *)
Kept(h) == fault' \in {"none", "end_deref"} /\ Exact' /\ Expired' /\ CallInv(h)'

\* A thread goes to another place in its call.
LEMMA GotoFacts ==
    ASSUME TypeOK, NEW h \in Thread, NEW l, Goto(h, l)
    PROVE  cpc'[h] = l /\ \A g \in Thread \ {h} : cpc'[g] = cpc[g]
  BY DEF TypeOK, Goto

\* The call of thread h stands at l now, and is about timer x.
LEMMA CallNext ==
    ASSUME NEW h \in Thread, NEW l, NEW x, cpc'[h] = l, ctimer'[h] = x,
           Alone(h)', Stored(l, x)', Owned(l, x)'
    PROVE  CallInv(h)'
  BY DEF CallInv, Stored, Owned

\* The constructor of Timer: nobody else knows the new object.
LEMMA AddTimerStep ==
    ASSUME Serialised, QueueInv, NEW h \in Thread,
           NEW when \in Delays, NEW interval \in Intervals, AddTimer(h, when, interval)
    PROVE  Kept(h)
  <1>0. PICK n \in TimerId : n = num_created_ /\ n \notin alive
    BY TimerConstants DEF AddTimer, QueueInv, TypeOK, TimerId
  <1>1. /\ cpc["loop"] = "idle" /\ cpc[h] = "idle" /\ (lpc # "wait" \/ cpc["user"] = "idle")
        /\ lpc = IF h = "user" THEN "wait" ELSE "callback"
    <2>1. \A g \in Thread : cpc[g] # "idle" => lpc = IF g = "user" THEN "wait"
                                                     ELSE IF lpc = "reset" THEN "reset" ELSE "callback"
      BY InCall DEF AddTimer, CanCall, In
    <2>2. QED
      BY <2>1 DEF AddTimer, CanCall, In, Thread
  <1>2. /\ \A g \in Thread : cpc[g] = "idle"
        /\ alive = active_timers_ \cup lexpired /\ Entries(timers_) = active_timers_
    BY <1>1, NoCall
  <1>3. /\ alive' = alive \cup {n}
        /\ expiration_' = [expiration_ EXCEPT ![n] = when]
        /\ ctimer'[h] = n /\ UNCHANGED <<qvars, lvars, fault>> /\ Goto(h, "insert")
    BY <1>0 DEF AddTimer, QueueInv, TypeOK
  <1>4. cpc'[h] = "insert" /\ \A g \in Thread \ {h} : cpc'[g] = "idle"
    BY <1>2, <1>3, GotoFacts DEF QueueInv
  <1>5. Exact'
    <2>1. \A e \in timers_ : e[2] # n /\ e[2] \in TimerId
      BY <1>0, <1>2 DEF Entries, QueueInv, TypeOK
    <2>2. QED
      BY <1>3, <2>1 DEF Exact, QueueInv, TypeOK, qvars
  <1>6. Expired'
    BY <1>3 DEF Expired, QueueInv, qvars, lvars
  <1>7. CallInv(h)'
    <2>1. Alone(h)'
      BY <1>1, <1>3, <1>4 DEF Alone, lvars
    <2>2. Stored("insert", n)'
      BY <1>1, <1>2, <1>3 DEF Stored, Entries, qvars, lvars
    <2>3. Owned("insert", n)'
      BY <1>0, <1>2, <1>3 DEF Owned, qvars, lvars
    <2>4. QED
      BY <1>3, <1>4, <2>1, <2>2, <2>3, CallNext
  <1>8. QED
    BY <1>3, <1>5, <1>6, <1>7 DEF Kept, QueueInv

\* StopTimer: a timer that is in no container leads to the end iterator, or nowhere.
LEMMA StopTimerStep ==
    ASSUME Serialised, QueueInv, NEW h \in Thread, NEW t \in TimerId, StopTimer(h, t)
    PROVE  Kept(h)
  <1>1. /\ cpc["loop"] = "idle" /\ cpc[h] = "idle" /\ (lpc # "wait" \/ cpc["user"] = "idle")
        /\ lpc = IF h = "user" THEN "wait" ELSE "callback"
    <2>1. \A g \in Thread : cpc[g] # "idle" => lpc = IF g = "user" THEN "wait"
                                                     ELSE IF lpc = "reset" THEN "reset" ELSE "callback"
      BY InCall DEF StopTimer, CanCall, In
    <2>2. QED
      BY <2>1 DEF StopTimer, CanCall, In, Thread
  <1>2. /\ \A g \in Thread : cpc[g] = "idle" /\ CallInv(g)
        /\ alive = active_timers_ \cup lexpired /\ Entries(timers_) = active_timers_
    BY <1>1, NoCall
  <1>3. /\ UNCHANGED <<tvars, qvars, lvars>> /\ TypeOK /\ Exact /\ Expired /\ fault = "none"
    BY DEF StopTimer, QueueInv, CanCall, In
  <1>4. Exact' /\ Expired'
    BY <1>3 DEF Exact, Expired, tvars, qvars, lvars
  <1>5. CASE t \in active_timers_
    <2>1. Goto(h, "erase") /\ ctimer'[h] = t /\ fault' = "none"
      BY <1>3, <1>5 DEF StopTimer, TypeOK
    <2>2. cpc'[h] = "erase" /\ \A g \in Thread \ {h} : cpc'[g] = "idle"
      BY <1>2, <1>3, <2>1, GotoFacts
    <2>3. Alone(h)'
      BY <1>1, <1>3, <2>2 DEF Alone, lvars
    <2>4. Stored("erase", t)' /\ Owned("erase", t)'
      BY <1>1, <1>2, <1>3, <1>5 DEF Stored, Owned, Entries, tvars, qvars, lvars
    <2>5. QED
      BY <1>4, <2>1, <2>2, <2>3, <2>4, CallNext DEF Kept
  <1>6. CASE t \notin active_timers_
    <2>1. SizesEqual
      BY <1>2, <1>3, SizeOfEntries DEF SizesEqual
    <2>2. CASE Goto(h, "canceling") /\ ctimer'[h] = t /\ fault' = "end_deref"
      <3>1. cpc'[h] = "canceling" /\ \A g \in Thread \ {h} : cpc'[g] = "idle"
        BY <1>2, <1>3, <2>2, GotoFacts
      <3>2. Alone(h)'
        BY <1>1, <1>3, <3>1 DEF Alone, lvars
      <3>3. Stored("canceling", t)' /\ Owned("canceling", t)'
        BY <1>1, <1>2, <1>3 DEF Stored, Owned, Entries, tvars, qvars, lvars
      <3>4. QED
        BY <1>4, <2>2, <3>1, <3>2, <3>3, CallNext DEF Kept
    <2>3. CASE fault' = "none" /\ cpc' = cpc /\ ctimer' = ctimer
      <3>1. CallInv(h)'
        BY <1>2, <1>3, <2>3 DEF CallInv, Alone, Stored, Owned, Entries, tvars, qvars, lvars
      <3>2. QED
        BY <1>4, <2>3, <3>1 DEF Kept
    <2>4. QED
      BY <1>3, <1>6, <2>1, <2>2, <2>3 DEF StopTimer, Assert, TypeOK
  <1>7. QED
    BY <1>5, <1>6

\* Where a call stands.
LEMMA CallFacts ==
    ASSUME QueueInv, NEW h \in Thread, NEW l, In(h, l), l # "idle"
    PROVE  \E x \in TimerId :
              /\ ctimer[h] = x /\ x \in alive /\ Stored(l, x) /\ Owned(l, x)
              /\ TypeOK /\ Exact /\ Expired /\ fault = "none" /\ cpc[h] = l
              /\ \A g \in Thread \ {h} : cpc[g] = "idle"
              /\ lpc = IF h = "user" THEN "wait" ELSE IF lpc = "reset" THEN "reset" ELSE "callback"
              /\ lpc = "reset" => l \in {"insert", "emplace", "activate"}
              /\ lpc # "deactivate"
  BY InCall DEF In, QueueInv, CallInv, Alone

\* insert: the containers have equally many elements before,
LEMMA InsertEarliestStep ==
    ASSUME QueueInv, NEW h \in Thread, InsertEarliest(h)
    PROVE  Kept(h)
  <1>1. In(h, "insert") /\ "insert" # "idle"
    BY DEF InsertEarliest
  <1>2. PICK x \in TimerId :
              /\ ctimer[h] = x /\ x \in alive /\ Stored("insert", x) /\ Owned("insert", x)
              /\ TypeOK /\ Exact /\ Expired /\ \A g \in Thread \ {h} : cpc[g] = "idle"
              /\ lpc = IF h = "user" THEN "wait" ELSE IF lpc = "reset" THEN "reset" ELSE "callback"
              /\ lpc # "deactivate"
    BY <1>1, CallFacts
  <1>3. UNCHANGED <<tvars, qvars, ctimer, lvars>> /\ Goto(h, "emplace") /\ Assert(SizesEqual)
    BY DEF InsertEarliest
  <1>4. cpc'[h] = "emplace" /\ \A g \in Thread \ {h} : cpc'[g] = "idle"
    BY <1>2, <1>3, GotoFacts
  <1>5. SizesEqual
    BY <1>2, SizeOfEntries DEF Stored, SizesEqual
  <1>6. Exact' /\ Expired'
    BY <1>2, <1>3 DEF Exact, Expired, tvars, qvars, lvars
  <1>7. Alone(h)' /\ Stored("emplace", x)' /\ Owned("emplace", x)'
    BY <1>2, <1>3, <1>4 DEF Alone, Stored, Owned, Entries, tvars, qvars, lvars
  <1>8. QED
    BY <1>2, <1>3, <1>4, <1>5, <1>6, <1>7, CallNext DEF Kept, Assert

\* one has one more in between,
LEMMA InsertTimersStep ==
    ASSUME QueueInv, NEW h \in Thread, InsertTimers(h)
    PROVE  Kept(h)
  <1>1. In(h, "emplace") /\ "emplace" # "idle"
    BY DEF InsertTimers
  <1>2. PICK x \in TimerId :
              /\ ctimer[h] = x /\ x \in alive /\ Stored("emplace", x) /\ Owned("emplace", x)
              /\ TypeOK /\ Exact /\ Expired /\ fault = "none" /\ \A g \in Thread \ {h} : cpc[g] = "idle"
              /\ lpc = IF h = "user" THEN "wait" ELSE IF lpc = "reset" THEN "reset" ELSE "callback"
              /\ lpc # "deactivate"
    BY <1>1, CallFacts
  <1>3. /\ UNCHANGED <<tvars, active_timers_, ctimer, lvars, fault>> /\ Goto(h, "activate")
        /\ timers_' = timers_ \cup {<<expiration_[x], x>>}
    BY <1>2 DEF InsertTimers
  <1>4. cpc'[h] = "activate" /\ \A g \in Thread \ {h} : cpc'[g] = "idle"
    BY <1>2, <1>3, GotoFacts
  <1>5. Exact' /\ Expired'
    BY <1>2, <1>3 DEF Exact, Expired, tvars, lvars
  <1>6. Entries(timers_') = Entries(timers_) \cup {x}
    <2> DEFINE e == <<expiration_[x], x>>
    <2>1. e[2] = x /\ timers_' = timers_ \cup {e}
      BY <1>3
    <2> HIDE DEF e
    <2>2. QED
      BY <2>1 DEF Entries
  <1>7. Alone(h)' /\ Stored("activate", x)' /\ Owned("activate", x)'
    BY <1>2, <1>3, <1>4, <1>6 DEF Alone, Stored, Owned, tvars, lvars
  <1>8. QED
    BY <1>2, <1>3, <1>4, <1>5, <1>7, CallNext DEF Kept

\* and they have equally many after it.
LEMMA InsertActiveStep ==
    ASSUME QueueInv, NEW h \in Thread, InsertActive(h)
    PROVE  Kept(h)
  <1>1. In(h, "activate") /\ "activate" # "idle"
    BY DEF InsertActive
  <1>2. PICK x \in TimerId :
              /\ ctimer[h] = x /\ x \in alive /\ Stored("activate", x) /\ Owned("activate", x)
              /\ TypeOK /\ Exact /\ Expired /\ \A g \in Thread \ {h} : cpc[g] = "idle"
              /\ lpc = IF h = "user" THEN "wait" ELSE IF lpc = "reset" THEN "reset" ELSE "callback"
              /\ lpc # "deactivate"
    BY <1>1, CallFacts
  <1>3. /\ UNCHANGED <<tvars, timers_, lvars>>
        /\ active_timers_' = active_timers_ \cup {x}
        /\ Assert(Cardinality(timers_) = Cardinality(active_timers_'))
    BY <1>2 DEF InsertActive
  <1>4. Entries(timers_) = active_timers_'
    BY <1>2, <1>3 DEF Stored
  <1>5. fault' = "none"
    BY <1>2, <1>3, <1>4, SizeOfEntries DEF Assert
  <1>6. Exact' /\ Expired'
    BY <1>2, <1>3 DEF Exact, Expired, Owned, tvars, lvars
  <1>7. CASE h = "loop" /\ lpc = "reset"
    <2>1. Goto(h, "idle") /\ ctimer'[h] = 0
      BY <1>2, <1>7 DEF InsertActive, Return, TypeOK
    <2>2. cpc'[h] = "idle" /\ \A g \in Thread \ {h} : cpc'[g] = "idle"
      BY <1>2, <2>1, GotoFacts
    <2>3. Alone(h)' /\ Stored("idle", 0)' /\ Owned("idle", 0)'
      BY <1>2, <1>3, <1>4, <2>2 DEF Alone, Stored, Owned, Entries, tvars, lvars
    <2>4. QED
      BY <1>5, <1>6, <2>1, <2>2, <2>3, CallNext DEF Kept
  <1>8. CASE ~(h = "loop" /\ lpc = "reset")
    <2>1. PICK l \in {"arm", "result"} : Goto(h, l) /\ ctimer' = ctimer
      BY <1>8 DEF InsertActive
    <2>2. cpc'[h] = l /\ \A g \in Thread \ {h} : cpc'[g] = "idle"
      BY <1>2, <2>1, GotoFacts
    <2>3. Alone(h)' /\ Stored(l, x)' /\ Owned(l, x)'
      BY <1>2, <1>3, <1>4, <1>8, <2>1, <2>2 DEF Alone, Stored, Owned, Entries, Thread, tvars, lvars
    <2>4. QED
      BY <1>2, <1>5, <1>6, <2>1, <2>2, <2>3, CallNext DEF Kept
  <1>9. QED
    BY <1>7, <1>8

\* The rest of AddTimer: the object is still there.
LEMMA ArmResultStep ==
    ASSUME QueueInv, NEW h \in Thread, ArmForNewTimer(h) \/ AddTimerResult(h)
    PROVE  Kept(h)
  <1>1. PICK l \in {"arm", "result"} :
              /\ In(h, l) /\ l # "idle"
              /\ UNCHANGED <<tvars, qvars, lvars>> /\ Deref(ctimer[h])
              /\ \/ Goto(h, "result") /\ ctimer' = ctimer
                 \/ Return(h)
    BY DEF ArmForNewTimer, AddTimerResult
  <1>2. PICK x \in TimerId :
              /\ ctimer[h] = x /\ x \in alive /\ Stored(l, x) /\ Owned(l, x)
              /\ TypeOK /\ Exact /\ Expired /\ \A g \in Thread \ {h} : cpc[g] = "idle"
              /\ lpc = IF h = "user" THEN "wait" ELSE IF lpc = "reset" THEN "reset" ELSE "callback"
              /\ lpc = "reset" => l \in {"insert", "emplace", "activate"}
              /\ lpc # "deactivate"
    BY <1>1, CallFacts
  <1>3. fault' = "none" /\ lpc # "reset"
    BY <1>1, <1>2 DEF Deref
  <1>4. Exact' /\ Expired'
    BY <1>1, <1>2 DEF Exact, Expired, tvars, qvars, lvars
  <1>5. PICK m \in {"result", "idle"}, y \in {x, 0} :
            Goto(h, m) /\ ctimer'[h] = y /\ (m = "result" => y = x)
    BY <1>1, <1>2 DEF Return, TypeOK
  <1>6. cpc'[h] = m /\ \A g \in Thread \ {h} : cpc'[g] = "idle"
    BY <1>2, <1>5, GotoFacts
  <1>7. Alone(h)'
    BY <1>1, <1>2, <1>3, <1>6 DEF Alone, lvars
  <1>8. Stored(m, y)' /\ Owned(m, y)'
    BY <1>1, <1>2, <1>5 DEF Stored, Owned, Entries, tvars, qvars, lvars
  <1>9. QED
    BY <1>3, <1>4, <1>5, <1>6, <1>7, <1>8, CallNext DEF Kept

\* CancelInLoop: the entry is found by its value,
LEMMA CancelTimersStep ==
    ASSUME QueueInv, NEW h \in Thread, CancelTimers(h)
    PROVE  Kept(h)
  <1>1. In(h, "erase") /\ "erase" # "idle"
    BY DEF CancelTimers
  <1>2. PICK x \in TimerId :
              /\ ctimer[h] = x /\ x \in alive /\ Stored("erase", x) /\ Owned("erase", x)
              /\ TypeOK /\ Exact /\ Expired /\ \A g \in Thread \ {h} : cpc[g] = "idle"
              /\ lpc = IF h = "user" THEN "wait" ELSE IF lpc = "reset" THEN "reset" ELSE "callback"
              /\ lpc = "reset" => "erase" \in {"insert", "emplace", "activate"}
              /\ lpc # "deactivate"
    BY <1>1, CallFacts
  <1>3. /\ UNCHANGED <<tvars, active_timers_, ctimer, lvars>> /\ Goto(h, "delete") /\ Deref(x)
        /\ timers_' = timers_ \ {<<expiration_[x], x>>}
    BY <1>2 DEF CancelTimers
  <1>4. cpc'[h] = "delete" /\ \A g \in Thread \ {h} : cpc'[g] = "idle"
    BY <1>2, <1>3, GotoFacts
  <1>5. Exact' /\ Expired'
    BY <1>2, <1>3 DEF Exact, Expired, tvars, lvars
  <1>6. Entries(timers_') = Entries(timers_) \ {x}
    <2>1. \A e \in timers_ : e[2] = x <=> e = <<expiration_[x], x>>
      BY <1>2 DEF Exact, TypeOK
    <2> DEFINE d == <<expiration_[x], x>>
    <2>2. timers_' = timers_ \ {d} /\ \A e \in timers_ : e[2] = x <=> e = d
      BY <1>3, <2>1
    <2> HIDE DEF d
    <2>3. QED
      BY <2>2 DEF Entries
  <1>7. Alone(h)' /\ Stored("delete", x)' /\ Owned("delete", x)'
    BY <1>2, <1>3, <1>4, <1>6, ZenonT(40) DEF Alone, Stored, Owned, tvars, lvars
  <1>8. QED
    BY <1>2, <1>3, <1>4, <1>5, <1>7, CallNext DEF Kept, Deref

\* and the object that is deleted is in neither container afterwards.
LEMMA CancelActiveStep ==
    ASSUME QueueInv, NEW h \in Thread, CancelActive(h)
    PROVE  Kept(h)
  <1>1. In(h, "delete") /\ "delete" # "idle"
    BY DEF CancelActive
  <1>2. PICK x \in TimerId :
              /\ ctimer[h] = x /\ x \in alive /\ Stored("delete", x) /\ Owned("delete", x)
              /\ TypeOK /\ Exact /\ Expired /\ \A g \in Thread \ {h} : cpc[g] = "idle"
              /\ lpc = IF h = "user" THEN "wait" ELSE IF lpc = "reset" THEN "reset" ELSE "callback"
              /\ lpc = "reset" => "delete" \in {"insert", "emplace", "activate"}
              /\ lpc # "deactivate"
    BY <1>1, CallFacts
  <1>3. /\ UNCHANGED <<timers_, lvars>> /\ Goto(h, "idle") /\ ctimer'[h] = 0
        /\ alive' = alive \ {x} /\ expiration_' = [expiration_ EXCEPT ![x] = 0]
        /\ active_timers_' = active_timers_ \ {x}
        /\ Assert(Cardinality(timers_) = Cardinality(active_timers_'))
    BY <1>2 DEF CancelActive, Delete, Return, TypeOK
  <1>4. cpc'[h] = "idle" /\ \A g \in Thread \ {h} : cpc'[g] = "idle"
    BY <1>2, <1>3, GotoFacts
  <1>5. Entries(timers_) = active_timers_' /\ x \notin Entries(timers_)
    BY <1>2, <1>3 DEF Stored
  <1>6. fault' = "none"
    BY <1>2, <1>3, <1>5, SizeOfEntries DEF Assert
  <1>7. Exact'
    <2>1. \A e \in timers_ : e[2] # x /\ e[2] \in TimerId
      BY <1>2, <1>5 DEF Entries, TypeOK
    <2>2. QED
      BY <1>2, <1>3, <2>1 DEF Exact, TypeOK
  <1>8. Expired'
    BY <1>2, <1>3 DEF Expired, lvars
  <1>9. Alone(h)' /\ Stored("idle", 0)' /\ Owned("idle", 0)'
    <2>1. x \notin lexpired
      BY <1>2 DEF Owned, Expired
    <2>2. QED
      BY <1>2, <1>3, <1>4, <1>5, <2>1 DEF Alone, Stored, Owned, Entries, lvars
  <1>10. QED
    BY <1>3, <1>4, <1>6, <1>7, <1>8, <1>9, CallNext DEF Kept

\* Where HandleRead stands.
LEMMA LoopFacts ==
    ASSUME Serialised, QueueInv, NEW l, At(l), l # "wait" \/ cpc["user"] = "idle"
    PROVE  /\ TypeOK /\ Exact /\ Expired /\ fault = "none" /\ lpc = l
           /\ \A h \in Thread : cpc[h] = "idle"
           /\ "loop" \in Thread /\ Stored("idle", ctimer["loop"])
           /\ alive = active_timers_ \cup lexpired /\ alive \subseteq TimerId
           /\ l # "deactivate" => Entries(timers_) = active_timers_
  BY NoCall DEF At, In, QueueInv, CallInv, Thread

\* The steps between two parts of HandleRead.
LEMMA LoopMoves ==
    ASSUME Serialised, QueueInv,
           Wakeup \/ ReadTimerfd \/ BeginCalling \/ CallbackReturns \/ EndCalling
               \/ ResetNextExpire \/ ResetRearm
    PROVE  Kept("loop")
  <1>1. PICK l \in {"wait", "read", "calling", "run", "callback", "reset", "rearm"} :
            /\ At(l) /\ (l # "wait" \/ cpc["user"] = "idle")
            /\ UNCHANGED <<tvars, timers_, active_timers_, cvars, lrun, lexpired>>
            /\ CASE l = "wait"     -> lpc' = "read"
                 [] l = "read"     -> lpc' = "expire"
                 [] l = "calling"  -> lpc' = "run"
                 [] l = "run"      -> lpc' = "reset" /\ lrun = {}
                 [] l = "callback" -> lpc' = "run"
                 [] l = "reset"    -> lpc' \in {"wait", "rearm"} /\ lexpired = {}
                 [] l = "rearm"    -> lpc' = "wait"
    <2>1. CASE Wakeup
      BY <2>1 DEF Wakeup, qvars
    <2>2. CASE ReadTimerfd
      BY <2>2 DEF ReadTimerfd, qvars
    <2>3. CASE BeginCalling
      BY <2>3 DEF BeginCalling
    <2>4. CASE CallbackReturns
      BY <2>4 DEF CallbackReturns, qvars
    <2>5. CASE EndCalling
      BY <2>5 DEF EndCalling
    <2>6. CASE ResetNextExpire
      BY <2>6 DEF ResetNextExpire, qvars
    <2>7. CASE ResetRearm
      BY <2>7 DEF ResetRearm, qvars
    <2>8. QED
      BY <2>1, <2>2, <2>3, <2>4, <2>5, <2>6, <2>7
  <1>2. /\ TypeOK /\ Exact /\ Expired /\ fault = "none" /\ lpc = l
        /\ \A h \in Thread : cpc[h] = "idle"
        /\ "loop" \in Thread /\ Entries(timers_) = active_timers_
        /\ alive = active_timers_ \cup lexpired
    BY <1>1, LoopFacts
  <1>3. fault' = "none"
    <2>1. CASE ResetNextExpire
      <3>1. \A e \in timers_ : e[2] \in alive
        BY <1>2 DEF Entries
      <3>2. QED
        BY <1>2, <2>1, <3>1 DEF ResetNextExpire, Deref
    <2>2. QED
      BY <1>2, <2>1 DEF Wakeup, ReadTimerfd, BeginCalling, CallbackReturns, EndCalling, ResetRearm
  <1>4. Exact'
    BY <1>1, <1>2 DEF Exact, tvars
  <1>5. Expired'
    BY <1>1, <1>2 DEF Expired
  <1>6. PICK y : ctimer["loop"] = y
    OBVIOUS
  <1>7. cpc'["loop"] = "idle" /\ ctimer'["loop"] = y /\ \A g \in Thread : cpc'[g] = "idle"
    BY <1>1, <1>2, <1>6 DEF cvars
  <1>8. lpc' # "deactivate"
    BY <1>1
  <1>9. Alone("loop")' /\ Stored("idle", y)' /\ Owned("idle", y)'
    BY <1>1, <1>2, <1>7, <1>8 DEF Alone, Stored, Owned, Entries, tvars
  <1>10. QED
    BY <1>2, <1>3, <1>4, <1>5, <1>7, <1>9, CallNext DEF Kept

\* GetExpired: first the one container loses the expired timers,
LEMMA ExpireTimersStep ==
    ASSUME Serialised, QueueInv, ExpireTimers
    PROVE  Kept("loop")
  <1>1. /\ At("expire") /\ "expire" # "wait" /\ lexpired' = {e[2] : e \in Due} /\ timers_' = timers_ \ Due
        /\ lpc' = "deactivate" /\ UNCHANGED <<tvars, active_timers_, cvars, lrun, fault>>
    BY DEF ExpireTimers
  <1>2. /\ TypeOK /\ Exact /\ Expired /\ fault = "none" /\ lpc = "expire"
        /\ \A h \in Thread : cpc[h] = "idle"
        /\ "loop" \in Thread /\ Entries(timers_) = active_timers_
        /\ alive = active_timers_ \cup lexpired
    BY <1>1, LoopFacts
  <1>3. Exact'
    BY <1>1, <1>2 DEF Exact, tvars
  <1>4. lexpired = {} /\ lrun = {}
    BY <1>2 DEF Expired
  <1>5. Expired'
    BY <1>1, <1>4 DEF Expired
  <1>6. Entries(timers_) = Entries(timers_') \cup lexpired' /\ Entries(timers_') \cap lexpired' = {}
    <2>1. \A d, e \in timers_ : d[2] = e[2] => d = e
      BY <1>2 DEF Exact, TypeOK
    <2>2. Due \subseteq timers_
      BY DEF Due
    <2>3. QED
      BY <1>1, <2>1, <2>2 DEF Entries
  <1>7. PICK y : ctimer["loop"] = y
    OBVIOUS
  <1>8. cpc'["loop"] = "idle" /\ ctimer'["loop"] = y /\ \A g \in Thread : cpc'[g] = "idle"
    BY <1>1, <1>2, <1>7 DEF cvars
  <1>9. Alone("loop")' /\ Stored("idle", y)' /\ Owned("idle", y)'
    BY <1>1, <1>2, <1>4, <1>6, <1>8 DEF Alone, Stored, Owned, tvars
  <1>10. QED
    BY <1>1, <1>2, <1>3, <1>5, <1>8, <1>9, CallNext DEF Kept

\* then the other.
LEMMA ExpireActiveStep ==
    ASSUME Serialised, QueueInv, ExpireActive
    PROVE  Kept("loop")
  <1>1. /\ At("deactivate") /\ "deactivate" # "wait" /\ active_timers_' = active_timers_ \ lexpired
        /\ lrun' = lexpired /\ lpc' = "calling" /\ UNCHANGED <<tvars, timers_, cvars, lexpired>>
    BY DEF ExpireActive
  <1>2. /\ TypeOK /\ Exact /\ Expired /\ fault = "none" /\ lpc = "deactivate"
        /\ \A h \in Thread : cpc[h] = "idle"
        /\ "loop" \in Thread /\ Stored("idle", ctimer["loop"])
        /\ alive = active_timers_ \cup lexpired
    BY <1>1, LoopFacts
  <1>3. Entries(timers_) = active_timers_' /\ active_timers_' \cap lexpired = {}
    BY <1>1, <1>2 DEF Stored
  <1>4. fault' = "none"
    BY <1>2, <1>3, SizeOfEntries DEF ExpireActive
  <1>5. Exact' /\ Expired'
    BY <1>1, <1>2, <1>3 DEF Exact, Expired, tvars
  <1>6. PICK y : ctimer["loop"] = y
    OBVIOUS
  <1>7. cpc'["loop"] = "idle" /\ ctimer'["loop"] = y /\ \A g \in Thread : cpc'[g] = "idle"
    BY <1>1, <1>2, <1>6 DEF cvars
  <1>8. Alone("loop")' /\ Stored("idle", y)' /\ Owned("idle", y)'
    BY <1>1, <1>2, <1>3, <1>7 DEF Alone, Stored, Owned, Entries, tvars
  <1>9. QED
    BY <1>2, <1>4, <1>5, <1>7, <1>8, CallNext DEF Kept

\* A callback starts; its timer exists.
LEMMA StartTimerStep ==
    ASSUME Serialised, QueueInv, NEW t \in TimerId, StartTimer(t)
    PROVE  Kept("loop")
  <1>1. /\ At("run") /\ "run" # "wait" /\ t \in lrun /\ Deref(t) /\ lrun' = lrun \ {t}
        /\ lpc' = "callback" /\ UNCHANGED <<tvars, timers_, active_timers_, cvars, lexpired>>
    BY DEF StartTimer, FirstOf, qvars
  <1>2. /\ TypeOK /\ Exact /\ Expired /\ lpc = "run" /\ \A h \in Thread : cpc[h] = "idle"
        /\ "loop" \in Thread /\ Entries(timers_) = active_timers_
        /\ alive = active_timers_ \cup lexpired
    BY <1>1, LoopFacts
  <1>3. fault' = "none"
    BY <1>1, <1>2 DEF Deref, Expired
  <1>4. Exact' /\ Expired'
    BY <1>1, <1>2 DEF Exact, Expired, tvars
  <1>5. PICK y : ctimer["loop"] = y
    OBVIOUS
  <1>6. cpc'["loop"] = "idle" /\ ctimer'["loop"] = y /\ \A g \in Thread : cpc'[g] = "idle"
    BY <1>1, <1>2, <1>5 DEF cvars
  <1>7. Alone("loop")' /\ Stored("idle", y)' /\ Owned("idle", y)'
    BY <1>1, <1>2, <1>6 DEF Alone, Stored, Owned, Entries, tvars
  <1>8. QED
    BY <1>2, <1>3, <1>4, <1>6, <1>7, CallNext DEF Kept

\* Reset inserts a repeating timer again; no entry is left of its last expiration.
LEMMA ResetRepeatingStep ==
    ASSUME Serialised, QueueInv, NEW t \in TimerId, ResetRepeating(t)
    PROVE  Kept("loop")
  <1>1. /\ At("reset") /\ "reset" # "wait" /\ t \in lexpired /\ Deref(t) /\ lexpired' = lexpired \ {t}
        /\ expiration_' = [expiration_ EXCEPT ![t] = lnow + interval_[t]]
        /\ ctimer' = [ctimer EXCEPT !["loop"] = t] /\ Goto("loop", "insert")
        /\ UNCHANGED <<alive, timers_, active_timers_, lpc, lrun>>
    BY DEF ResetRepeating, FirstOf, qvars
  <1>2. /\ TypeOK /\ Exact /\ Expired /\ lpc = "reset" /\ \A h \in Thread : cpc[h] = "idle"
        /\ "loop" \in Thread /\ Entries(timers_) = active_timers_
        /\ alive = active_timers_ \cup lexpired
    BY <1>1, LoopFacts
  <1>3. fault' = "none"
    BY <1>1, <1>2 DEF Deref
  <1>4. t \notin active_timers_ /\ lrun = {}
    BY <1>1, <1>2 DEF Expired
  <1>5. Exact'
    <2>1. \A e \in timers_ : e[2] # t /\ e[2] \in TimerId
      BY <1>2, <1>4 DEF Entries, TypeOK
    <2>2. QED
      BY <1>1, <1>2, <2>1 DEF Exact, TypeOK
  <1>6. Expired'
    BY <1>1, <1>2, <1>4 DEF Expired
  <1>7. cpc'["loop"] = "insert" /\ ctimer'["loop"] = t /\ \A g \in Thread \ {"loop"} : cpc'[g] = "idle"
    BY <1>1, <1>2, GotoFacts DEF TypeOK
  <1>8. Alone("loop")' /\ Stored("insert", t)' /\ Owned("insert", t)'
    BY <1>1, <1>2, <1>4, <1>7 DEF Alone, Stored, Owned, Entries
  <1>9. QED
    BY <1>2, <1>3, <1>5, <1>6, <1>7, <1>8, CallNext DEF Kept

\* Reset deletes a timer that does not repeat.
LEMMA ResetOneShotStep ==
    ASSUME Serialised, QueueInv, NEW t \in TimerId, ResetOneShot(t)
    PROVE  Kept("loop")
  <1>1. /\ At("reset") /\ "reset" # "wait" /\ t \in lexpired /\ Deref(t) /\ lexpired' = lexpired \ {t}
        /\ alive' = alive \ {t} /\ expiration_' = [expiration_ EXCEPT ![t] = 0]
        /\ UNCHANGED <<timers_, active_timers_, cvars, lpc, lrun>>
    BY DEF ResetOneShot, FirstOf, Delete, qvars
  <1>2. /\ TypeOK /\ Exact /\ Expired /\ lpc = "reset" /\ \A h \in Thread : cpc[h] = "idle"
        /\ "loop" \in Thread /\ Entries(timers_) = active_timers_
        /\ alive = active_timers_ \cup lexpired
    BY <1>1, LoopFacts
  <1>3. fault' = "none"
    BY <1>1, <1>2 DEF Deref
  <1>4. t \notin active_timers_ /\ lrun = {}
    BY <1>1, <1>2 DEF Expired
  <1>5. Exact'
    <2>1. \A e \in timers_ : e[2] # t /\ e[2] \in TimerId
      BY <1>2, <1>4 DEF Entries, TypeOK
    <2>2. QED
      BY <1>1, <1>2, <2>1 DEF Exact, TypeOK
  <1>6. Expired'
    BY <1>1, <1>2, <1>4 DEF Expired
  <1>7. PICK y : ctimer["loop"] = y
    OBVIOUS
  <1>8. cpc'["loop"] = "idle" /\ ctimer'["loop"] = y /\ \A g \in Thread : cpc'[g] = "idle"
    BY <1>1, <1>2, <1>7 DEF cvars
  <1>9. Alone("loop")' /\ Stored("idle", y)' /\ Owned("idle", y)'
    BY <1>1, <1>2, <1>4, <1>8 DEF Alone, Stored, Owned, Entries
  <1>10. QED
    BY <1>2, <1>3, <1>5, <1>6, <1>8, <1>9, CallNext DEF Kept

\* The clock moves: the stamps of the timers and of their entries move together.
LEMMA ShiftStep ==
    ASSUME QueueInv, NEW d \in Int, ShiftWall(d),
           timerfd' \in Nat \cup {Off}, jumps' \in 0 .. MaxJumps
    PROVE  QueueInv'
  <1>1. PICK h \in Thread : CallInv(h)
    BY DEF QueueInv
  <1>2. TypeOK /\ Exact /\ Expired /\ EndRead /\ fault = "none"
    BY DEF QueueInv, ShiftWall
  <1>3. /\ expiration_' = [t \in TimerId |-> IF t \in alive THEN expiration_[t] - d ELSE 0]
        /\ timers_' = {<<e[1] - d, e[2]>> : e \in timers_}
        /\ lnow' = (IF lpc = "wait" THEN 0 ELSE lnow - d) /\ lnext' = (IF lpc = "rearm" THEN lnext - d ELSE 0)
        /\ UNCHANGED <<num_created_, alive, interval_, active_timers_,
                   callingvars, cvars, lpc, lrun, lexpired, fault>>
    BY DEF ShiftWall
  <1>4. Entries(timers_) \subseteq alive
    BY <1>1 DEF CallInv, Stored, Owned
  <1>5. \A e \in timers_ : /\ e[1] \in Int /\ e[2] \in TimerId /\ e[2] \in alive
                           /\ e[1] - d \in Int /\ e[1] = expiration_[e[2]]
    BY <1>2, <1>4 DEF TypeOK, Entries, Exact
  <1>6. TypeOK'
    <2>1. expiration_' \in [TimerId -> Int]
      BY <1>2, <1>3 DEF TypeOK
    <2>2. timers_' \subseteq Int \X TimerId
      BY <1>3, <1>5
    <2>3. lnow' \in Int /\ lnext' \in Int
      BY <1>2, <1>3 DEF TypeOK
    <2>4. QED
      BY <1>2, <1>3, <2>1, <2>2, <2>3 DEF TypeOK, cvars, callingvars
  <1>7. Exact'
    BY <1>3, <1>5 DEF Exact
  <1>8. Entries(timers_') = Entries(timers_)
    <2> DEFINE f(e) == <<e[1] - d, e[2]>>
    <2>1. \A e \in timers_ : f(e)[2] = e[2]
      OBVIOUS
    <2>2. timers_' = {f(e) : e \in timers_}
      BY <1>3
    <2> HIDE DEF f
    <2>3. QED
      BY <2>1, <2>2 DEF Entries
  <1>9. Expired'
    BY <1>2, <1>3 DEF Expired
  <1>10. CallInv(h)'
    BY <1>1, <1>3, <1>8 DEF CallInv, Alone, Stored, Owned, cvars
  <1>11. EndRead'
    BY <1>2, <1>3 DEF EndRead, cvars
  <1>12. QED
    BY <1>2, <1>3, <1>6, <1>7, <1>9, <1>10, <1>11 DEF QueueInv

\* Only a StopTimer for a timer in no container reads the end iterator.
LEMMA EndReadStep ==
    ASSUME Serialised, QueueInv, LoopStep \/ \E h \in Thread : ApiCall(h) \/ ApiStep(h)
    PROVE  EndRead'
  <1>1. TypeOK /\ EndRead
    BY DEF QueueInv
  <1>2. ASSUME fault = "none", fault' # "end_deref", cpc' = cpc PROVE EndRead'
    BY <1>1, <1>2 DEF EndRead
  <1>3. ASSUME NEW h \in Thread, NEW l, l # "canceling", Goto(h, l),
               fault = "none", fault' # "end_deref"
        PROVE  EndRead'
    BY <1>1, <1>3, GotoFacts DEF EndRead
  <1>4. ASSUME NEW h \in Thread, NEW t \in TimerId, StopTimer(h, t) PROVE EndRead'
    <2>1. /\ cpc["loop"] = "idle" /\ (lpc # "wait" \/ cpc["user"] = "idle") /\ lpc # "deactivate"
          /\ fault = "none" /\ UNCHANGED <<timers_, active_timers_, callingExpiredTimers_>>
      <3>1. \A g \in Thread : cpc[g] # "idle" => lpc = IF g = "user" THEN "wait"
                                                       ELSE IF lpc = "reset" THEN "reset" ELSE "callback"
        BY <1>4, InCall DEF StopTimer, CanCall, In
      <3>2. QED
        BY <1>4, <3>1 DEF StopTimer, CanCall, In, Thread, qvars, callingvars
    <2>2. Entries(timers_) = active_timers_
      BY <2>1, NoCall
    <2>3. CASE Goto(h, "erase") /\ UNCHANGED fault
      BY <1>3, <2>1, <2>3
    <2>4. CASE /\ Goto(h, "canceling") /\ callingExpiredTimers_ /\ t \notin active_timers_
               /\ ctimer' = [ctimer EXCEPT ![h] = t] /\ fault' = "end_deref"
      <3>1. cpc'[h] = "canceling" /\ ctimer'[h] = t
        BY <1>1, <2>4, GotoFacts DEF TypeOK
      <3>2. ctimer'[h] \notin active_timers_' \cup Entries(timers_')
        BY <2>1, <2>2, <2>4, <3>1
      <3>3. QED
        BY <2>1, <2>4, <3>1, <3>2 DEF EndRead
    <2>5. CASE Assert(SizesEqual) /\ cpc' = cpc
      BY <1>2, <2>1, <2>5 DEF Assert
    <2>6. QED
      BY <1>4, <2>3, <2>4, <2>5 DEF StopTimer
  <1>5. ASSUME NEW h \in Thread, NEW when \in Delays, NEW interval \in Intervals,
               AddTimer(h, when, interval)
        PROVE  EndRead'
    BY <1>3, <1>5 DEF AddTimer, CanCall, In
  <1>6. ASSUME NEW h \in Thread, ApiStep(h) PROVE EndRead'
    <2>1. fault = "none" /\ fault' # "end_deref"
      BY <1>6 DEF ApiStep, InsertEarliest, InsertTimers, InsertActive, ArmForNewTimer, AddTimerResult,
                  CancelTimers, CancelActive, In, Assert, Deref
    <2>2. \E l \in {"idle", "emplace", "activate", "arm", "result", "delete"} : Goto(h, l)
      BY <1>6 DEF ApiStep, InsertEarliest, InsertTimers, InsertActive, ArmForNewTimer, AddTimerResult,
                  CancelTimers, CancelActive, Return
    <2>3. QED
      BY <1>3, <2>1, <2>2
  <1>7. CASE LoopStep
    <2>1. fault = "none" /\ fault' # "end_deref"
      BY <1>7 DEF LoopStep, Wakeup, ReadTimerfd, ExpireTimers, ExpireActive, BeginCalling, StartTimer,
                  ResetRepeating, ResetOneShot, CallbackReturns, EndCalling, ResetNextExpire, ResetRearm,
                  At, In, Deref
    <2>2. cpc' = cpc \/ Goto("loop", "insert")
      BY <1>7 DEF LoopStep, Wakeup, ReadTimerfd, ExpireTimers, ExpireActive, BeginCalling, StartTimer,
                  ResetRepeating, ResetOneShot, CallbackReturns, EndCalling, ResetNextExpire, ResetRearm,
                  cvars
    <2>3. QED
      BY <1>2, <1>3, <2>1, <2>2 DEF Thread
  <1>8. QED
    BY <1>4, <1>5, <1>6, <1>7 DEF ApiCall

\* QueueInv is inductive.
LEMMA QueueInvStep ==
    ASSUME Serialised, QueueInv, [Next]_vars
    PROVE  QueueInv'
  <1>1. ASSUME NEW h \in Thread, ApiCall(h) \/ ApiStep(h) PROVE QueueInv'
    <2>1. TypeOK'
      BY <1>1, ApiTypes
    <2>2. Kept(h)
      BY <1>1, AddTimerStep, StopTimerStep, InsertEarliestStep, InsertTimersStep, InsertActiveStep,
         ArmResultStep, CancelTimersStep, CancelActiveStep DEF ApiCall, ApiStep
    <2>3. EndRead'
      BY <1>1, EndReadStep
    <2>4. QED
      BY <2>1, <2>2, <2>3 DEF QueueInv, Kept
  <1>2. CASE LoopStep
    <2>1. TypeOK'
      BY <1>2, LoopTypes
    <2>2. Kept("loop")
      BY <1>2, LoopMoves, ExpireTimersStep, ExpireActiveStep, StartTimerStep, ResetRepeatingStep,
         ResetOneShotStep DEF LoopStep
    <2>3. EndRead'
      BY <1>2, EndReadStep
    <2>4. QED
      BY <2>1, <2>2, <2>3 DEF QueueInv, Kept, Thread
  <1>3. TypeOK
    BY DEF QueueInv
  <1>4. CASE Tick
    <2>1. timerfd' \in Nat \cup {Off} /\ jumps' \in 0 .. MaxJumps
      BY <1>3, <1>4 DEF Tick, TypeOK, Off
    <2>2. QED
      BY <1>4, <2>1, ShiftStep DEF Tick
  <1>5. ASSUME NEW d \in Jumps, AdjustClock(d) PROVE QueueInv'
    <2>1. timerfd' \in Nat \cup {Off} /\ jumps' \in 0 .. MaxJumps /\ d \in Int
      BY <1>3, <1>5, TimerConstants DEF AdjustClock, TypeOK
    <2>2. QED
      BY <1>5, <2>1, ShiftStep DEF AdjustClock
  <1>6. CASE UNCHANGED vars
    BY <1>6 DEF vars, tvars, qvars, cvars, lvars, callingvars, QueueInv, TypeOK, Exact, Expired, EndRead,
                CallInv, Alone, Stored, Owned, Entries
  <1>7. QED
    BY <1>1, <1>2, <1>4, <1>5, <1>6 DEF Next

\* The invariant holds in every reachable state.
LEMMA QueueInvHolds ==
    ASSUME Serialised
    PROVE  Spec => []QueueInv
  <1>1. Init => QueueInv
    <2> SUFFICES ASSUME Init PROVE QueueInv
      OBVIOUS
    <2>1. TypeOK
      BY TimerConstants DEF Init, TypeOK, TimerId, Off
    <2>2. Exact /\ Expired /\ EndRead
      BY DEF Init, Exact, Expired, EndRead
    <2>3. CallInv("user")
      BY DEF Init, CallInv, Alone, Stored, Owned, Entries, Thread
    <2>4. QED
      BY <2>1, <2>2, <2>3 DEF QueueInv, Init, Thread
  <1>2. QueueInv /\ [Next]_vars => QueueInv'
    BY QueueInvStep
  <1>3. QED
    BY <1>1, <1>2, PTL DEF Spec

\* For any number of timers and any calls from callbacks and, while the loop waits, from
\* outside: no assertion of timer_queue.cpp fails, no deleted Timer is used, the end
\* iterator is read only by a StopTimer for a timer that has left both containers, while
\* callbacks run, and the two containers agree whenever the loop waits (ContainersAgree).
THEOREM ContainersStayEqual ==
    ASSUME Serialised
    PROVE  Spec => []ContainersAgree
  <1>1. QueueInv => ContainersAgree
    <2> SUFFICES ASSUME QueueInv PROVE ContainersAgree
      OBVIOUS
    <2>1. TypeOK /\ fault \in {"none", "end_deref"} /\ Exact /\ EndRead
      BY DEF QueueInv
    <2>2. ASSUME Quiet
          PROVE  Entries(timers_) = active_timers_ /\ alive = active_timers_
      <3>1. cpc["loop"] = "idle" /\ cpc["user"] = "idle" /\ lexpired = {} /\ lpc # "deactivate"
        BY <2>2 DEF Quiet, QueueInv, Expired, Thread
      <3>2. QED
        BY <3>1, NoCall
    <2>3. QED
      BY <2>1, <2>2 DEF ContainersAgree, Exact, EndRead
  <1>2. QED
    BY <1>1, QueueInvHolds, PTL

-----------------------------------------------------------------------------
(* The callbacks. *)

(* As long as the clock was not set, what was found expired has expired. *)
DueInv == jumps = 0 => lnow <= 0 /\ \A t \in lexpired : expiration_[t] <= 0

\* DueInv is inductive relative to QueueInv.
LEMMA DueStep ==
    ASSUME Serialised, QueueInv, DueInv, [Next]_vars
    PROVE  DueInv'
  <1>1. TypeOK /\ Exact /\ lexpired \subseteq TimerId
    BY DEF QueueInv, TypeOK
  <1>2. lexpired \subseteq alive
    BY DEF QueueInv, CallInv, Owned
  <1>3. ASSUME UNCHANGED <<lnow, lexpired, jumps, expiration_>> PROVE DueInv'
    BY <1>3 DEF DueInv
  <1>4. ASSUME NEW h \in Thread, ApiCall(h) PROVE DueInv'
    <2>1. jumps' = jumps
      BY <1>4 DEF ApiCall
    <2>2. ASSUME NEW when \in Delays, NEW interval \in Intervals, AddTimer(h, when, interval)
          PROVE  DueInv'
      <3>1. num_created_ \notin lexpired
        BY <1>1, <1>2 DEF TypeOK
      <3>2. expiration_' = [expiration_ EXCEPT ![num_created_] = when] /\ UNCHANGED <<lnow, lexpired>>
        BY <2>2 DEF AddTimer, lvars
      <3>3. \A t \in lexpired : expiration_'[t] = expiration_[t]
        BY <1>1, <3>1, <3>2 DEF TypeOK
      <3>4. QED
        BY <2>1, <3>2, <3>3 DEF DueInv
    <2>3. ASSUME NEW t \in TimerId, StopTimer(h, t) PROVE DueInv'
      BY <1>3, <2>1, <2>3 DEF StopTimer, tvars, lvars
    <2>4. QED
      BY <1>4, <2>2, <2>3 DEF ApiCall
  <1>5. ASSUME NEW h \in Thread, ApiStep(h) PROVE DueInv'
    <2>1. jumps' = jumps /\ UNCHANGED <<lnow, lexpired>>
      BY <1>5 DEF ApiStep, InsertEarliest, InsertTimers, InsertActive, ArmForNewTimer, AddTimerResult,
                  CancelTimers, CancelActive, lvars
    <2>2. CASE CancelActive(h)
      <3>1. expiration_' = [expiration_ EXCEPT ![ctimer[h]] = 0]
        BY <2>2 DEF CancelActive, Delete
      <3>2. \A t \in lexpired : expiration_'[t] = expiration_[t] \/ expiration_'[t] = 0
        BY <1>1, <3>1 DEF TypeOK
      <3>3. QED
        BY <2>1, <3>2 DEF DueInv
    <2>3. CASE ~CancelActive(h)
      <3>1. expiration_' = expiration_
        BY <1>5, <2>3 DEF ApiStep, InsertEarliest, InsertTimers, InsertActive, ArmForNewTimer,
                          AddTimerResult, CancelTimers, tvars
      <3>2. QED
        BY <1>3, <2>1, <3>1
    <2>4. QED
      BY <2>2, <2>3
  <1>6. CASE LoopStep
    <2>1. jumps' = jumps
      BY <1>6 DEF LoopStep
    <2>2. CASE Wakeup \/ ResetNextExpire \/ ResetRearm
      <3>1. lnow' \in {0, lnow} /\ UNCHANGED <<lexpired, expiration_>>
        BY <2>2 DEF Wakeup, ResetNextExpire, ResetRearm, tvars
      <3>2. QED
        BY <2>1, <3>1 DEF DueInv
    <2>3. CASE ReadTimerfd \/ ExpireActive \/ BeginCalling \/ CallbackReturns \/ EndCalling
      BY <1>3, <2>1, <2>3 DEF ReadTimerfd, ExpireActive, BeginCalling, CallbackReturns, EndCalling, tvars
    <2>4. CASE ExpireTimers
      <3>1. /\ lexpired' = {e[2] : e \in Due} /\ UNCHANGED <<lnow, expiration_>>
        BY <2>4 DEF ExpireTimers, tvars
      <3>2. \A e \in Due : expiration_[e[2]] <= lnow
        BY <1>1 DEF Due, Exact
      <3>3. \A t \in lexpired' : expiration_[t] <= lnow /\ t \in TimerId
        BY <1>1, <3>1, <3>2 DEF Due, TypeOK
      <3>4. lnow \in Int /\ \A t \in TimerId : expiration_[t] \in Int
        BY <1>1 DEF TypeOK
      <3>5. QED
        BY <2>1, <3>1, <3>3, <3>4 DEF DueInv
    <2>5. ASSUME NEW t \in TimerId, StartTimer(t) PROVE DueInv'
      BY <1>3, <2>1, <2>5 DEF StartTimer, tvars
    <2>6. ASSUME NEW t \in TimerId, ResetRepeating(t) \/ ResetOneShot(t) PROVE DueInv'
      <3>1. /\ lexpired' = lexpired \ {t} /\ lnow' = lnow
            /\ \E x : expiration_' = [expiration_ EXCEPT ![t] = x]
        BY <2>6 DEF ResetRepeating, ResetOneShot, Delete
      <3>2. \A u \in lexpired' : u \in lexpired /\ expiration_'[u] = expiration_[u]
        BY <1>1, <3>1 DEF TypeOK
      <3>3. QED
        BY <2>1, <3>1, <3>2 DEF DueInv
    <2>7. QED
      BY <1>6, <2>2, <2>3, <2>4, <2>5, <2>6 DEF LoopStep
  <1>7. CASE Tick
    <2>1. /\ expiration_' = [t \in TimerId |-> IF t \in alive THEN expiration_[t] - 1 ELSE 0]
          /\ lnow' = (IF lpc = "wait" THEN 0 ELSE lnow - 1) /\ UNCHANGED <<lexpired, jumps>>
      BY <1>7 DEF Tick, ShiftWall
    <2>2. lnow \in Int /\ \A t \in TimerId : expiration_[t] \in Int
      BY <1>1 DEF TypeOK
    <2>3. QED
      BY <1>1, <2>1, <2>2 DEF DueInv
  <1>8. ASSUME NEW d \in Jumps, AdjustClock(d) PROVE DueInv'
    BY <1>1, <1>8 DEF AdjustClock, DueInv, TypeOK
  <1>9. CASE UNCHANGED vars
    BY <1>3, <1>9 DEF vars, tvars, lvars
  <1>10. QED
    BY <1>4, <1>5, <1>6, <1>7, <1>8, <1>9 DEF Next

\* For any timers: no callback starts before its timer is due, as long as the clock was
\* not set, and none while a container still holds its timer (NeverEarly).
THEOREM CallbacksOnTime ==
    ASSUME Serialised
    PROVE  Spec => NeverEarly
  <1> DEFINE OnTime == \A t \in TimerId :
                          StartTimer(t) => /\ jumps = 0 => expiration_[t] <= 0
                                           /\ t \notin active_timers_ \cup Entries(timers_)
  <1>1. Init => DueInv
    BY DEF Init, DueInv
  <1>2. QueueInv /\ DueInv /\ [Next]_vars => DueInv'
    BY DueStep
  <1>3. QueueInv /\ DueInv => OnTime
    <2> SUFFICES ASSUME QueueInv, DueInv, NEW t \in TimerId, StartTimer(t)
                 PROVE  /\ jumps = 0 => expiration_[t] <= 0
                        /\ t \notin active_timers_ \cup Entries(timers_)
      OBVIOUS
    <2>1. At("run") /\ t \in lrun
      BY DEF StartTimer, FirstOf
    <2>2. Expired /\ Entries(timers_) = active_timers_
      BY <2>1, LoopFacts
    <2>3. QED
      BY <2>1, <2>2 DEF DueInv, Expired, At
  <1>4. QED
    BY <1>1, <1>2, <1>3, QueueInvHolds, PTL DEF Spec, NeverEarly

-----------------------------------------------------------------------------
(* The timerfd. *)

(* No entry of S waits longer than the timerfd, as long as the clock was not set. *)
Covers(S) == S # {} => /\ timerfd # Off
                       /\ jumps = 0 => \A e \in S : timerfd <= 1 \/ timerfd <= e[1]

(* While the user's call stands at l and is about timer x, found earliest or not: the
   timerfd covers the others until it is armed for an earliest timer; a timer that is
   not the earliest is covered together with one that is there already. *)
Arms(l, earliest, x) ==
    IF l = "arm" \/ (l = "activate" /\ earliest)
    THEN Covers({e \in timers_ : e[2] # x}) /\ \A e \in timers_ : expiration_[x] <= e[1]
    ELSE /\ Covers(timers_)
         /\ l = "emplace" => IF earliest THEN \A e \in timers_ : expiration_[x] < e[1]
                             ELSE \E e \in timers_ : e[1] <= expiration_[x]

ArmInv ==
    /\ lpc = "wait" => Arms(cpc["user"], cearliest["user"], ctimer["user"])
    /\ lpc = "rearm" => \A e \in timers_ : lnext <= e[1]
\* What a call of the user does to the timerfd, step by step.
LEMMA UserArms ==
    ASSUME QueueInv, ArmInv, lpc = "wait", ApiStep("user")
    PROVE  Arms(cpc["user"], cearliest["user"], ctimer["user"])'
  <1>0. "user" \in Thread /\ jumps' = jumps /\ TypeOK
    BY DEF Thread, ApiStep, QueueInv
  <1>1. ASSUME NEW l, NEW c \in BOOLEAN, NEW x, cpc'["user"] = l, cearliest'["user"] = c,
               ctimer'["user"] = x, Arms(l, c, x)'
        PROVE  Arms(cpc["user"], cearliest["user"], ctimer["user"])'
    BY <1>1 DEF Arms, Covers
  <1>2. ASSUME NEW l, In("user", l), l # "idle"
        PROVE  \E x \in TimerId, c \in BOOLEAN :
                  /\ ctimer["user"] = x /\ cearliest["user"] = c /\ Arms(l, c, x)
                  /\ Stored(l, x) /\ expiration_[x] \in Int
    BY <1>0, <1>2, CallFacts DEF ArmInv, In, TypeOK
  <1>3. timers_ \subseteq Int \X TimerId /\ \A e \in timers_ : e[1] \in Int
    BY <1>0 DEF TypeOK
  <1>4. timerfd \in Int
    BY <1>0 DEF TypeOK, Off
  <1>5. CASE InsertEarliest("user")
    <2>1. In("user", "insert") /\ "insert" # "idle"
      BY <1>5 DEF InsertEarliest
    <2>2. PICK x \in TimerId, c \in BOOLEAN :
              ctimer["user"] = x /\ Arms("insert", c, x) /\ expiration_[x] \in Int
      BY <1>2, <2>1
    <2>3. PICK b \in BOOLEAN : b = (\A e \in timers_ : expiration_[x] < e[1])
      OBVIOUS
    <2>4. /\ cpc'["user"] = "emplace" /\ ctimer'["user"] = x /\ cearliest'["user"] = b
          /\ timers_' = timers_ /\ timerfd' = timerfd /\ expiration_' = expiration_
      BY <1>0, <1>5, <2>2, <2>3 DEF InsertEarliest, Goto, TypeOK, tvars, qvars
    <2>5. ~b => \E e \in timers_ : e[1] <= expiration_[x]
      BY <1>3, <2>2, <2>3
    <2>6. Arms("emplace", b, x)'
      BY <1>0, <2>2, <2>3, <2>4, <2>5 DEF Arms, Covers
    <2>7. QED
      BY <1>1, <2>4, <2>6
  <1>6. CASE InsertTimers("user")
    <2>1. In("user", "emplace") /\ "emplace" # "idle"
      BY <1>6 DEF InsertTimers
    <2>2. PICK x \in TimerId, c \in BOOLEAN :
              /\ ctimer["user"] = x /\ cearliest["user"] = c /\ Arms("emplace", c, x)
              /\ expiration_[x] \in Int
      BY <1>2, <2>1
    <2> DEFINE d == <<expiration_[x], x>>
    <2>3. /\ cpc'["user"] = "activate" /\ ctimer'["user"] = x /\ cearliest'["user"] = c
          /\ timers_' = timers_ \cup {d} /\ timerfd' = timerfd /\ expiration_' = expiration_
      BY <1>0, <1>6, <2>2 DEF InsertTimers, Goto, TypeOK, tvars
    <2>4. d[1] = expiration_[x] /\ d[2] = x
      OBVIOUS
    <2> HIDE DEF d
    <2>5. CASE c
      <3>1. {e \in timers_' : e[2] # x} \subseteq timers_
        BY <2>3, <2>4
      <3>2. Covers(timers_) /\ \A e \in timers_ : expiration_[x] < e[1]
        BY <2>2, <2>5 DEF Arms
      <3>3. Covers({e \in timers_ : e[2] # x})'
        BY <1>0, <2>3, <3>1, <3>2 DEF Covers
      <3>4. \A e \in timers_' : expiration_'[x] <= e[1]
        BY <1>3, <2>2, <2>3, <2>4, <3>2
      <3>5. QED
        BY <1>1, <2>3, <2>5, <3>3, <3>4 DEF Arms
    <2>6. CASE ~c
      <3>1. Covers(timers_) /\ \E e \in timers_ : e[1] <= expiration_[x]
        BY <2>2, <2>6 DEF Arms
      <3>2. Covers(timers_)'
        BY <1>0, <1>3, <1>4, <2>2, <2>3, <2>4, <3>1 DEF Covers
      <3>3. QED
        BY <1>1, <2>3, <2>6, <3>2 DEF Arms
    <2>7. QED
      BY <2>5, <2>6
  <1>7. CASE InsertActive("user")
    <2>1. In("user", "activate") /\ "activate" # "idle"
      BY <1>7 DEF InsertActive
    <2>2. PICK x \in TimerId, c \in BOOLEAN :
              ctimer["user"] = x /\ cearliest["user"] = c /\ Arms("activate", c, x)
      BY <1>2, <2>1
    <2>3. PICK l \in {"arm", "result"} : l = IF c THEN "arm" ELSE "result"
      OBVIOUS
    <2>4. /\ cpc'["user"] = l /\ ctimer'["user"] = x /\ cearliest'["user"] = c
          /\ timers_' = timers_ /\ timerfd' = timerfd /\ expiration_' = expiration_
      BY <1>0, <1>7, <2>2, <2>3 DEF InsertActive, Goto, TypeOK, tvars
    <2>5. Arms(l, c, x)'
      BY <1>0, <2>2, <2>3, <2>4 DEF Arms, Covers
    <2>6. QED
      BY <1>1, <2>4, <2>5
  <1>8. CASE ArmForNewTimer("user")
    <2>1. In("user", "arm") /\ "arm" # "idle"
      BY <1>8 DEF ArmForNewTimer
    <2>2. PICK x \in TimerId, c \in BOOLEAN :
              /\ ctimer["user"] = x /\ cearliest["user"] = c /\ Arms("arm", c, x)
              /\ expiration_[x] \in Int
      BY <1>2, <2>1
    <2>3. /\ cpc'["user"] = "result" /\ ctimer'["user"] = x /\ cearliest'["user"] = c
          /\ timers_' = timers_ /\ timerfd' = Max({1, expiration_[x]})
      BY <1>0, <1>8, <2>2 DEF ArmForNewTimer, resetTimerfd, Goto, TypeOK, tvars, qvars
    <2>4. timerfd' = IF expiration_[x] <= 1 THEN 1 ELSE expiration_[x]
      BY <2>2, <2>3, MaxOne
    <2>5. \A e \in timers_ : expiration_[x] <= e[1] => timerfd' <= 1 \/ timerfd' <= e[1]
      BY <1>3, <2>2, <2>4
    <2>6. timerfd' # Off
      BY <2>2, <2>4 DEF Off
    <2>7. Covers(timers_)'
      BY <2>2, <2>3, <2>5, <2>6 DEF Covers, Arms
    <2>8. QED
      BY <1>1, <2>3, <2>7 DEF Arms
  <1>9. CASE AddTimerResult("user")
    <2>1. In("user", "result") /\ "result" # "idle"
      BY <1>9 DEF AddTimerResult
    <2>2. PICK x \in TimerId, c \in BOOLEAN : Arms("result", c, x)
      BY <1>2, <2>1
    <2>3. /\ cpc'["user"] = "idle" /\ ctimer'["user"] = 0 /\ cearliest'["user"] = FALSE
          /\ timers_' = timers_ /\ timerfd' = timerfd
      BY <1>0, <1>9 DEF AddTimerResult, Return, Goto, TypeOK, qvars
    <2>4. Arms("idle", FALSE, 0)'
      BY <1>0, <2>2, <2>3 DEF Arms, Covers
    <2>5. QED
      BY <1>1, <2>3, <2>4
  <1>10. CASE CancelTimers("user")
    <2>1. In("user", "erase") /\ "erase" # "idle"
      BY <1>10 DEF CancelTimers
    <2>2. PICK x \in TimerId, c \in BOOLEAN :
              ctimer["user"] = x /\ cearliest["user"] = c /\ Arms("erase", c, x)
      BY <1>2, <2>1
    <2>3. /\ cpc'["user"] = "delete" /\ ctimer'["user"] = x /\ cearliest'["user"] = c
          /\ timers_' \subseteq timers_ /\ timerfd' = timerfd
      BY <1>0, <1>10, <2>2 DEF CancelTimers, Goto, TypeOK
    <2>4. Arms("delete", c, x)'
      BY <1>0, <2>2, <2>3 DEF Arms, Covers
    <2>5. QED
      BY <1>1, <2>3, <2>4
  <1>11. CASE CancelActive("user")
    <2>1. In("user", "delete") /\ "delete" # "idle"
      BY <1>11 DEF CancelActive
    <2>2. PICK x \in TimerId, c \in BOOLEAN : Arms("delete", c, x)
      BY <1>2, <2>1
    <2>3. /\ cpc'["user"] = "idle" /\ ctimer'["user"] = 0 /\ cearliest'["user"] = FALSE
          /\ timers_' = timers_ /\ timerfd' = timerfd
      BY <1>0, <1>11 DEF CancelActive, Return, Goto, TypeOK
    <2>4. Arms("idle", FALSE, 0)'
      BY <1>0, <2>2, <2>3 DEF Arms, Covers
    <2>5. QED
      BY <1>1, <2>3, <2>4
  <1>12. QED
    BY <1>5, <1>6, <1>7, <1>8, <1>9, <1>10, <1>11 DEF ApiStep
\* A step of the clock moves the entries and, unless the clock is set, the timerfd.
LEMMA ShiftArms ==
    ASSUME QueueInv, ArmInv, NEW d \in Int, ShiftWall(d),
           \/ d = 1 /\ jumps' = jumps /\ timerfd' = (IF timerfd > 0 THEN timerfd - 1 ELSE timerfd)
           \/ jumps' # 0 /\ timerfd' = timerfd
    PROVE  ArmInv'
  <1>1. /\ expiration_' = [t \in TimerId |-> IF t \in alive THEN expiration_[t] - d ELSE 0]
        /\ timers_' = {<<e[1] - d, e[2]>> : e \in timers_}
        /\ lnext' = (IF lpc = "rearm" THEN lnext - d ELSE 0)
        /\ UNCHANGED <<cpc, ctimer, cearliest, lpc>>
    BY DEF ShiftWall, cvars
  <1>2. TypeOK /\ timerfd \in Nat \cup {Off} /\ lnext \in Int
    BY DEF QueueInv, TypeOK
  <1>3. \A e \in timers_ : e[1] \in Int /\ e[2] \in TimerId
    BY <1>2 DEF TypeOK
  <1>4. \A e \in timers_' : \E a \in timers_ : e[1] = a[1] - d /\ e[2] = a[2]
    BY <1>1
  <1>5. ASSUME NEW a \in timers_ PROVE \E e \in timers_' : e[1] = a[1] - d /\ e[2] = a[2]
    <2>1. <<a[1] - d, a[2]>> \in timers_'
      BY <1>1
    <2>2. QED
      BY <2>1
  <1>6. ASSUME NEW S \in SUBSET timers_, NEW R, Covers(S),
               \A e \in R : \E a \in S : e[1] = a[1] - d
        PROVE  Covers(R)'
    <2>1. S = {} => R = {}
      BY <1>6
    <2>2. timerfd # Off => timerfd' # Off
      BY <1>2 DEF Off
    <2>3. jumps' = 0 => jumps = 0 /\ d = 1
      OBVIOUS
    <2>4. \A a \in S : jumps' = 0 /\ (timerfd <= 1 \/ timerfd <= a[1])
                           => timerfd' <= 1 \/ timerfd' <= a[1] - d
      BY <1>2, <1>3 DEF Off
    <2>5. QED
      BY <1>6, <2>1, <2>2, <2>3, <2>4 DEF Covers
  <1>7. ASSUME lpc = "rearm" PROVE \A e \in timers_' : lnext' <= e[1]
    BY <1>1, <1>2, <1>3, <1>4, <1>7 DEF ArmInv
  <1>8. ASSUME lpc = "wait" PROVE Arms(cpc["user"], cearliest["user"], ctimer["user"])'
    <2>0. PICK c \in BOOLEAN : c = cearliest["user"]
      BY <1>2 DEF TypeOK, Thread
    <2>1. PICK l, x : l = cpc["user"] /\ c = cearliest["user"] /\ x = ctimer["user"]
      BY <2>0
    <2>2. Arms(l, c, x)
      BY <1>8, <2>1 DEF ArmInv
    <2>3. l # "idle" => x \in TimerId /\ x \in alive
      BY <2>1, InCall DEF ShiftWall, Thread
    <2>4. l # "idle" => expiration_[x] \in Int /\ expiration_'[x] = expiration_[x] - d
      BY <1>1, <1>2, <2>3 DEF TypeOK
    <2>5. CASE l = "arm" \/ (l = "activate" /\ c)
      <3>1. Covers({e \in timers_ : e[2] # x}) /\ \A e \in timers_ : expiration_[x] <= e[1]
        BY <2>2, <2>5 DEF Arms
      <3>2. Covers({e \in timers_ : e[2] # x})'
        <4> DEFINE S == {e \in timers_ : e[2] # x}
                   R == {e \in timers_' : e[2] # x}
        <4>1. S \in SUBSET timers_ /\ \A e \in R : \E a \in S : e[1] = a[1] - d
          BY <1>4
        <4>2. PICK Q : Q = R
          OBVIOUS
        <4>3. Covers(Q)'
          BY <1>6, <3>1, <4>1, <4>2
        <4>4. QED
          BY <4>2, <4>3 DEF Covers
      <3>3. \A e \in timers_' : expiration_'[x] <= e[1]
        BY <1>3, <1>4, <2>4, <2>5, <3>1
      <3>4. QED
        BY <1>1, <2>1, <2>5, <3>2, <3>3 DEF Arms, Covers
    <2>6. CASE ~(l = "arm" \/ (l = "activate" /\ c))
      <3>1. Covers(timers_)
        BY <2>2, <2>6 DEF Arms
      <3>2. Covers(timers_)'
        <4>1. PICK Q : Q = timers_'
          OBVIOUS
        <4>2. Covers(Q)'
          BY <1>4, <1>6, <3>1, <4>1
        <4>3. QED
          BY <4>1, <4>2 DEF Covers
      <3>3. ASSUME l = "emplace"
            PROVE  IF c THEN \A e \in timers_' : expiration_'[x] < e[1]
                   ELSE \E e \in timers_' : e[1] <= expiration_'[x]
        <4>1. IF c THEN \A e \in timers_ : expiration_[x] < e[1]
              ELSE \E e \in timers_ : e[1] <= expiration_[x]
          BY <2>2, <2>6, <3>3 DEF Arms
        <4>2. CASE c
          BY <1>3, <1>4, <2>4, <3>3, <4>1, <4>2
        <4>3. CASE ~c
          BY <1>3, <1>5, <2>4, <3>3, <4>1, <4>3
        <4>4. QED
          BY <4>2, <4>3
      <3>4. QED
        BY <1>1, <2>1, <2>6, <3>2, <3>3 DEF Arms
    <2>7. QED
      BY <2>5, <2>6
  <1>9. QED
    BY <1>1, <1>7, <1>8 DEF ArmInv

\* ArmInv is inductive relative to QueueInv.
LEMMA ArmStep ==
    ASSUME Serialised, QueueInv, ArmInv, [Next]_vars
    PROVE  ArmInv'
  <1>1. TypeOK /\ \A e \in timers_ : e[1] \in Int /\ e[2] \in TimerId
    BY DEF QueueInv, TypeOK
  <1>2. ASSUME NEW h \in Thread, ApiCall(h) PROVE ArmInv'
    <2>1. /\ UNCHANGED <<timers_, timerfd, lpc, lnext, cearliest, jumps>>
          /\ lpc # "rearm" /\ cpc[h] = "idle" /\ (h = "loop" => lpc = "callback")
      BY <1>2 DEF ApiCall, AddTimer, StopTimer, CanCall, In, qvars, lvars, Thread
    <2>2. CASE h = "loop"
      BY <2>1, <2>2 DEF ArmInv
    <2>3. CASE h = "user"
      <3>1. lpc = "wait" /\ Covers(timers_)
        BY <1>2, <2>1, <2>3 DEF ApiCall, AddTimer, StopTimer, CanCall, ArmInv, Arms
      <3>2. cpc'["user"] \in {"idle", "insert", "erase", "canceling"}
        BY <1>1, <1>2, <2>1, <2>3 DEF ApiCall, AddTimer, StopTimer, Goto, TypeOK
      <3>3. Covers(timers_)'
        BY <2>1, <3>1 DEF Covers
      <3>4. QED
        BY <2>1, <3>1, <3>2, <3>3 DEF ArmInv, Arms
    <2>4. QED
      BY <2>2, <2>3 DEF Thread
  <1>3. ASSUME NEW h \in Thread, ApiStep(h) PROVE ArmInv'
    <2>1. cpc[h] # "idle" /\ fault = "none" /\ lpc' = lpc
      BY <1>3 DEF ApiStep, InsertEarliest, InsertTimers, InsertActive, ArmForNewTimer, AddTimerResult,
                  CancelTimers, CancelActive, In, lvars
    <2>2. lpc = IF h = "user" THEN "wait" ELSE IF lpc = "reset" THEN "reset" ELSE "callback"
      BY <2>1, InCall
    <2>3. CASE h = "loop"
      BY <2>1, <2>2, <2>3 DEF ArmInv
    <2>4. CASE h = "user"
      BY <1>3, <2>1, <2>2, <2>4, UserArms DEF ArmInv
    <2>5. QED
      BY <2>3, <2>4 DEF Thread
  <1>4. CASE LoopStep
    <2>1. CASE ResetRearm
      <3>1. /\ At("rearm") /\ "rearm" # "wait" /\ timerfd' = Max({1, lnext}) /\ lpc' = "wait"
            /\ timers_' = timers_ /\ UNCHANGED cvars
        BY <2>1 DEF ResetRearm, resetTimerfd, qvars
      <3>2. cpc["user"] = "idle" /\ \A e \in timers_ : lnext <= e[1]
        BY <3>1, LoopFacts DEF Thread, ArmInv, At
      <3>3. lnext \in Int /\ timerfd' = IF lnext <= 1 THEN 1 ELSE lnext
        BY <1>1, <3>1, MaxOne DEF TypeOK
      <3>4. timerfd' # Off /\ \A e \in timers_ : timerfd' <= 1 \/ timerfd' <= e[1]
        BY <1>1, <3>2, <3>3 DEF Off
      <3>5. Covers(timers_)'
        BY <3>1, <3>4 DEF Covers
      <3>6. QED
        BY <3>1, <3>2, <3>5 DEF ArmInv, Arms, cvars
    <2>2. CASE ResetNextExpire
      <3>1. At("reset") /\ "reset" # "wait" /\ timers_' = timers_ /\ UNCHANGED cvars
        BY <2>2 DEF ResetNextExpire, qvars
      <3>2. Exact /\ cpc["user"] = "idle"
        BY <3>1, LoopFacts DEF Thread
      <3>3. CASE timers_ = {}
        <4>1. lpc' = "wait" /\ Covers(timers_)'
          BY <2>2, <3>1, <3>3 DEF ResetNextExpire, Covers
        <4>2. QED
          BY <3>1, <3>2, <4>1 DEF ArmInv, Arms, cvars
      <3>4. CASE timers_ # {}
        <4>1. PICK e \in timers_ : /\ \A d \in timers_ : e[1] <= d[1]
                                   /\ lnext' = expiration_[e[2]] /\ lpc' = "rearm"
          BY <2>2, <3>4 DEF ResetNextExpire
        <4>2. QED
          BY <3>1, <3>2, <4>1 DEF ArmInv, Exact
      <3>5. QED
        BY <3>3, <3>4
    <2>3. CASE ~ResetRearm /\ ~ResetNextExpire
      <3>1. lpc' \notin {"wait", "rearm"}
        BY <1>4, <2>3 DEF LoopStep, Wakeup, ReadTimerfd, ExpireTimers, ExpireActive, BeginCalling, StartTimer,
                          ResetRepeating, ResetOneShot, CallbackReturns, EndCalling, At
      <3>2. QED
        BY <3>1 DEF ArmInv
    <2>4. QED
      BY <2>1, <2>2, <2>3
  <1>5. CASE Tick
    BY <1>5, ShiftArms DEF Tick
  <1>6. ASSUME NEW d \in Jumps, AdjustClock(d) PROVE ArmInv'
    <2>1. d \in Int /\ jumps' # 0 /\ timerfd' = timerfd /\ ShiftWall(d)
      BY <1>1, <1>6, TimerConstants DEF AdjustClock, TypeOK
    <2>2. QED
      BY <2>1, ShiftArms
  <1>7. CASE UNCHANGED vars
    BY <1>7 DEF vars, tvars, qvars, cvars, lvars, ArmInv, Arms, Covers
  <1>8. QED
    BY <1>2, <1>3, <1>4, <1>5, <1>6, <1>7 DEF Next

\* For any timers: a waiting loop with timers pending has an armed timerfd, and as long as
\* the clock was not set it becomes readable no later than the first of them is due
\* (ArmedForEarliest).
THEOREM EarliestStaysArmed ==
    ASSUME Serialised
    PROVE  Spec => []ArmedForEarliest
  <1>1. Init => ArmInv
    BY DEF Init, ArmInv, Arms, Covers, Thread
  <1>2. QueueInv /\ ArmInv /\ [Next]_vars => ArmInv'
    BY ArmStep
  <1>3. QueueInv /\ ArmInv => ArmedForEarliest
    <2> SUFFICES ASSUME QueueInv, ArmInv, Quiet, timers_ # {}
                 PROVE  /\ timerfd # Off
                        /\ jumps = 0 => \A e \in timers_ : timerfd <= Max({1, e[1]})
      BY DEF ArmedForEarliest
    <2>1. Covers(timers_)
      BY DEF Quiet, Thread, ArmInv, Arms
    <2>2. timerfd \in Int /\ \A e \in timers_ : e[1] \in Int
      BY DEF QueueInv, TypeOK, Off
    <2>3. QED
      BY <2>1, <2>2, MaxOne DEF Covers
  <1>4. QED
    BY <1>1, <1>2, <1>3, QueueInvHolds, PTL DEF Spec

-----------------------------------------------------------------------------
(* The loop of TimerEventMgr and its channels, module TimerLoop. *)

(* FlagMatchesEpoll is inductive as it stands: that a closed descriptor is not
   registered, which MgrTypeOK says, is what makes the removal before the close
   effective whether or not the flag is set. *)

\* The initial state satisfies the invariant.
LEMMA FlagInit == MgrInit => FlagMatchesEpoll
  BY ZenonT(40) DEF MgrInit, FlagMatchesEpoll, MgrTypeOK, Channel, Event

\* UpdateChannel, called after events_ of a channel was changed, brings epoll in line
\* with it, if flag and epoll agreed before and the descriptor is open; the other
\* channel is left alone.
LEMMA UpdateLemma ==
    ASSUME MgrTypeOK, NEW ch \in Channel, NEW ev \in SUBSET Event,
           events_' = [events_ EXCEPT ![ch] = ev], UpdateChannel(ch),
           \A c \in open : /\ isInEpoll_[c] <=> c \in registered
                           /\ c \in registered => interest[c] = events_[c]
    PROVE  /\ events_' \in [Channel -> SUBSET Event]
           /\ interest' \in [Channel -> SUBSET Event]
           /\ isInEpoll_' \in [Channel -> BOOLEAN]
           /\ registered' \subseteq open
           /\ \A c \in open : /\ isInEpoll_'[c] <=> c \in registered'
                              /\ c \in registered' => interest'[c] = events_'[c]
  <1>1. CASE isInEpoll_[ch] /\ ev = {}
    BY <1>1 DEF UpdateChannel, DelChannel, MgrTypeOK
  <1>2. CASE isInEpoll_[ch] /\ ev # {}
    BY <1>2 DEF UpdateChannel, ModChannel, MgrTypeOK
  <1>3. CASE ~isInEpoll_[ch]
    <2>1. AddChannel(ch) /\ (ch \in open => ch \notin registered)
      BY <1>3 DEF UpdateChannel
    <2>2. isInEpoll_' = [isInEpoll_ EXCEPT ![ch] = TRUE]
      BY <2>1 DEF AddChannel
    <2>3. /\ isInEpoll_' \in [Channel -> BOOLEAN]
          /\ events_' \in [Channel -> SUBSET Event]
      BY <2>2 DEF MgrTypeOK
    <2>4. CASE ch \in open
      <3>1. /\ registered' = registered \cup {ch}
            /\ interest' = [interest EXCEPT ![ch] = ev]
        BY <2>1, <2>4 DEF AddChannel, MgrTypeOK
      <3>2. QED
        BY <2>2, <2>3, <2>4, <3>1 DEF MgrTypeOK
    <2>5. CASE ch \notin open
      BY <2>1, <2>2, <2>3, <2>5 DEF AddChannel, MgrTypeOK
    <2>6. QED
      BY <2>4, <2>5
  <1>4. QED
    BY <1>1, <1>2, <1>3

\* Every step preserves the invariant.
LEMMA FlagStep == FlagMatchesEpoll /\ [MgrNext]_mgrvars => FlagMatchesEpoll'
  <1> SUFFICES ASSUME FlagMatchesEpoll, [MgrNext]_mgrvars PROVE FlagMatchesEpoll'
    OBVIOUS
  <1>0. MgrTypeOK /\ \A c \in open : /\ isInEpoll_[c] <=> c \in registered
                                     /\ c \in registered => interest[c] = events_[c]
    BY DEF FlagMatchesEpoll
  <1> USE <1>0
  <1>1. ASSUME NEW ch \in Channel, NEW ev \in SUBSET Event, SetEvents(ch, ev)
        PROVE  FlagMatchesEpoll'
    BY <1>1, UpdateLemma DEF SetEvents, FlagMatchesEpoll, MgrTypeOK, mlvars
  <1>2. CASE \E ch \in Channel : \/ EnableReading(ch) \/ DisableReading(ch)
                                 \/ EnableWriting(ch) \/ DisableWriting(ch)
                                 \/ DisableAll(ch)
    <2>1. \E ch \in Channel : \E ev \in SUBSET Event : SetEvents(ch, ev)
      BY <1>2 DEF EnableReading, DisableReading, EnableWriting,
                  DisableWriting, DisableAll, MgrTypeOK, Event
    <2>2. QED
      BY <1>1, <2>1
  <1>3. ASSUME NEW ch \in Channel, Remove(ch) PROVE FlagMatchesEpoll'
    BY <1>3 DEF Remove, DelChannel, FlagMatchesEpoll, MgrTypeOK, mlvars
  <1>4. CASE DestoryDisable
    <2>1. "wakeup" \in Channel /\ {} \in SUBSET Event
      BY DEF Channel
    <2>2. QED
      BY <1>4, <2>1, UpdateLemma
         DEF DestoryDisable, FlagMatchesEpoll, MgrTypeOK, mlvars
  <1>5. CASE DestoryRemove
    BY <1>5 DEF DestoryRemove, DelChannel, FlagMatchesEpoll, MgrTypeOK,
                mlvars, Channel
  <1>6. CASE DestoryClose
    BY <1>6 DEF DestoryClose, FlagMatchesEpoll, MgrTypeOK, mlvars
  <1>7. CASE QuitLoop \/ StartLoop \/ TestQuit \/ AllHandled \/ TimerExpires
    BY <1>7 DEF QuitLoop, StartLoop, TestQuit, AllHandled, TimerExpires,
                FlagMatchesEpoll, MgrTypeOK, mlvars, chvars
  <1>8. CASE EpollWaitActive
    BY <1>8 DEF EpollWaitActive, Ready, FlagMatchesEpoll, MgrTypeOK,
                chvars, Event
  <1>9. ASSUME NEW ch \in Channel, HandleEvent(ch) PROVE FlagMatchesEpoll'
    BY <1>9 DEF HandleEvent, FlagMatchesEpoll, MgrTypeOK, chvars
  <1>10. CASE UNCHANGED mgrvars
    BY <1>10 DEF mgrvars, mlvars, chvars, FlagMatchesEpoll, MgrTypeOK
  <1>11. QED
    BY <1>2, <1>3, <1>4, <1>5, <1>6, <1>7, <1>8, <1>9, <1>10
       DEF MgrNext, MgrStep, UserStep

\* Whatever sequence of channel operations and Destory the user thread calls, the flag
\* of an open channel says whether epoll watches it, and for which events.
THEOREM FlagStaysExact == MgrSpec => []FlagMatchesEpoll
  BY FlagInit, FlagStep, PTL DEF MgrSpec
=============================================================================
