----------------------------- MODULE TimerQueue -----------------------------
(***************************************************************************)
(* timerfd/timer_queue.cpp with timer.h and timer.cpp: the timers of       *)
(* TimerEventMgr, kept in two containers, and the one timerfd that is      *)
(* armed for the earliest of them.                                         *)
(*                                                                         *)
(* Two threads run this code and nothing locks it: the loop thread, which  *)
(* runs HandleRead when the timerfd is readable and, from inside it, the   *)
(* callbacks of the timers; and a user thread.  Both may call AddTimer and *)
(* StopTimer, the loop thread from inside a callback.  An operation on one *)
(* container, a write of an atomic, a system call and a reading of the     *)
(* clock are one step each.  With Serialised, the application keeps its    *)
(* own calls to the times at which the loop thread blocks in epoll_wait.   *)
(*                                                                         *)
(* TIME.  A wall-clock time stamp is represented by its distance from the  *)
(* wall clock's present reading, so that a step of the clock moves all     *)
(* stamps and no absolute time, and no bound on it, is needed.  The        *)
(* timerfd counts monotonic time and does not notice wall-clock jumps.     *)
(*                                                                         *)
(* FAULTS.  A failed assert, a read through the end iterator and a use of  *)
(* a deleted Timer set fault and stop the program: the first two kill the  *)
(* process, and after the third nothing can be said.                       *)
(***************************************************************************)
EXTENDS Integers, FiniteSets, FiniteSetsExt

CONSTANTS
    MaxTimers,    \* bound: how many timers are created
    Delays,       \* expirations given to AddTimer, relative to now
    Intervals,    \* intervals given to AddTimer; 0 makes a one-shot timer
    Jumps,        \* adjustments of the wall clock
    MaxJumps,     \* bound: how often it is adjusted
    MaxLate,      \* bound: how far the loop thread may lag behind the clock
    MaxAhead,     \* bound: how far a stamp may lie in the future
    Serialised    \* the user thread only calls while the loop thread waits

ASSUME TimerConstants ==
    /\ MaxTimers \in Nat /\ MaxLate \in Nat /\ MaxAhead \in Nat /\ MaxJumps \in Nat
    /\ Delays \subseteq -MaxLate .. MaxAhead
    /\ Intervals \subseteq 0 .. MaxAhead
    /\ Jumps \subseteq Int
    /\ Serialised \in BOOLEAN

TimerId == 0 .. MaxTimers - 1     \* a Timer object and its sequence_
Thread == {"loop", "user"}
Off == -1                         \* the timerfd is disarmed; 0: it is readable

VARIABLES
    num_created_,            \* Timer::num_created_
    alive,                   \* the Timer objects that were new'ed, not deleted
    expiration_, interval_,  \* their members
    timers_,                 \* set<Entry>: pairs of a stamp and a timer
    active_timers_,          \* the keys of active_timers_
    callingExpiredTimers_,
    cancelingTimers_,        \* the keys of cancelingTimers_
    timerfd,                 \* Off, or the ticks until it becomes readable
    cpc, ctimer, cearliest,  \* per thread: API call in progress and its locals
    lpc, lnow, lrun, lexpired, lnext,   \* HandleRead and its locals
    jumps,                   \* how often the wall clock was adjusted
    fault                    \* "none", or why the program stopped

tvars == <<num_created_, alive, expiration_, interval_>>
callingvars == <<callingExpiredTimers_, cancelingTimers_>>
qvars == <<timers_, active_timers_, callingvars>>
cvars == <<cpc, ctimer, cearliest>>
lvars == <<lpc, lnow, lrun, lexpired, lnext>>
vars == <<tvars, qvars, timerfd, cvars, lvars, jumps, fault>>

(* callingExpiredTimers_ is a member without an initializer (timer_queue.h:38);
   it holds an arbitrary value until HandleRead has run once. *)
Init ==
    /\ num_created_ = 0
    /\ alive = {}
    /\ expiration_ = [t \in TimerId |-> 0]
    /\ interval_ = [t \in TimerId |-> 0]
    /\ timers_ = {}
    /\ active_timers_ = {}
    /\ callingExpiredTimers_ \in BOOLEAN
    /\ cancelingTimers_ = {}
    /\ timerfd = Off
    /\ cpc = [h \in Thread |-> "idle"]
    /\ ctimer = [h \in Thread |-> 0]
    /\ cearliest = [h \in Thread |-> FALSE]
    /\ lpc = "wait"
    /\ lnow = 0
    /\ lrun = {}
    /\ lexpired = {}
    /\ lnext = 0
    /\ jumps = 0
    /\ fault = "none"

\* The assertions of lines 118, 133, 138 and 151.
SizesEqual == Cardinality(timers_) = Cardinality(active_timers_)
Assert(ok) == fault' = IF ok THEN "none" ELSE "assert"
Deref(t)   == fault' = IF t \in alive THEN "none" ELSE "use_after_free"

Goto(h, l) == cpc' = [cpc EXCEPT ![h] = l]
In(h, l)   == fault = "none" /\ cpc[h] = l

\* The call of thread h returns; its locals are gone.
Return(h) ==
    /\ Goto(h, "idle")
    /\ ctimer' = [ctimer EXCEPT ![h] = 0]
    /\ cearliest' = [cearliest EXCEPT ![h] = FALSE]

\* delete: the members of the object are gone too.
Delete(t) ==
    /\ alive' = alive \ {t}
    /\ expiration_' = [expiration_ EXCEPT ![t] = 0]
    /\ interval_' = [interval_ EXCEPT ![t] = 0]

\* Lines 17-38, timer_queue.cpp: at least 100 microseconds, here one tick, from
\* now; timerfd_settime also discards an expiration nobody has read yet.
resetTimerfd(stamp) == timerfd' = Max({1, stamp})

-----------------------------------------------------------------------------
(* AddTimer, lines 67-72, and the constructor of Timer. *)

CanCall(h) ==
    /\ In(h, "idle")
    /\ \/ h = "loop" /\ lpc = "callback"
       \/ h = "user" /\ (Serialised => lpc = "wait")

AddTimer(h, when, interval) ==
    /\ CanCall(h)
    /\ num_created_ < MaxTimers
    /\ num_created_' = num_created_ + 1
    /\ alive' = alive \cup {num_created_}
    /\ expiration_' = [expiration_ EXCEPT ![num_created_] = when]
    /\ interval_' = [interval_ EXCEPT ![num_created_] = interval]
    /\ ctimer' = [ctimer EXCEPT ![h] = num_created_]
    /\ Goto(h, "insert")
    /\ UNCHANGED <<qvars, timerfd, cearliest, lvars, fault>>

\* Mutant: only an insertion into an empty set changes the earliest expiration.
InsertEarliestIfEmpty(h) ==
    /\ In(h, "insert")
    /\ cearliest' = [cearliest EXCEPT ![h] = timers_ = {}]
    /\ Assert(SizesEqual)
    /\ Goto(h, "emplace")
    /\ UNCHANGED <<tvars, qvars, timerfd, ctimer, lvars>>

\* insert, lines 138-145.
InsertEarliest(h) ==
    /\ In(h, "insert")
    /\ cearliest' = [cearliest EXCEPT ![h] =
            \A e \in timers_ : expiration_[ctimer[h]] < e[1]]
    /\ Assert(SizesEqual)
    /\ Goto(h, "emplace")
    /\ UNCHANGED <<tvars, qvars, timerfd, ctimer, lvars>>

\* insert, line 148.
InsertTimers(h) ==
    /\ In(h, "emplace")
    /\ timers_' = timers_ \cup {<<expiration_[ctimer[h]], ctimer[h]>>}
    /\ Goto(h, "activate")
    /\ UNCHANGED <<tvars, active_timers_, callingvars, timerfd, ctimer,
                   cearliest, lvars, fault>>

\* insert, lines 149-152, and its return to AddTimerInLoop (line 103) or Reset.
InsertActive(h) ==
    /\ In(h, "activate")
    /\ active_timers_' = active_timers_ \cup {ctimer[h]}
    /\ Assert(Cardinality(timers_) = Cardinality(active_timers_'))
    /\ IF h = "loop" /\ lpc = "reset"
       THEN Return(h)
       ELSE /\ Goto(h, IF cearliest[h] THEN "arm" ELSE "result")
            /\ UNCHANGED <<ctimer, cearliest>>
    /\ UNCHANGED <<tvars, timers_, callingvars, timerfd, lvars>>

\* Mutant: the call of resetTimerfd is missing.
ArmForNewTimerMissing(h) ==
    /\ In(h, "arm")
    /\ Deref(ctimer[h])
    /\ Goto(h, "result")
    /\ UNCHANGED <<tvars, qvars, timerfd, ctimer, cearliest, lvars>>

\* AddTimerInLoop, line 104.
ArmForNewTimer(h) ==
    /\ In(h, "arm")
    /\ Deref(ctimer[h])
    /\ resetTimerfd(expiration_[ctimer[h]])
    /\ Goto(h, "result")
    /\ UNCHANGED <<tvars, qvars, ctimer, cearliest, lvars>>

\* Line 71: the id is read from the Timer object after it was handed over.
AddTimerResult(h) ==
    /\ In(h, "result")
    /\ Deref(ctimer[h])
    /\ Return(h)
    /\ UNCHANGED <<tvars, qvars, timerfd, lvars>>

-----------------------------------------------------------------------------
(* StopTimer and CancelInLoop, lines 74-78 and 107-119. *)

\* Line 109: find.  Line 115 passes it->second on although it is the end iterator, a
\* null node in the standard library in use: reading it ends the program before
\* emplace has put anything into cancelingTimers_.
StopTimer(h, t) ==
    /\ CanCall(h)
    /\ \/ /\ t \in active_timers_
          /\ Goto(h, "erase")
          /\ ctimer' = [ctimer EXCEPT ![h] = t]
          /\ UNCHANGED fault
       \/ /\ t \notin active_timers_
          /\ callingExpiredTimers_
          /\ Goto(h, "canceling")
          /\ ctimer' = [ctimer EXCEPT ![h] = t]
          /\ fault' = "end_deref"
       \/ /\ t \notin active_timers_
          /\ ~callingExpiredTimers_
          /\ Assert(SizesEqual)
          /\ UNCHANGED <<cpc, ctimer>>
    /\ UNCHANGED <<tvars, qvars, timerfd, cearliest, lvars>>

\* Line 111: erase by value; nothing happens if the entry is not there.
CancelTimers(h) ==
    /\ In(h, "erase")
    /\ Deref(ctimer[h])
    /\ timers_' = timers_ \ {<<expiration_[ctimer[h]], ctimer[h]>>}
    /\ Goto(h, "delete")
    /\ UNCHANGED <<tvars, active_timers_, callingvars, timerfd, ctimer,
                   cearliest, lvars>>

\* Lines 112-118.
CancelActive(h) ==
    /\ In(h, "delete")
    /\ Delete(ctimer[h])
    /\ active_timers_' = active_timers_ \ {ctimer[h]}
    /\ Assert(Cardinality(timers_) = Cardinality(active_timers_'))
    /\ Return(h)
    /\ UNCHANGED <<num_created_, timers_, callingvars, timerfd, lvars>>

-----------------------------------------------------------------------------
(* HandleRead, lines 81-97, run by the loop thread. *)

At(l) == lpc = l /\ In("loop", "idle")

\* epoll_wait reports the timerfd, the channel calls HandleRead, which reads the
\* clock (line 83).
Wakeup ==
    /\ At("wait")
    /\ timerfd = 0
    /\ Serialised => cpc["user"] = "idle"
    /\ lnow' = 0
    /\ lpc' = "read"
    /\ UNCHANGED <<tvars, qvars, timerfd, cvars, lrun, lexpired, lnext, fault>>

\* readTimerfd, line 84: a timerfd re-armed meanwhile has nothing to read.
ReadTimerfd ==
    /\ At("read")
    /\ timerfd' = IF timerfd = 0 THEN Off ELSE timerfd
    /\ lpc' = "expire"
    /\ UNCHANGED <<tvars, qvars, cvars, lnow, lrun, lexpired, lnext, fault>>

\* Mutant: one tick too many.
DueEarly == {e \in timers_ : e[1] <= lnow + 1}

\* GetExpired, lines 124-128: the entries whose stamp is not after lnow.
Due == {e \in timers_ : e[1] <= lnow}

ExpireTimers ==
    /\ At("expire")
    /\ lexpired' = {e[2] : e \in Due}
    /\ timers_' = timers_ \ Due
    /\ lpc' = "deactivate"
    /\ UNCHANGED <<tvars, active_timers_, callingvars, timerfd, cvars,
                   lnow, lrun, lnext, fault>>

\* GetExpired, lines 130-134.
ExpireActive ==
    /\ At("deactivate")
    /\ active_timers_' = active_timers_ \ lexpired
    /\ fault' = IF ~(lexpired \subseteq alive) THEN "use_after_free"
                ELSE IF Cardinality(timers_) = Cardinality(active_timers_')
                     THEN "none" ELSE "assert"
    /\ lrun' = lexpired
    /\ lpc' = "calling"
    /\ UNCHANGED <<tvars, timers_, callingvars, timerfd, cvars, lnow,
                   lexpired, lnext>>

\* Lines 89-90.
BeginCalling ==
    /\ At("calling")
    /\ callingExpiredTimers_' = TRUE
    /\ cancelingTimers_' = {}
    /\ lpc' = "run"
    /\ UNCHANGED <<tvars, timers_, active_timers_, timerfd, cvars, lnow, lrun,
                   lexpired, lnext, fault>>

\* The entries of expired are in the order of their stamps; entries with equal
\* stamps are ordered by the address of the Timer, which may be any.
FirstOf(S, t) == t \in S /\ \A u \in S : expiration_[t] <= expiration_[u]

\* Lines 91-93: the callback of the next timer starts.
StartTimer(t) ==
    /\ At("run")
    /\ FirstOf(lrun, t)
    /\ Deref(t)
    /\ lrun' = lrun \ {t}
    /\ lpc' = "callback"
    /\ UNCHANGED <<tvars, qvars, timerfd, cvars, lnow, lexpired, lnext>>

\* The callback returns.
CallbackReturns ==
    /\ At("callback")
    /\ lpc' = "run"
    /\ UNCHANGED <<tvars, qvars, timerfd, cvars, lnow, lrun, lexpired, lnext, fault>>

\* Line 94.
EndCalling ==
    /\ At("run")
    /\ lrun = {}
    /\ callingExpiredTimers_' = FALSE
    /\ lpc' = "reset"
    /\ UNCHANGED <<tvars, timers_, active_timers_, cancelingTimers_, timerfd, cvars,
                   lnow, lrun, lexpired, lnext, fault>>

\* Lines 159-160: it repeats, and nobody has cancelled it.
StartsAgain(t) == interval_[t] > 0 /\ t \notin cancelingTimers_

\* Reset, lines 157-163: a repeating timer starts again from the time HandleRead
\* was entered, not from the time its callback ended.
ResetRepeating(t) ==
    /\ At("reset")
    /\ FirstOf(lexpired, t)
    /\ t \in alive => StartsAgain(t)
    /\ Deref(t)
    /\ lexpired' = lexpired \ {t}
    /\ expiration_' = [expiration_ EXCEPT ![t] = lnow + interval_[t]]
    /\ ctimer' = [ctimer EXCEPT !["loop"] = t]
    /\ Goto("loop", "insert")
    /\ UNCHANGED <<num_created_, alive, interval_, qvars, timerfd, cearliest, lpc,
                   lnow, lrun, lnext>>

\* Mutant: a timer that does not start again is not deleted.
ResetOneShotLeaks(t) ==
    /\ At("reset")
    /\ FirstOf(lexpired, t)
    /\ t \in alive => ~StartsAgain(t)
    /\ Deref(t)
    /\ lexpired' = lexpired \ {t}
    /\ UNCHANGED <<tvars, qvars, timerfd, cvars, lpc, lnow, lrun, lnext>>

\* Reset, lines 164-166.
ResetOneShot(t) ==
    /\ At("reset")
    /\ FirstOf(lexpired, t)
    /\ t \in alive => ~StartsAgain(t)
    /\ Deref(t)
    /\ lexpired' = lexpired \ {t}
    /\ Delete(t)
    /\ UNCHANGED <<num_created_, qvars, timerfd, cvars, lpc, lnow, lrun, lnext>>

\* Reset, lines 169-171.  Stamps are times since 1970, so Valid() is true.
ResetNextExpire ==
    /\ At("reset")
    /\ lexpired = {}
    /\ IF timers_ = {}
       THEN lpc' = "wait" /\ lnow' = 0 /\ UNCHANGED <<lnext, fault>>
       ELSE \E e \in timers_ : /\ \A d \in timers_ : e[1] <= d[1]
                               /\ Deref(e[2])
                               /\ lnext' = expiration_[e[2]]
                               /\ lpc' = "rearm"
                               /\ UNCHANGED lnow
    /\ UNCHANGED <<tvars, qvars, timerfd, cvars, lrun, lexpired>>

\* Reset, lines 172-174, and the return to the event loop.
ResetRearm ==
    /\ At("rearm")
    /\ resetTimerfd(lnext)
    /\ lnext' = 0
    /\ lnow' = 0
    /\ lpc' = "wait"
    /\ UNCHANGED <<tvars, qvars, cvars, lrun, lexpired, fault>>

-----------------------------------------------------------------------------
(* Time. *)

\* The bounds on time.  The clock moves on only as long as no stamp is more than
\* MaxLate ticks old, except while the program waits for an armed timerfd: only the
\* clock ends this wait.
Waiting == timerfd > 0 /\ lpc = "wait" /\ cpc["user"] = "idle"
InBounds(stamp) == stamp <= MaxAhead /\ (Waiting \/ stamp >= -MaxLate)

\* The wall clock moves by d: all stamps in use are d nearer.
ShiftWall(d) ==
    /\ fault = "none"
    /\ \A t \in alive : InBounds(expiration_[t] - d)
    /\ InBounds(lnow - d)
    /\ expiration_' = [t \in TimerId |-> IF t \in alive THEN expiration_[t] - d ELSE 0]
    /\ timers_' = {<<e[1] - d, e[2]>> : e \in timers_}
    /\ lnow' = IF lpc = "wait" THEN 0 ELSE lnow - d
    /\ lnext' = IF lpc = "rearm" THEN lnext - d ELSE 0
    /\ UNCHANGED <<num_created_, alive, interval_, active_timers_,
                   callingvars, cvars, lpc, lrun, lexpired, fault>>

\* Time passes.
Tick ==
    /\ ShiftWall(1)
    /\ timerfd' = IF timerfd > 0 THEN timerfd - 1 ELSE timerfd
    /\ UNCHANGED jumps

\* Somebody sets the clock that TimerStamp::NowTime reads.
AdjustClock(d) ==
    /\ jumps < MaxJumps
    /\ ShiftWall(d)
    /\ jumps' = jumps + 1
    /\ UNCHANGED timerfd

-----------------------------------------------------------------------------
ApiStep(h) ==
    /\ \/ InsertEarliest(h) \/ InsertTimers(h) \/ InsertActive(h) \/ ArmForNewTimer(h)
       \/ AddTimerResult(h) \/ CancelTimers(h) \/ CancelActive(h)
    /\ UNCHANGED jumps

LoopStep ==
    /\ \/ Wakeup \/ ReadTimerfd \/ ExpireTimers \/ ExpireActive \/ BeginCalling
       \/ \E t \in TimerId : StartTimer(t) \/ ResetRepeating(t) \/ ResetOneShot(t)
       \/ CallbackReturns \/ EndCalling \/ ResetNextExpire \/ ResetRearm
    /\ UNCHANGED jumps

ApiCall(h) ==
    /\ \/ \E when \in Delays, interval \in Intervals : AddTimer(h, when, interval)
       \/ \E t \in TimerId : StopTimer(h, t)
    /\ UNCHANGED jumps

Next ==
    \/ \E h \in Thread : ApiCall(h) \/ ApiStep(h)
    \/ LoopStep
    \/ Tick
    \/ \E d \in Jumps : AdjustClock(d)

Spec == Init /\ [][Next]_vars

(* Time passes, the loop thread and a user thread that has begun a call are
   scheduled, and a callback returns.  Nobody is obliged to call the API. *)
Fairness ==
    /\ WF_vars(Tick)
    /\ WF_vars(LoopStep \/ ApiStep("loop"))
    /\ WF_vars(ApiStep("user"))

FairSpec == Spec /\ Fairness

-----------------------------------------------------------------------------
(* Properties. *)

Quiet == lpc = "wait" /\ \A h \in Thread : cpc[h] = "idle"
Entries(S) == {e[2] : e \in S}

\* Every variable keeps its type.
TypeOK ==
    /\ num_created_ \in 0 .. MaxTimers
    /\ alive \subseteq 0 .. num_created_ - 1
    /\ expiration_ \in [TimerId -> Int]
    /\ interval_ \in [TimerId -> Nat]
    /\ timers_ \subseteq Int \X TimerId
    /\ active_timers_ \subseteq TimerId
    /\ callingExpiredTimers_ \in BOOLEAN
    /\ cancelingTimers_ \subseteq TimerId
    /\ timerfd \in Nat \cup {Off}
    /\ cpc \in [Thread -> {"idle", "insert", "emplace", "activate", "arm",
                           "result", "erase", "delete", "canceling"}]
    /\ ctimer \in [Thread -> TimerId \cup {0}]
    /\ cearliest \in [Thread -> BOOLEAN]
    /\ lpc \in {"wait", "read", "expire", "deactivate", "calling", "run",
                "callback", "reset", "rearm"}
    /\ lnow \in Int /\ lnext \in Int
    /\ lrun \subseteq TimerId /\ lexpired \subseteq TimerId
    /\ jumps \in 0 .. MaxJumps
    /\ fault \in {"none", "assert", "end_deref", "use_after_free"}

\* In whatever order callbacks add and stop timers, themselves included, no assertion
\* of timer_queue.cpp fails and no deleted Timer is used.  The end iterator is read
\* (line 115) only by a StopTimer for a timer in neither container, while
\* callingExpiredTimers_ is set: one that is executing, that expired together with the
\* executing one, or that does not exist any more.  The first is the case that the
\* comments on lines 114 (and timer_queue.h:37) call solved; it ends the program.
\* When the loop waits and no call is in progress, the two containers hold the same
\* timers, these are exactly the Timer objects that exist (no leak, no dangling
\* pointer), and every entry carries its timer's current expiration, without which the
\* erase of line 111 would miss it.  All variables keep their types at any time.
ContainersAgree ==
    /\ TypeOK
    /\ fault \in {"none", "end_deref"}
    /\ fault = "end_deref"
          => /\ callingExpiredTimers_
             /\ \E h \in Thread : /\ cpc[h] = "canceling"
                                  /\ ctimer[h] \notin active_timers_ \cup Entries(timers_)
    /\ Quiet => /\ Entries(timers_) = active_timers_
                /\ alive = active_timers_
                /\ \A e \in timers_ : e[1] = expiration_[e[2]]

\* A waiting loop with timers pending has an armed timerfd, and as long as the
\* wall clock was not set it is armed no later than the earliest expiration.
ArmedForEarliest ==
    Quiet /\ timers_ # {}
        => /\ timerfd # Off
           /\ jumps = 0 => \A e \in timers_ : timerfd <= Max({1, e[1]})

\* A callback starts only when its timer is due, by its current expiration, as long as
\* the wall clock was not set, and only when the timer is in no container any more, so
\* that nobody can delete it under the callback (lines 86-93).
NeverEarly ==
    [][\A t \in TimerId :
          StartTimer(t) => /\ jumps = 0 => expiration_[t] <= 0
                           /\ t \notin active_timers_ \cup Entries(timers_)]_vars

\* Every active timer expires or is stopped, as it leaves active_timers_, and a
\* repeating timer whose callback runs comes back, unless the end iterator was read.
\* No timer is forgotten by a timerfd that was armed for another one, for a time that
\* a jump of the wall clock has made wrong, or not at all.
TimersTakeTurns ==
    \A t \in TimerId :
        /\ []<>(t \notin active_timers_ \/ fault # "none")
        /\ t \in lrun /\ interval_[t] > 0 ~> t \in active_timers_ \/ fault # "none"

(* What comments and assertions of the source say and the code does not do. *)

\* Line 118: "the two containers must have equally many elements", asserted at
\* lines 118, 133, 138 and 151.
AssertionsHold == fault # "assert"
=============================================================================
