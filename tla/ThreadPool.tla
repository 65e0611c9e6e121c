----------------------------- MODULE ThreadPool -----------------------------
(***************************************************************************)
(* The thread pool of include/threadpool.h: one mutex, one condition       *)
(* variable, a list of tasks and at most THREADPOOL_MAX_NUM worker         *)
(* threads.  Three kinds of threads take steps:                            *)
(*   - workers, numbered 1 .. THREADPOOL_MAX_NUM in the order in which     *)
(*     InitThreadSize emplaces them;                                       *)
(*   - the callers of AddTask.  A task is submitted by exactly one call,   *)
(*     so a call is named by its task, and any number of calls overlap;    *)
(*   - the control thread, which calls InitThreadSize and Destory.         *)
(* A step is a maximal stretch of code that touches shared state once:     *)
(* run_ and idlThrNum_ are atomics that are read and written WITHOUT       *)
(* lock_, so every access to them is a step of its own; what happens to    *)
(* tasks_ while lock_ is held is one step.                                 *)
(***************************************************************************)
EXTENDS Integers, Sequences, FiniteSets, Functions

CONSTANTS Task,                 \* the tasks that are ever submitted
          THREADPOOL_MAX_NUM,   \* capacity of the pool
          Sizes,                \* arguments of InitThreadSize
          NoTask                \* an empty function<void()>

ASSUME ConstantsAssumption ==
    /\ THREADPOOL_MAX_NUM \in Nat \ {0}
    /\ Sizes \subseteq Nat
    /\ NoTask \notin Task

Worker == 1 .. THREADPOOL_MAX_NUM
NoOwner == 0                    \* lock_ is free

VARIABLES
    pool_,       \* pool_.size(): threads 1 .. pool_ exist
    tasks_,      \* the queue, oldest task first
    lock_,       \* the worker that owns the mutex, or NoOwner
    run_,        \* FALSE once Destory was called
    idlThrNum_,  \* the counter IdlCount() returns
    wpc,         \* where each worker is in its thread function
    wtask,       \* the local variable task of each worker
    apc,         \* where the AddTask call of each task is
    ready,       \* the tasks whose future is ready
    mpc,         \* where the control thread is
    msize,       \* its local variable size in InitThreadSize
    mjoin        \* the thread that Destory is joining

wvars == <<wpc, wtask>>
mvars == <<mpc, msize, mjoin>>
vars == <<pool_, tasks_, lock_, run_, idlThrNum_, wpc, wtask, apc, ready,
          mpc, msize, mjoin>>

Init ==
    /\ pool_ = 0
    /\ tasks_ = <<>>
    /\ lock_ = NoOwner
    /\ run_ = TRUE
    /\ idlThrNum_ = 0
    /\ wpc = [w \in Worker |-> "none"]
    /\ wtask = [w \in Worker |-> NoTask]
    /\ apc = [t \in Task |-> "idle"]
    /\ ready = {}
    /\ mpc = "idle"
    /\ msize = 0
    /\ mjoin = 0

-----------------------------------------------------------------------------
(* The condition variable task_cv_.  A thread blocked in wait is in state  *)
(* "waiting"; once woken it competes for lock_ again and re-evaluates the  *)
(* predicate, exactly as a thread that arrives at line 116 does.           *)

Waiting == {w \in Worker : wpc[w] = "waiting"}
Wake(W) == [w \in Worker |-> IF w \in W THEN "lock" ELSE wpc[w]]

\* Mutant: the notification of line 93 is dropped.
NotifyOneLost == UNCHANGED wpc

\* notify_one wakes one of the threads that wait now, and is lost otherwise.
NotifyOne ==
    \/ Waiting = {} /\ UNCHANGED wpc
    \/ \E w \in Waiting : wpc' = Wake({w})

NotifyAll == wpc' = Wake(Waiting)

-----------------------------------------------------------------------------
(* AddTask(f, args...), lines 72-96. *)

\* Line 74: run_ is tested before, and not under, the lock.
AddTask(t) ==
    /\ apc[t] = "idle"
    /\ apc' = [apc EXCEPT ![t] = IF run_ THEN "push" ELSE "thrown"]
    /\ UNCHANGED <<pool_, tasks_, lock_, run_, idlThrNum_, wvars, ready, mvars>>

\* Mutant: emplace_front in place of emplace_back.
AddTaskPushFront(t) ==
    /\ apc[t] = "push"
    /\ lock_ = NoOwner
    /\ tasks_' = <<t>> \o tasks_
    /\ apc' = [apc EXCEPT ![t] = "notify"]
    /\ UNCHANGED <<pool_, lock_, run_, idlThrNum_, wvars, ready, mvars>>

\* Lines 86-91, the critical section.
AddTaskPush(t) ==
    /\ apc[t] = "push"
    /\ lock_ = NoOwner
    /\ tasks_' = Append(tasks_, t)
    /\ apc' = [apc EXCEPT ![t] = "notify"]
    /\ UNCHANGED <<pool_, lock_, run_, idlThrNum_, wvars, ready, mvars>>

\* Lines 93-95, after the lock has been released.
AddTaskNotify(t) ==
    /\ apc[t] = "notify"
    /\ NotifyOne
    /\ apc' = [apc EXCEPT ![t] = "returned"]
    /\ UNCHANGED <<pool_, tasks_, lock_, run_, idlThrNum_, wtask, ready, mvars>>

-----------------------------------------------------------------------------
(* The thread function, lines 109-131. *)

GoTo(w, l) == wpc' = [wpc EXCEPT ![w] = l]

\* Mutant: while (true).
WorkerWhileTrue(w) ==
    /\ wpc[w] = "while"
    /\ GoTo(w, "lock")
    /\ UNCHANGED <<pool_, tasks_, lock_, run_, idlThrNum_, wtask, apc, ready, mvars>>

\* Line 110.
WorkerWhile(w) ==
    /\ wpc[w] = "while"
    /\ GoTo(w, IF run_ THEN "lock" ELSE "done")
    /\ UNCHANGED <<pool_, tasks_, lock_, run_, idlThrNum_, wtask, apc, ready, mvars>>

\* Line 116, and the re-acquisition of the lock inside wait.
WorkerLock(w) ==
    /\ wpc[w] = "lock"
    /\ lock_ = NoOwner
    /\ lock_' = w
    /\ GoTo(w, "pred")
    /\ UNCHANGED <<pool_, tasks_, run_, idlThrNum_, wtask, apc, ready, mvars>>

\* Mutants: wait without a predicate; a predicate that forgets run_.
WaitOverAlways == TRUE
WaitOverTasksOnly == tasks_ # <<>>

\* Line 118: the predicate of the wait.
WaitOver == ~run_ \/ tasks_ # <<>>

\* Line 117: evaluate the predicate.  The lock is held, but run_ may change
\* between this step and the next one.
WorkerPred(w) ==
    /\ wpc[w] = "pred"
    /\ GoTo(w, IF WaitOver THEN "take" ELSE "block")
    /\ UNCHANGED <<pool_, tasks_, lock_, run_, idlThrNum_, wtask, apc, ready, mvars>>

\* Line 117: release the lock and block, atomically.
WorkerBlock(w) ==
    /\ wpc[w] = "block"
    /\ lock_' = NoOwner
    /\ GoTo(w, "waiting")
    /\ UNCHANGED <<pool_, tasks_, run_, idlThrNum_, wtask, apc, ready, mvars>>

\* A wait may return without a notification; the predicate is then re-tested.
SpuriousWakeup(w) ==
    /\ wpc[w] = "waiting"
    /\ GoTo(w, "lock")
    /\ UNCHANGED <<pool_, tasks_, lock_, run_, idlThrNum_, wtask, apc, ready, mvars>>

\* Lines 119-120: the thread returns, and the lock is released.
WorkerReturn(w) ==
    /\ wpc[w] = "take"
    /\ ~run_ /\ tasks_ = <<>>
    /\ lock_' = NoOwner
    /\ GoTo(w, "done")
    /\ UNCHANGED <<pool_, tasks_, run_, idlThrNum_, wtask, apc, ready, mvars>>

\* Mutant: pop_front is missing.
WorkerTakeNoPop(w) ==
    /\ wpc[w] = "take"
    /\ run_ \/ tasks_ # <<>>
    /\ wtask' = [wtask EXCEPT ![w] = Head(tasks_)]
    /\ lock_' = NoOwner
    /\ GoTo(w, "dec")
    /\ UNCHANGED <<pool_, tasks_, run_, idlThrNum_, apc, ready, mvars>>

\* Lines 119-125: take the oldest task, and release the lock.
WorkerTake(w) ==
    /\ wpc[w] = "take"
    /\ run_ \/ tasks_ # <<>>
    /\ wtask' = [wtask EXCEPT ![w] = Head(tasks_)]
    /\ tasks_' = Tail(tasks_)
    /\ lock_' = NoOwner
    /\ GoTo(w, "dec")
    /\ UNCHANGED <<pool_, run_, idlThrNum_, apc, ready, mvars>>

\* Mutant: the counter is not decremented.
WorkerDecMissing(w) ==
    /\ wpc[w] = "dec"
    /\ GoTo(w, "exec")
    /\ UNCHANGED <<pool_, tasks_, lock_, run_, idlThrNum_, wtask, apc, ready, mvars>>

\* Line 127.
WorkerDec(w) ==
    /\ wpc[w] = "dec"
    /\ idlThrNum_' = idlThrNum_ - 1
    /\ GoTo(w, "exec")
    /\ UNCHANGED <<pool_, tasks_, lock_, run_, wtask, apc, ready, mvars>>

\* Mutant: the task is dropped instead of executed.
WorkerExecSkips(w) ==
    /\ wpc[w] = "exec"
    /\ GoTo(w, "inc")
    /\ UNCHANGED <<pool_, tasks_, lock_, run_, idlThrNum_, wtask, apc, ready, mvars>>

\* Line 128: the task returns and its packaged_task makes the future ready.
WorkerExec(w) ==
    /\ wpc[w] = "exec"
    /\ ready' = ready \cup {wtask[w]}
    /\ GoTo(w, "inc")
    /\ UNCHANGED <<pool_, tasks_, lock_, run_, idlThrNum_, wtask, apc, mvars>>

\* Line 129, and the end of the scope of task.
WorkerInc(w) ==
    /\ wpc[w] = "inc"
    /\ idlThrNum_' = idlThrNum_ + 1
    /\ wtask' = [wtask EXCEPT ![w] = NoTask]
    /\ GoTo(w, "while")
    /\ UNCHANGED <<pool_, tasks_, lock_, run_, apc, ready, mvars>>

-----------------------------------------------------------------------------
(* The control thread. *)

\* Line 105.
InitThreadSize(n) ==
    /\ mpc = "idle"
    /\ mpc' = "spawn"
    /\ msize' = n
    /\ UNCHANGED <<pool_, tasks_, lock_, run_, idlThrNum_, wvars, apc, ready, mjoin>>

\* Lines 107-109: the loop condition, and a new thread.
SpawnThread ==
    /\ mpc = "spawn"
    /\ pool_ < THREADPOOL_MAX_NUM /\ msize > 0
    /\ pool_' = pool_ + 1
    /\ GoTo(pool_ + 1, "while")
    /\ mpc' = "count"
    /\ UNCHANGED <<tasks_, lock_, run_, idlThrNum_, wtask, apc, ready, msize, mjoin>>

\* Lines 132 and 107: the new thread is running already when it is counted.
CountThread ==
    /\ mpc = "count"
    /\ idlThrNum_' = idlThrNum_ + 1
    /\ msize' = msize - 1
    /\ mpc' = "spawn"
    /\ UNCHANGED <<pool_, tasks_, lock_, run_, wvars, apc, ready, mjoin>>

\* Line 107: the loop ends.
SpawnDone ==
    /\ mpc = "spawn"
    /\ ~(pool_ < THREADPOOL_MAX_NUM /\ msize > 0)
    /\ mpc' = "idle"
    /\ UNCHANGED <<pool_, tasks_, lock_, run_, idlThrNum_, wvars, apc, ready, msize, mjoin>>

\* Line 49: run_ is cleared without the lock.
Destory ==
    /\ mpc = "idle"
    /\ run_' = FALSE
    /\ mpc' = "notify"
    /\ UNCHANGED <<pool_, tasks_, lock_, idlThrNum_, wvars, apc, ready, msize, mjoin>>

\* Line 50.
DestoryNotify ==
    /\ mpc = "notify"
    /\ NotifyAll
    /\ mpc' = "join"
    /\ mjoin' = 1
    /\ UNCHANGED <<pool_, tasks_, lock_, run_, idlThrNum_, wtask, apc, ready, msize>>

\* Lines 51-56.  A thread that was joined by an earlier call is not joinable;
\* it has ended, so that skipping it and joining it are the same step.
DestoryJoin ==
    /\ mpc = "join"
    /\ mjoin <= pool_
    /\ wpc[mjoin] = "done"
    /\ mjoin' = mjoin + 1
    /\ UNCHANGED <<pool_, tasks_, lock_, run_, idlThrNum_, wvars, apc, ready, mpc, msize>>

\* Line 57.
DestoryReturn ==
    /\ mpc = "join"
    /\ mjoin > pool_
    /\ mpc' = "idle"
    /\ UNCHANGED <<pool_, tasks_, lock_, run_, idlThrNum_, wvars, apc, ready, msize, mjoin>>

-----------------------------------------------------------------------------
Caller(t) == AddTaskPush(t) \/ AddTaskNotify(t)

WorkerStep(w) ==
    \/ WorkerWhile(w) \/ WorkerLock(w) \/ WorkerPred(w) \/ WorkerBlock(w)
    \/ WorkerReturn(w) \/ WorkerTake(w)
    \/ WorkerDec(w) \/ WorkerExec(w) \/ WorkerInc(w)

Control ==
    \/ SpawnThread \/ CountThread \/ SpawnDone
    \/ DestoryNotify \/ DestoryJoin \/ DestoryReturn

Next ==
    \/ \E t \in Task : AddTask(t) \/ Caller(t)
    \/ \E w \in Worker : WorkerStep(w) \/ SpuriousWakeup(w)
    \/ \E n \in Sizes : InitThreadSize(n)
    \/ Destory
    \/ Control

Spec == Init /\ [][Next]_vars

(* Every thread that can take a step keeps being scheduled, and a task that
   is executed returns (line 55 names this as the premise of the join).
   Nobody is obliged to call AddTask, InitThreadSize or Destory, and no
   spurious wakeup is ever owed. *)
Fairness ==
    /\ \A t \in Task : WF_vars(Caller(t))
    /\ \A w \in Worker : WF_vars(WorkerStep(w))
    /\ WF_vars(Control)

FairSpec == Spec /\ Fairness

-----------------------------------------------------------------------------
(* Properties. *)

WorkerStates == {"none", "while", "lock", "pred", "block", "waiting", "take",
                 "dec", "exec", "inc", "done"}
Holding   == {w \in Worker : wpc[w] \in {"pred", "block", "take"}}
Hunting   == {w \in Worker : wpc[w] \in {"while", "lock", "pred", "take"}}
Executing == {w \in Worker : wpc[w] \in {"exec", "inc"}}
MayStillTake ==
    {w \in Worker : wpc[w] \in {"lock", "pred", "block", "waiting", "take"}}
Notifying == {t \in Task : apc[t] = "notify"}

Queued    == Range(tasks_)
Submitted == {t \in Task : apc[t] \in {"notify", "returned"}}
Started   == {w \in Worker : wpc[w] \in {"dec", "exec"}}

\* Every variable keeps its type; threads 1 .. pool_ are the ones that exist.
TypeOK ==
    /\ pool_ \in 0 .. THREADPOOL_MAX_NUM
    /\ tasks_ \in Seq(Task)
    /\ lock_ \in Worker \cup {NoOwner}
    /\ run_ \in BOOLEAN
    /\ idlThrNum_ \in Int
    /\ wpc \in [Worker -> WorkerStates]
    /\ wtask \in [Worker -> Task \cup {NoTask}]
    /\ apc \in [Task -> {"idle", "push", "notify", "returned", "thrown"}]
    /\ ready \subseteq Task
    /\ mpc \in {"idle", "spawn", "count", "notify", "join"}
    /\ msize \in Nat
    /\ mjoin \in Nat
    /\ \A w \in Worker : wpc[w] = "none" <=> w > pool_

\* At most one thread is inside a critical section of lock_, and it is the
\* owner (lines 115-125; wait gives the lock back before it blocks).
MutualExclusion ==
    /\ \A w \in Holding : lock_ = w
    /\ lock_ # NoOwner => lock_ \in Holding

\* front() and pop_front() (lines 121-124) are never reached with an empty
\* list, although run_ is read three times outside the lock's protection.
NeverPopsEmpty ==
    \A w \in Worker : wpc[w] = "take" => (tasks_ # <<>> \/ ~run_)

\* A task is in at most one place, and there once: in the list, in the hands of
\* one worker, or finished; and only submitted tasks are anywhere.
EachTaskOnce ==
    /\ \A i, j \in DOMAIN tasks_ : tasks_[i] = tasks_[j] => i = j
    /\ \A v, w \in Started : wtask[v] = wtask[w] => v = w
    /\ \A t \in Queued : t \notin ready /\ \A w \in Started : wtask[w] # t
    /\ \A w \in Started : wtask[w] \in Submitted \ ready
    /\ Queued \cup ready \subseteq Submitted

\* Every task that AddTask accepted is still somewhere: the list, a worker or the
\* finished ones (no step between lines 87 and 128 lets go of one).
NoTaskLost ==
    Submitted \subseteq Queued \cup {wtask[w] : w \in Started} \cup ready

\* The pool keeps its types, lock_ excludes, and no worker pops an empty list.
PoolSafety == TypeOK /\ MutualExclusion /\ NeverPopsEmpty

\* Every task that AddTask accepted is in exactly one place until it is executed.
TaskInOnePlace == EachTaskOnce /\ NoTaskLost

\* The wakeups on their way cover the backlog: while the pool runs and a worker
\* sleeps, there are at least as many pending notify_one calls and awake
\* workers heading for the list as there are tasks in it.  A wakeup that got
\* lost between push and wait (lines 93 and 117) would break this.
WakeupsCoverBacklog ==
    run_ /\ Waiting # {}
        => Len(tasks_) <= Cardinality(Notifying) + Cardinality(Hunting)

\* IdlCount() is the number of threads created and counted minus the ones that
\* execute a task; the counter is maintained by unlocked increments (lines
\* 127, 129, 132), and a thread that has returned still counts as idle.
IdleCountExact ==
    idlThrNum_ = pool_ - Cardinality(Executing) - (IF mpc = "count" THEN 1 ELSE 0)

\* After Destory has cleared run_ (line 49) every worker takes at most one more
\* task: the workers that may still take one only become fewer, and taking one
\* removes the worker from them (lines 110, 117-125).
AtMostOneTaskAfterStop ==
    [][~run_ => /\ ~run_'
                /\ MayStillTake' \subseteq MayStillTake
                /\ \A w \in Worker :
                      (wtask[w] = NoTask /\ wtask'[w] # NoTask)
                          => w \in MayStillTake \ MayStillTake']_vars

\* The pool implements the abstract task service.
Service == INSTANCE TaskService
               WITH MaxRunning <- THREADPOOL_MAX_NUM,
                    queue <- tasks_,
                    running <- {wtask[w] : w \in Started},
                    finished <- ready,
                    withdrawn <- {}

\* FIFO order, at most one execution per task, at most THREADPOOL_MAX_NUM tasks
\* at a time (lines 85-91 and 121-128): the pool implements TaskService.
ImplementsTaskService == Service!SSpec

\* A task whose AddTask call returned is executed, once the pool has a thread,
\* unless the pool is stopped: no wakeup is lost and no worker starves it.
AcceptedTaskRuns ==
    \A t \in Task :
        (apc[t] = "returned" /\ pool_ > 0) ~> (t \in ready \/ ~run_)

\* Destory returns provided that no worker is caught between the evaluation of
\* the predicate and the sleep when notify_all is called (lines 48-57).
DestoryReturnsUnlessCaught ==
    (mpc = "join" /\ \A w \in Worker : wpc[w] \notin {"block", "waiting"})
        ~> mpc = "idle"

(* What comments of the source say of the program and the code does not do. *)

\* Lines 50 and 55: notify_all wakes all threads, and join waits for them; the
\* premise is that every task ends.  So Destory should return.
DestoryReturns == mpc = "join" ~> mpc = "idle"
=============================================================================
