-------------------------- MODULE ThreadPoolProofs --------------------------
(***************************************************************************)
(* Proofs about the two pools, for any set of tasks, any capacity and any  *)
(* arguments of InitThreadSize: first ThreadPool, then FdThreadPool, for   *)
(* any descriptors.                                                        *)
(***************************************************************************)
EXTENDS FdThreadPool, SequenceFacts, FiniteSetTheorems, TLAPS

(* The inductive invariant of the first part.  TypeOK alone is not inductive:
   the counter size stays a natural number only because a thread that was just
   spawned was still owed, and ready only receives tasks because a worker that
   goes on to execute one has one.  NeverPopsEmpty needs MutualExclusion, for the
   list can be emptied by another worker only under the lock. *)
WorkerHasTask ==
    \A w \in Worker : wpc[w] \in {"dec", "exec", "inc"} => wtask[w] \in Task

SpawnOwed == mpc = "count" => msize > 0

LockInv ==
    /\ TypeOK
    /\ MutualExclusion
    /\ NeverPopsEmpty
    /\ WorkerHasTask
    /\ SpawnOwed

\* Waking workers leaves the others alone, and moves none into a critical section.
LEMMA WakeLemma ==
    ASSUME TypeOK, wpc' = Wake(Waiting) \/ NotifyOne
    PROVE  /\ wpc' \in [Worker -> WorkerStates]
           /\ \A w \in Worker : wpc'[w] = wpc[w] \/ (wpc[w] = "waiting" /\ wpc'[w] = "lock")
  <1>1. CASE UNCHANGED wpc
    BY <1>1 DEF TypeOK
  <1>2. ASSUME NEW W \in SUBSET Waiting, wpc' = Wake(W)
        PROVE  /\ wpc' \in [Worker -> WorkerStates]
               /\ \A w \in Worker : wpc'[w] = wpc[w] \/ (wpc[w] = "waiting" /\ wpc'[w] = "lock")
    BY <1>2 DEF TypeOK, Wake, Waiting, WorkerStates
  <1>3. QED
    BY <1>1, <1>2 DEF NotifyOne

\* The initial state satisfies the invariant.
LEMMA LockInvInit == Init => LockInv
  BY ConstantsAssumption
     DEF Init, LockInv, TypeOK, MutualExclusion, NeverPopsEmpty, WorkerHasTask,
         SpawnOwed, Holding, Worker, NoOwner, WorkerStates

\* Every step preserves it.
LEMMA LockInvStep == LockInv /\ [Next]_vars => LockInv'
  <1> SUFFICES ASSUME LockInv, [Next]_vars PROVE LockInv'
    OBVIOUS
  <1> USE ConstantsAssumption
  <1> USE DEF LockInv, MutualExclusion, NeverPopsEmpty, WorkerHasTask, SpawnOwed,
              Holding, WorkerStates, NoOwner
  <1>1. ASSUME NEW t \in Task, AddTask(t) PROVE LockInv'
    BY <1>1 DEF AddTask, TypeOK, wvars, mvars
  <1>2. ASSUME NEW t \in Task, AddTaskPush(t) PROVE LockInv'
    BY <1>2 DEF AddTaskPush, TypeOK, wvars, mvars
  <1>3. ASSUME NEW t \in Task, AddTaskNotify(t) PROVE LockInv'
    BY <1>3, WakeLemma DEF AddTaskNotify, TypeOK, wvars, mvars
  <1>4. ASSUME NEW w \in Worker, WorkerWhile(w) PROVE LockInv'
    BY <1>4 DEF WorkerWhile, GoTo, TypeOK, mvars
  <1>5. ASSUME NEW w \in Worker, WorkerLock(w) PROVE LockInv'
    BY <1>5 DEF WorkerLock, GoTo, TypeOK, mvars, Worker
  <1>6. ASSUME NEW w \in Worker, WorkerPred(w) PROVE LockInv'
    BY <1>6 DEF WorkerPred, WaitOver, GoTo, TypeOK, mvars
  <1>7. ASSUME NEW w \in Worker, WorkerBlock(w) PROVE LockInv'
    BY <1>7 DEF WorkerBlock, GoTo, TypeOK, mvars
  <1>8. ASSUME NEW w \in Worker, SpuriousWakeup(w) PROVE LockInv'
    BY <1>8 DEF SpuriousWakeup, GoTo, TypeOK, mvars
  <1>9. ASSUME NEW w \in Worker, WorkerReturn(w) PROVE LockInv'
    BY <1>9 DEF WorkerReturn, GoTo, TypeOK, mvars
  <1>10. ASSUME NEW w \in Worker, WorkerTake(w) PROVE LockInv'
    <2>1. tasks_ # <<>> /\ Head(tasks_) \in Task /\ Tail(tasks_) \in Seq(Task)
      BY <1>10 DEF WorkerTake, TypeOK
    <2>2. QED
      BY <1>10, <2>1 DEF WorkerTake, GoTo, TypeOK, mvars
  <1>11. ASSUME NEW w \in Worker, WorkerDec(w) PROVE LockInv'
    BY <1>11 DEF WorkerDec, GoTo, TypeOK, mvars
  <1>12. ASSUME NEW w \in Worker, WorkerExec(w) PROVE LockInv'
    BY <1>12 DEF WorkerExec, GoTo, TypeOK, mvars
  <1>13. ASSUME NEW w \in Worker, WorkerInc(w) PROVE LockInv'
    BY <1>13 DEF WorkerInc, GoTo, TypeOK, mvars
  <1>14. ASSUME NEW n \in Sizes, InitThreadSize(n) PROVE LockInv'
    BY <1>14 DEF InitThreadSize, TypeOK, wvars, mvars
  <1>15. CASE SpawnThread
    BY <1>15 DEF SpawnThread, GoTo, TypeOK, mvars, Worker
  <1>16. CASE CountThread
    BY <1>16 DEF CountThread, TypeOK, wvars, mvars
  <1>17. CASE SpawnDone
    BY <1>17 DEF SpawnDone, TypeOK, wvars, mvars
  <1>18. CASE Destory
    BY <1>18 DEF Destory, TypeOK, wvars, mvars
  <1>19. CASE DestoryNotify
    BY <1>19, WakeLemma DEF DestoryNotify, NotifyAll, TypeOK, wvars, mvars
  <1>20. CASE DestoryJoin
    BY <1>20 DEF DestoryJoin, TypeOK, wvars, mvars
  <1>21. CASE DestoryReturn
    BY <1>21 DEF DestoryReturn, TypeOK, wvars, mvars
  <1>22. CASE UNCHANGED vars
    BY <1>22 DEF vars, TypeOK
  <1>23. QED
    BY <1>1, <1>2, <1>3, <1>4, <1>5, <1>6, <1>7, <1>8, <1>9, <1>10, <1>11, <1>12,
       <1>13, <1>14, <1>15, <1>16, <1>17, <1>18, <1>19, <1>20, <1>21, <1>22
       DEF Next, Caller, WorkerStep, Control

\* The pool keeps its types, its lock excludes, and no worker ever pops an empty
\* list, whatever AddTask, InitThreadSize and Destory do at the same time.
THEOREM PoolSafe == Spec => []PoolSafety
  <1>1. LockInv => PoolSafety
    BY DEF LockInv, PoolSafety
  <1>2. QED
    BY LockInvInit, LockInvStep, <1>1, PTL DEF Spec

-----------------------------------------------------------------------------
(* What a step may do to the tasks.  A step that is none of the first three leaves
   the list, the finished tasks and the hands of the workers alone. *)

Pushes(t) ==
    /\ t \in Task \ Submitted
    /\ Submitted' = Submitted \cup {t}
    /\ tasks_' = Append(tasks_, t)
    /\ Started' = Started
    /\ UNCHANGED <<wtask, ready>>

Takes(w) ==
    /\ tasks_ # <<>>
    /\ w \in Worker \ Started
    /\ Started' = Started \cup {w}
    /\ wtask'[w] = Head(tasks_)
    /\ \A v \in Started : wtask'[v] = wtask[v]
    /\ tasks_' = Tail(tasks_)
    /\ Submitted' = Submitted
    /\ UNCHANGED ready

Finishes(w) ==
    /\ w \in Started
    /\ wtask[w] \in Task
    /\ Started' = Started \ {w}
    /\ ready' = ready \cup {wtask[w]}
    /\ Submitted' = Submitted
    /\ UNCHANGED <<wtask, tasks_>>

MovesNothing ==
    /\ Submitted' = Submitted
    /\ Started' = Started
    /\ \A w \in Started : wtask'[w] = wtask[w]
    /\ UNCHANGED <<tasks_, ready>>

\* The critical section of AddTask adds its task at the end of the list.
LEMMA PushMoves ==
    ASSUME LockInv, NEW t \in Task, AddTaskPush(t)
    PROVE  Pushes(t)
  BY DEF LockInv, AddTaskPush, Pushes, Submitted, Started, TypeOK, wvars

\* A worker takes the oldest task; the list is not empty then.
LEMMA TakeMoves ==
    ASSUME LockInv, NEW w \in Worker, WorkerTake(w)
    PROVE  Takes(w)
  <1>0. TypeOK
    BY DEF LockInv
  <1>1. tasks_ # <<>> /\ wpc[w] = "take"
    BY DEF WorkerTake, LockInv, NeverPopsEmpty
  <1>2. Started' = Started \cup {w} /\ w \notin Started
    BY <1>0 DEF WorkerTake, GoTo, Started, TypeOK
  <1>3. QED
    BY <1>0, <1>1, <1>2 DEF WorkerTake, Takes, Submitted, Started, TypeOK

\* A worker that executes its task finishes it.
LEMMA ExecMoves ==
    ASSUME LockInv, NEW w \in Worker, WorkerExec(w)
    PROVE  Finishes(w)
  <1>1. Started' = Started \ {w} /\ w \in Started
    BY DEF LockInv, WorkerExec, GoTo, Started, TypeOK
  <1>2. QED
    BY <1>1 DEF LockInv, WorkerHasTask, WorkerExec, Finishes, Submitted

\* All the other steps.
Bookkeeping ==
    \/ \E t \in Task : AddTask(t) \/ AddTaskNotify(t)
    \/ \E w \in Worker :
          \/ WorkerWhile(w) \/ WorkerLock(w) \/ WorkerPred(w) \/ WorkerBlock(w)
          \/ SpuriousWakeup(w) \/ WorkerReturn(w) \/ WorkerDec(w) \/ WorkerInc(w)
    \/ \E n \in Sizes : InitThreadSize(n)
    \/ Destory \/ Control
    \/ UNCHANGED vars

\* They move no task.
LEMMA BookkeepingMoves ==
    ASSUME LockInv, Bookkeeping
    PROVE  MovesNothing
  <1>0. TypeOK
    BY DEF LockInv
  <1> USE <1>0 DEF MovesNothing
  <1>1. CASE \E t \in Task : AddTask(t)
    BY <1>1 DEF AddTask, Submitted, Started, TypeOK, wvars
  <1>2. ASSUME NEW t \in Task, AddTaskNotify(t) PROVE MovesNothing
    <2>1. Submitted' = Submitted
      BY <1>2 DEF AddTaskNotify, Submitted, TypeOK
    <2>2. Started' = Started
      BY <1>2, WakeLemma DEF AddTaskNotify, Started
    <2>3. QED
      BY <1>2, <2>1, <2>2 DEF AddTaskNotify
  <1>3. ASSUME NEW w \in Worker,
               \/ WorkerWhile(w) \/ WorkerLock(w) \/ WorkerPred(w) \/ WorkerBlock(w)
               \/ SpuriousWakeup(w) \/ WorkerReturn(w) \/ WorkerDec(w) \/ WorkerInc(w)
        PROVE  MovesNothing
    BY <1>3 DEF WorkerWhile, WorkerLock, WorkerPred, WorkerBlock, SpuriousWakeup,
                WorkerReturn, WorkerDec, WorkerInc, GoTo, Submitted, Started, TypeOK
  <1>4. CASE SpawnThread
    BY <1>4 DEF SpawnThread, GoTo, Submitted, Started, TypeOK, Worker
  <1>5. CASE DestoryNotify
    BY <1>5, WakeLemma DEF DestoryNotify, NotifyAll, Submitted, Started
  <1>6. CASE \/ \E n \in Sizes : InitThreadSize(n)
             \/ CountThread \/ SpawnDone \/ Destory \/ DestoryJoin \/ DestoryReturn
             \/ UNCHANGED vars
    BY <1>6 DEF InitThreadSize, CountThread, SpawnDone, Destory, DestoryJoin,
                DestoryReturn, Submitted, Started, wvars, vars
  <1>7. QED
    BY <1>1, <1>2, <1>3, <1>4, <1>5, <1>6 DEF Bookkeeping, Control

\* There are no other steps.
LEMMA NextMoves ==
    ASSUME LockInv, [Next]_vars
    PROVE  \/ \E t \in Task : Pushes(t)
           \/ \E w \in Worker : Takes(w) \/ Finishes(w)
           \/ MovesNothing
  <1>1. \/ \E t \in Task : AddTaskPush(t)
        \/ \E w \in Worker : WorkerTake(w) \/ WorkerExec(w)
        \/ Bookkeeping
    BY DEF Next, Caller, WorkerStep, Bookkeeping
  <1>2. QED
    BY <1>1, PushMoves, TakeMoves, ExecMoves, BookkeepingMoves

-----------------------------------------------------------------------------
(* No task is lost and none is run twice. *)

\* Moving a task keeps every task in at most one place: a task is pushed by a call
\* that had not submitted it yet, and leaves the list when it is taken.
LEMMA OnceStep ==
    ASSUME TypeOK, EachTaskOnce,
           \/ \E t \in Task : Pushes(t)
           \/ \E w \in Worker : Takes(w) \/ Finishes(w)
           \/ MovesNothing
    PROVE  EachTaskOnce'
  <1>1. ASSUME NEW t \in Task, Pushes(t) PROVE EachTaskOnce'
    <2>1. /\ Queued' = Queued \cup {t}
          /\ NoDuplicates(tasks_) /\ t \notin Queued => NoDuplicates(tasks_')
      BY <1>1, AppendLemma DEF Pushes, Queued, TypeOK
    <2>2. QED
      BY <1>1, <2>1 DEF Pushes, EachTaskOnce, NoDuplicates
  <1>2. ASSUME NEW w \in Worker, Takes(w) PROVE EachTaskOnce'
    <2>1. /\ Queued = Queued' \cup {Head(tasks_)}
          /\ NoDuplicates(tasks_')
          /\ Head(tasks_) \notin Queued'
      BY <1>2, TailLemma DEF Takes, Queued, TypeOK, EachTaskOnce, NoDuplicates
    <2>2. QED
      BY <1>2, <2>1 DEF Takes, EachTaskOnce, NoDuplicates
  <1>3. ASSUME NEW w \in Worker, Finishes(w) PROVE EachTaskOnce'
    <2>1. Queued' = Queued
      BY <1>3 DEF Finishes, Queued
    <2>2. QED
      BY <1>3, <2>1 DEF Finishes, EachTaskOnce
  <1>4. CASE MovesNothing
    BY <1>4 DEF MovesNothing, EachTaskOnce, Queued
  <1>5. QED
    BY <1>1, <1>2, <1>3, <1>4

(* EachTaskOnce and NoTaskLost are inductive together, above LockInv. *)
TaskInv == LockInv /\ EachTaskOnce /\ NoTaskLost

\* The initial state satisfies the invariant.
LEMMA TaskInvInit == Init => TaskInv
  <1> SUFFICES ASSUME Init PROVE TaskInv
    OBVIOUS
  <1>1. LockInv
    BY LockInvInit
  <1>2. Queued = {} /\ Submitted = {} /\ Started = {} /\ ready = {} /\ DOMAIN tasks_ = {}
    BY DEF Init, Queued, Submitted, Started, Range
  <1>3. QED
    BY <1>1, <1>2 DEF TaskInv, EachTaskOnce, NoTaskLost

\* Every step preserves the invariant.
LEMMA TaskInvStep == TaskInv /\ [Next]_vars => TaskInv'
  <1> SUFFICES ASSUME TaskInv, [Next]_vars PROVE TaskInv'
    OBVIOUS
  <1>0. LockInv /\ LockInv' /\ TypeOK /\ EachTaskOnce /\ EachTaskOnce'
    BY LockInvStep, NextMoves, OnceStep DEF TaskInv, LockInv
  <1> SUFFICES NoTaskLost'
    BY <1>0 DEF TaskInv
  <1>1. ASSUME NEW t \in Task, Pushes(t) PROVE NoTaskLost'
    <2>1. Queued' = Queued \cup {t}
      BY <1>0, <1>1, AppendLemma DEF Pushes, Queued, TypeOK
    <2>2. QED
      BY <1>1, <2>1 DEF Pushes, TaskInv, NoTaskLost
  <1>2. ASSUME NEW w \in Worker, Takes(w) PROVE NoTaskLost'
    <2>1. Queued = Queued' \cup {Head(tasks_)}
      BY <1>0, <1>2, TailLemma DEF Takes, Queued, TypeOK
    <2>2. QED
      BY <1>2, <2>1 DEF Takes, TaskInv, NoTaskLost
  <1>3. ASSUME NEW w \in Worker, Finishes(w) PROVE NoTaskLost'
    BY <1>3 DEF Finishes, TaskInv, NoTaskLost, Queued
  <1>4. CASE MovesNothing
    BY <1>4 DEF MovesNothing, TaskInv, NoTaskLost, Queued
  <1>5. QED
    BY <1>0, <1>1, <1>2, <1>3, <1>4, NextMoves

\* Every task that AddTask accepted is in exactly one place, the list, a worker's
\* hands or the finished ones, and stays accounted for until it is executed.
THEOREM TasksAccountedFor == Spec => []TaskInOnePlace
  <1>1. TaskInv => TaskInOnePlace
    BY DEF TaskInv, TaskInOnePlace
  <1>2. QED
    BY <1>1, TaskInvInit, TaskInvStep, PTL DEF Spec

-----------------------------------------------------------------------------
(* What is left after the pool was stopped. *)

\* Once Destory has cleared run_, the workers that may still take a task only
\* become fewer, and a worker that takes one leaves them.
THEOREM StopTakesOne == Spec => AtMostOneTaskAfterStop
  <1>1. LockInv /\ [Next]_vars
        => [~run_ => /\ ~run_'
                     /\ MayStillTake' \subseteq MayStillTake
                     /\ \A w \in Worker :
                           (wtask[w] = NoTask /\ wtask'[w] # NoTask)
                               => w \in MayStillTake \ MayStillTake']_vars
    <2> SUFFICES ASSUME LockInv, [Next]_vars, ~run_
                 PROVE  /\ ~run_'
                        /\ MayStillTake' \subseteq MayStillTake
                        /\ \A w \in Worker :
                              (wtask[w] = NoTask /\ wtask'[w] # NoTask)
                                  => w \in MayStillTake \ MayStillTake'
      OBVIOUS
    <2>0. TypeOK
      BY DEF LockInv
    <2> USE <2>0 DEF MayStillTake
    <2>1. CASE \E t \in Task : AddTask(t) \/ AddTaskPush(t)
      BY <2>1 DEF AddTask, AddTaskPush, wvars
    <2>2. CASE \E t \in Task : AddTaskNotify(t)
      BY <2>2, WakeLemma DEF AddTaskNotify
    <2>3. ASSUME NEW w \in Worker,
                 \/ WorkerWhile(w) \/ WorkerLock(w) \/ WorkerPred(w) \/ WorkerBlock(w)
                 \/ SpuriousWakeup(w) \/ WorkerReturn(w) \/ WorkerDec(w) \/ WorkerExec(w)
          PROVE  /\ ~run_' /\ MayStillTake' \subseteq MayStillTake /\ wtask' = wtask
      BY <2>3 DEF WorkerWhile, WorkerLock, WorkerPred, WorkerBlock, SpuriousWakeup,
                  WorkerReturn, WorkerDec, WorkerExec, GoTo, TypeOK
    <2>4. ASSUME NEW w \in Worker, WorkerTake(w) \/ WorkerInc(w)
          PROVE  /\ ~run_'
                 /\ MayStillTake' \subseteq MayStillTake
                 /\ \A v \in Worker :
                       (wtask[v] = NoTask /\ wtask'[v] # NoTask)
                           => v \in MayStillTake \ MayStillTake'
      BY <2>4 DEF WorkerTake, WorkerInc, GoTo, TypeOK
    <2>5. CASE SpawnThread
      BY <2>5 DEF SpawnThread, GoTo, TypeOK
    <2>6. CASE DestoryNotify
      BY <2>6, WakeLemma DEF DestoryNotify, NotifyAll
    <2>7. CASE \/ \E n \in Sizes : InitThreadSize(n)
               \/ CountThread \/ SpawnDone \/ Destory \/ DestoryJoin \/ DestoryReturn
               \/ UNCHANGED vars
      BY <2>7 DEF InitThreadSize, CountThread, SpawnDone, Destory, DestoryJoin,
                  DestoryReturn, wvars, vars
    <2>8. QED
      BY <2>1, <2>2, <2>3, <2>4, <2>5, <2>6, <2>7 DEF Next, Caller, WorkerStep, Control
  <1>2. QED
    BY <1>1, LockInvInit, LockInvStep, PTL DEF Spec, AtMostOneTaskAfterStop

-----------------------------------------------------------------------------
(* The counter of idle threads. *)

\* Worker is finite, and so is every set of workers.
LEMMA WorkersFinite ==
    /\ IsFiniteSet(Worker) /\ Cardinality(Worker) = THREADPOOL_MAX_NUM
    /\ \A S \in SUBSET Worker : IsFiniteSet(S) /\ Cardinality(S) \in Nat
  <1>1. IsFiniteSet(Worker) /\ Cardinality(Worker) = THREADPOOL_MAX_NUM
    BY ConstantsAssumption, FS_Interval DEF Worker
  <1>2. QED
    BY <1>1, FS_Subset, FS_CardinalityType

\* The unlocked increments and decrements of idlThrNum_ never drift apart from
\* the state of the threads.
THEOREM IdleCounted == Spec => []IdleCountExact
  <1> DEFINE IInv == LockInv /\ IdleCountExact
  <1>1. Init => IInv
    <2> SUFFICES ASSUME Init PROVE IInv
      OBVIOUS
    <2>1. Executing = {}
      BY DEF Init, Executing
    <2>2. QED
      BY <2>1, LockInvInit, FS_EmptySet DEF Init, IdleCountExact
  <1>2. IInv /\ [Next]_vars => IInv'
    <2> SUFFICES ASSUME LockInv, IdleCountExact, [Next]_vars PROVE IdleCountExact'
      BY LockInvStep
    <2>0. TypeOK /\ Executing \in SUBSET Worker /\ IsFiniteSet(Executing)
          /\ Cardinality(Executing) \in Nat
      BY WorkersFinite DEF LockInv, Executing
    <2> USE <2>0
    <2>1. ASSUME Executing' = Executing, UNCHANGED <<pool_, idlThrNum_>>,
                 mpc' = "count" <=> mpc = "count"
          PROVE  IdleCountExact'
      BY <2>1 DEF IdleCountExact
    <2>2. CASE \E t \in Task : AddTask(t) \/ AddTaskPush(t)
      BY <2>1, <2>2 DEF AddTask, AddTaskPush, Executing, wvars, mvars
    <2>3. CASE \E t \in Task : AddTaskNotify(t)
      BY <2>1, <2>3, WakeLemma DEF AddTaskNotify, Executing, mvars
    <2>4. ASSUME NEW w \in Worker,
                 \/ WorkerWhile(w) \/ WorkerLock(w) \/ WorkerPred(w) \/ WorkerBlock(w)
                 \/ SpuriousWakeup(w) \/ WorkerReturn(w) \/ WorkerTake(w) \/ WorkerExec(w)
          PROVE  IdleCountExact'
      <3>1. /\ Executing' = Executing /\ UNCHANGED <<pool_, idlThrNum_>>
            /\ mpc' = "count" <=> mpc = "count"
        BY <2>4 DEF WorkerWhile, WorkerLock, WorkerPred, WorkerBlock, SpuriousWakeup,
                    WorkerReturn, WorkerTake, WorkerExec, GoTo, Executing, TypeOK, mvars
      <3>2. QED
        BY <2>1, <3>1
    <2>5. ASSUME NEW w \in Worker, WorkerDec(w) PROVE IdleCountExact'
      <3>1. Executing' = Executing \cup {w} /\ w \notin Executing
        BY <2>5 DEF WorkerDec, GoTo, Executing, TypeOK
      <3>2. Cardinality(Executing') = Cardinality(Executing) + 1
        BY <3>1, FS_AddElement
      <3>3. QED
        BY <2>5, <3>2 DEF WorkerDec, IdleCountExact, TypeOK, mvars
    <2>6. ASSUME NEW w \in Worker, WorkerInc(w) PROVE IdleCountExact'
      <3>1. Executing' = Executing \ {w} /\ w \in Executing
        BY <2>6 DEF WorkerInc, GoTo, Executing, TypeOK
      <3>2. Cardinality(Executing') = Cardinality(Executing) - 1
        BY <3>1, FS_RemoveElement
      <3>3. QED
        BY <2>6, <3>2 DEF WorkerInc, IdleCountExact, TypeOK, mvars
    <2>7. CASE SpawnThread
      <3>1. Executing' = Executing
        BY <2>7 DEF SpawnThread, GoTo, Executing, TypeOK, Worker
      <3>2. QED
        BY <2>7, <3>1 DEF SpawnThread, IdleCountExact, TypeOK
    <2>8. CASE CountThread
      <3>1. Executing' = Executing
        BY <2>8 DEF CountThread, Executing, wvars
      <3>2. QED
        BY <2>8, <3>1 DEF CountThread, IdleCountExact, TypeOK
    <2>9. CASE DestoryNotify
      BY <2>1, <2>9, WakeLemma DEF DestoryNotify, NotifyAll, Executing
    <2>10. CASE \/ \E n \in Sizes : InitThreadSize(n)
                \/ SpawnDone \/ Destory \/ DestoryJoin \/ DestoryReturn \/ UNCHANGED vars
      BY <2>1, <2>10 DEF InitThreadSize, SpawnDone, Destory, DestoryJoin,
                         DestoryReturn, Executing, wvars, vars
    <2>11. QED
      BY <2>2, <2>3, <2>4, <2>5, <2>6, <2>7, <2>8, <2>9, <2>10
         DEF Next, Caller, WorkerStep, Control
  <1>3. IInv => IdleCountExact
    OBVIOUS
  <1>4. QED
    BY <1>1, <1>2, <1>3, PTL DEF Spec

-----------------------------------------------------------------------------
(* No wakeup is lost. *)

(* WakeupsCoverBacklog is inductive once it is known that a worker only goes to
   sleep on an empty list: between the predicate and the sleep it holds lock_, so
   that no task is pushed meanwhile.  Cardinalities need finite sets: only finitely
   many calls of AddTask are ever in progress. *)
SleepsOnEmpty == \A w \in Worker : wpc[w] = "block" => tasks_ = <<>>

WakeInv == LockInv /\ SleepsOnEmpty /\ IsFiniteSet(Notifying) /\ WakeupsCoverBacklog

\* The initial state satisfies the invariant.
LEMMA WakeInvInit == Init => WakeInv
  <1> SUFFICES ASSUME Init PROVE WakeInv
    OBVIOUS
  <1>1. Notifying = {} /\ Waiting = {}
    BY DEF Init, Notifying, Waiting
  <1>2. QED
    BY <1>1, LockInvInit, FS_EmptySet DEF WakeInv, SleepsOnEmpty, WakeupsCoverBacklog, Init

\* Every step preserves it.
LEMMA WakeInvStep == WakeInv /\ [Next]_vars => WakeInv'
  <1> SUFFICES ASSUME WakeInv, [Next]_vars PROVE WakeInv'
    OBVIOUS
  <1> DEFINE N == Cardinality(Notifying)
             H == Cardinality(Hunting)
             Goal == SleepsOnEmpty' /\ IsFiniteSet(Notifying') /\ WakeupsCoverBacklog'
  <1>0. /\ LockInv /\ LockInv' /\ TypeOK /\ TypeOK'
        /\ IsFiniteSet(Notifying) /\ N \in Nat
        /\ Hunting \subseteq Worker /\ IsFiniteSet(Hunting) /\ H \in Nat
        /\ IsFiniteSet(Hunting') /\ H' \in Nat
        /\ SleepsOnEmpty
    <2>1. LockInv /\ LockInv'
      BY LockInvStep DEF WakeInv
    <2>2. Hunting \subseteq Worker /\ Hunting' \subseteq Worker
      BY DEF Hunting
    <2>3. QED
      BY <2>1, <2>2, WorkersFinite, FS_CardinalityType DEF WakeInv, LockInv
  <1> SUFFICES Goal
    BY <1>0 DEF WakeInv
  <1>1. ASSUME Notifying' = Notifying, Hunting \subseteq Hunting', SleepsOnEmpty',
               UNCHANGED tasks_, run_' => run_, run_' => Waiting' \subseteq Waiting
        PROVE  Goal
    <2>1. H <= H'
      BY <1>0, <1>1, FS_Subset
    <2>2. N' = N /\ IsFiniteSet(Notifying') /\ Len(tasks_) \in Nat
      BY <1>0, <1>1 DEF TypeOK
    <2>3. run_' /\ Waiting' # {} => Len(tasks_) <= N + H
      BY <1>1 DEF WakeInv, WakeupsCoverBacklog
    <2> HIDE DEF N, H
    <2>4. WakeupsCoverBacklog'
      BY <1>0, <1>1, <2>1, <2>2, <2>3 DEF WakeupsCoverBacklog, N, H
    <2>5. QED
      BY <1>1, <2>2, <2>4
  <1>2. ASSUME NEW t \in Task, AddTask(t) PROVE Goal
    <2>1. Notifying' = Notifying /\ UNCHANGED <<wpc, tasks_, run_>>
      BY <1>0, <1>2 DEF AddTask, Notifying, TypeOK, wvars
    <2>2. QED
      BY <1>0, <1>1, <2>1 DEF Hunting, Waiting, SleepsOnEmpty
  <1>3. ASSUME NEW t \in Task, AddTaskPush(t) PROVE Goal
    <2>1. Notifying' = Notifying \cup {t} /\ t \notin Notifying
      BY <1>0, <1>3 DEF AddTaskPush, Notifying, TypeOK
    <2>2. N' = N + 1 /\ IsFiniteSet(Notifying')
      BY <1>0, <2>1, FS_AddElement
    <2>3. Hunting' = Hunting /\ Waiting' = Waiting /\ run_' = run_
      BY <1>3 DEF AddTaskPush, Hunting, Waiting, wvars
    <2>4. Len(tasks_') = Len(tasks_) + 1 /\ Len(tasks_) \in Nat
      BY <1>0, <1>3 DEF AddTaskPush, TypeOK
    <2>5. SleepsOnEmpty'
      BY <1>0, <1>3 DEF AddTaskPush, SleepsOnEmpty, LockInv, MutualExclusion, Holding,
                        Worker, NoOwner, wvars
    <2> HIDE DEF N
    <2>6. WakeupsCoverBacklog'
      BY <1>0, <2>2, <2>3, <2>4 DEF WakeInv, WakeupsCoverBacklog, N
    <2>7. QED
      BY <2>2, <2>5, <2>6
  <1>4. ASSUME NEW t \in Task, AddTaskNotify(t) PROVE Goal
    <2>1. Notifying' = Notifying \ {t} /\ t \in Notifying
      BY <1>0, <1>4 DEF AddTaskNotify, Notifying, TypeOK
    <2>2. N' = N - 1 /\ IsFiniteSet(Notifying')
      BY <1>0, <2>1, FS_RemoveElement
    <2>3. SleepsOnEmpty'
      BY <1>0, <1>4, WakeLemma DEF AddTaskNotify, SleepsOnEmpty
    <2>4. CASE Waiting = {} /\ UNCHANGED wpc
      BY <1>4, <2>2, <2>3, <2>4 DEF AddTaskNotify, Waiting, WakeupsCoverBacklog
    <2>5. ASSUME NEW w \in Waiting, wpc' = Wake({w}) PROVE Goal
      <3>1. w \in Worker /\ w \notin Hunting /\ Hunting' = Hunting \cup {w}
        BY <1>0, <2>5 DEF Wake, Waiting, Hunting, TypeOK
      <3>2. H' = H + 1
        BY <1>0, <3>1, FS_AddElement
      <3>3. run_' = run_ /\ tasks_' = tasks_ /\ Waiting # {}
        BY <1>4, <2>5 DEF AddTaskNotify
      <3> HIDE DEF N, H
      <3>4. WakeupsCoverBacklog'
        BY <1>0, <2>2, <3>2, <3>3 DEF WakeInv, WakeupsCoverBacklog, N, H
      <3>5. QED
        BY <2>2, <2>3, <3>4
    <2>6. QED
      BY <1>4, <2>4, <2>5 DEF AddTaskNotify, NotifyOne
  <1>5. ASSUME NEW w \in Worker,
               \/ WorkerWhile(w) \/ WorkerLock(w) \/ SpuriousWakeup(w)
               \/ WorkerDec(w) \/ WorkerExec(w) \/ WorkerInc(w)
        PROVE  Goal
    <2>1. Notifying' = Notifying /\ UNCHANGED <<tasks_, run_>>
      BY <1>5 DEF WorkerWhile, WorkerLock, SpuriousWakeup, WorkerDec, WorkerExec,
                  WorkerInc, Notifying
    <2>2. SleepsOnEmpty'
      BY <1>0, <1>5 DEF WorkerWhile, WorkerLock, SpuriousWakeup, WorkerDec, WorkerExec,
                  WorkerInc, GoTo, SleepsOnEmpty, TypeOK
    <2>3. Waiting' \subseteq Waiting /\ (run_ => Hunting \subseteq Hunting')
      BY <1>0, <1>5 DEF WorkerWhile, WorkerLock, SpuriousWakeup, WorkerDec, WorkerExec,
                  WorkerInc, GoTo, Waiting, Hunting, TypeOK
    <2>4. CASE run_
      BY <1>1, <2>1, <2>2, <2>3, <2>4
    <2>5. CASE ~run_
      BY <1>0, <2>1, <2>2, <2>5 DEF WakeupsCoverBacklog
    <2>6. QED
      BY <2>4, <2>5
  <1>6. ASSUME NEW w \in Worker, WorkerPred(w) \/ WorkerBlock(w), tasks_ = <<>> PROVE Goal
    <2>1. Notifying' = Notifying /\ tasks_' = <<>> /\ Len(tasks_') = 0
      BY <1>6 DEF WorkerPred, WorkerBlock, Notifying
    <2>2. N' = N /\ IsFiniteSet(Notifying')
      BY <1>0, <2>1
    <2> HIDE DEF N, H
    <2>3. WakeupsCoverBacklog'
      BY <1>0, <2>1, <2>2 DEF WakeupsCoverBacklog, N, H
    <2>4. QED
      BY <2>1, <2>2, <2>3 DEF SleepsOnEmpty
  <1>7. ASSUME NEW w \in Worker, WorkerPred(w), tasks_ # <<>> PROVE Goal
    <2>1. wpc[w] = "pred" /\ wpc' = [wpc EXCEPT ![w] = "take"]
      BY <1>7 DEF WorkerPred, WaitOver, GoTo
    <2>2. /\ Notifying' = Notifying /\ UNCHANGED <<tasks_, run_>>
          /\ Hunting' = Hunting /\ Waiting' = Waiting /\ SleepsOnEmpty'
      BY <1>0, <1>7, <2>1 DEF WorkerPred, Notifying, Hunting, Waiting, SleepsOnEmpty, TypeOK
    <2>3. QED
      BY <1>1, <2>2
  <1>8. ASSUME NEW w \in Worker, WorkerReturn(w) PROVE Goal
    <2>1. /\ Notifying' = Notifying /\ ~run_'
          /\ SleepsOnEmpty'
      BY <1>0, <1>8 DEF WorkerReturn, GoTo, Notifying, SleepsOnEmpty, TypeOK
    <2>2. QED
      BY <1>0, <2>1 DEF WakeupsCoverBacklog
  <1>9. ASSUME NEW w \in Worker, WorkerTake(w) PROVE Goal
    <2>1. /\ Notifying' = Notifying /\ run_' = run_ /\ tasks_' = Tail(tasks_)
          /\ wpc[w] = "take" /\ wpc' = [wpc EXCEPT ![w] = "dec"]
      BY <1>9 DEF WorkerTake, Notifying, GoTo
    <2>2. Hunting' = Hunting \ {w} /\ w \in Hunting /\ Waiting' = Waiting
      BY <1>0, <2>1 DEF Hunting, Waiting, TypeOK
    <2>3. H' = H - 1
      BY <1>0, <2>2, FS_RemoveElement
    <2>4. Len(tasks_') = Len(tasks_) - 1 /\ Len(tasks_) \in Nat
      BY <1>0, <1>9, <2>1, TakeMoves DEF Takes, TypeOK
    <2>5. SleepsOnEmpty'
      BY <1>0, <2>1 DEF SleepsOnEmpty, LockInv, MutualExclusion, Holding, TypeOK
    <2>6. N' = N /\ IsFiniteSet(Notifying')
      BY <1>0, <2>1
    <2> HIDE DEF N, H
    <2>7. WakeupsCoverBacklog'
      BY <1>0, <2>1, <2>2, <2>3, <2>4, <2>6 DEF WakeInv, WakeupsCoverBacklog, N, H
    <2>8. QED
      BY <2>5, <2>6, <2>7
  <1>10. CASE SpawnThread
    <2>1. /\ Notifying' = Notifying /\ UNCHANGED <<tasks_, run_>>
      BY <1>10 DEF SpawnThread, Notifying
    <2>2. /\ pool_ + 1 \in Worker /\ wpc[pool_ + 1] = "none"
          /\ wpc' = [wpc EXCEPT ![pool_ + 1] = "while"]
      BY <1>0, <1>10 DEF SpawnThread, GoTo, TypeOK, Worker
    <2>3. Hunting \subseteq Hunting' /\ Waiting' = Waiting /\ SleepsOnEmpty'
      BY <1>0, <2>1, <2>2 DEF Hunting, Waiting, SleepsOnEmpty, TypeOK
    <2>4. QED
      BY <1>1, <2>1, <2>3
  <1>11. CASE DestoryNotify
    <2>1. Notifying' = Notifying /\ Waiting' = {} /\ SleepsOnEmpty'
      BY <1>0, <1>11 DEF DestoryNotify, NotifyAll, Wake, Waiting, Notifying, SleepsOnEmpty,
                         TypeOK
    <2>2. QED
      BY <1>0, <2>1 DEF WakeupsCoverBacklog
  <1>12. CASE \/ \E n \in Sizes : InitThreadSize(n)
              \/ CountThread \/ SpawnDone \/ Destory \/ DestoryJoin \/ DestoryReturn
              \/ UNCHANGED vars
    <2>1. UNCHANGED <<wpc, tasks_, apc>> /\ (run_' => run_)
      BY <1>12 DEF InitThreadSize, CountThread, SpawnDone, Destory, DestoryJoin,
                   DestoryReturn, wvars, vars
    <2>2. Notifying' = Notifying /\ Hunting' = Hunting /\ Waiting' = Waiting /\ SleepsOnEmpty'
      BY <1>0, <2>1 DEF Notifying, Hunting, Waiting, SleepsOnEmpty
    <2>3. QED
      BY <1>1, <2>1, <2>2
  <1>13. ASSUME NEW w \in Worker, WorkerBlock(w) PROVE Goal
    <2>1. tasks_ = <<>>
      BY <1>0, <1>13 DEF WorkerBlock, SleepsOnEmpty
    <2>2. QED
      BY <1>6, <1>13, <2>1
  <1> HIDE DEF Goal
  <1>14. QED
    BY <1>2, <1>3, <1>4, <1>5, <1>6, <1>7, <1>8, <1>9, <1>10, <1>11, <1>12, <1>13
       DEF Next, Caller, WorkerStep, Control

\* While the pool runs and a worker sleeps, the pending notify_one calls and the awake
\* workers are at least as many as the queued tasks: no wakeup gets lost.
THEOREM NoWakeupLost == Spec => []WakeupsCoverBacklog
  <1>1. WakeInv => WakeupsCoverBacklog
    BY DEF WakeInv
  <1>2. QED
    BY <1>1, WakeInvInit, WakeInvStep, PTL DEF Spec

-----------------------------------------------------------------------------
(* The pool implements the task service. *)

\* The tasks that are running according to the refinement mapping.
Running == {wtask[w] : w \in Started}

\* A worker about to start a task leaves room for it: the others are fewer than
\* THREADPOOL_MAX_NUM, and each runs one task.
LEMMA RoomForOneMore ==
    ASSUME NEW w \in Worker, w \notin Started
    PROVE  Cardinality(Running) < THREADPOOL_MAX_NUM
  <1>1. /\ IsFiniteSet(Worker \ {w})
        /\ Cardinality(Worker \ {w}) = THREADPOOL_MAX_NUM - 1
    BY WorkersFinite, FS_RemoveElement
  <1>2. Started \in SUBSET (Worker \ {w})
    BY DEF Started
  <1>3. /\ IsFiniteSet(Started)
        /\ Cardinality(Started) <= THREADPOOL_MAX_NUM - 1
    BY <1>1, <1>2, FS_Subset
  <1> DEFINE f == [v \in Started |-> wtask[v]]
  <1>4. f \in Surjection(Started, Running)
    BY DEF Surjection, Running
  <1>5. Cardinality(Running) <= Cardinality(Started) /\ IsFiniteSet(Running)
    <2> HIDE DEF f
    <2> QED BY <1>3, <1>4, FS_Surjection
  <1>6. QED
    BY <1>3, <1>5, FS_CardinalityType, ConstantsAssumption

\* Every step of the pool is a step of the task service or leaves it unchanged.
LEMMA ServiceStep ==
    ASSUME TaskInv, [Next]_vars
    PROVE  [Service!SNext]_<<tasks_, Running, ready, {}>>
  <1>0. TypeOK /\ LockInv
    BY DEF TaskInv, LockInv
  <1>1. ASSUME NEW t \in Task, Pushes(t) PROVE Service!Accept(t)
    <2>1. t \notin Queued \cup Running \cup ready
      BY <1>1 DEF Pushes, TaskInv, EachTaskOnce, Running
    <2>2. Running' = Running
      BY <1>1 DEF Pushes, Running
    <2>3. QED
      BY <1>1, <2>1, <2>2 DEF Pushes, Service!Accept, Service!Queued, Queued, Running,
                              Range, Service!Range
  <1>2. ASSUME NEW w \in Worker, Takes(w) PROVE Service!Start
    <2>1. Running' = Running \cup {Head(tasks_)}
      BY <1>2 DEF Takes, Running
    <2>2. Cardinality(Running) < THREADPOOL_MAX_NUM
      BY <1>2, RoomForOneMore DEF Takes
    <2>3. Service!Cardinality(Running) = Cardinality(Running)
      BY DEF Cardinality, Service!Cardinality
    <2>4. QED
      BY <1>2, <2>1, <2>2, <2>3 DEF Takes, Service!Start, Running
  <1>3. ASSUME NEW w \in Worker, Finishes(w)
        PROVE  \E t \in Task : Service!Finish(t)
    <2>1. PICK t \in Task : t = wtask[w]
      BY <1>3 DEF Finishes
    <2>2. Running' = Running \ {t} /\ t \in Running
      BY <1>3, <2>1 DEF Finishes, Running, TaskInv, EachTaskOnce
    <2>3. Service!Finish(t)
      BY <1>3, <2>1, <2>2 DEF Finishes, Service!Finish, Running
    <2>4. QED
      BY <2>3
  <1>4. CASE MovesNothing
    BY <1>4 DEF MovesNothing, Running
  <1>5. CASE \/ \E t \in Task : Pushes(t)
             \/ \E w \in Worker : Takes(w) \/ Finishes(w)
    <2>1. CASE \E t \in Task : Pushes(t)
      <3>1. \E t \in Task : Service!Accept(t)
        BY <1>1, <2>1
      <3>2. QED
        BY <3>1 DEF Service!SNext
    <2>2. CASE \E w \in Worker : Takes(w)
      BY <1>2, <2>2 DEF Service!SNext
    <2>3. CASE \E w \in Worker : Finishes(w)
      <3>1. \E t \in Task : Service!Finish(t)
        BY <1>3, <2>3
      <3>2. QED
        BY <3>1 DEF Service!SNext
    <2>4. QED
      BY <1>5, <2>1, <2>2, <2>3
  <1>6. QED
    BY <1>0, <1>4, <1>5, NextMoves

\* Tasks start in the order of their submission, each at most once, at most
\* THREADPOOL_MAX_NUM at a time: the pool implements TaskService.
THEOREM PoolImplementsService == Spec => ImplementsTaskService
  <1>1. Init => TaskInv /\ Service!SInit
    <2> SUFFICES ASSUME Init PROVE TaskInv /\ Service!SInit
      OBVIOUS
    <2>1. Started = {}
      BY DEF Init, Started
    <2>2. Service!SInit
      BY <2>1 DEF Init, Service!SInit
    <2>3. QED
      BY <2>2, TaskInvInit
  <1>2. TaskInv /\ [Next]_vars => [Service!SNext]_(Service!svars)
    BY ServiceStep DEF Service!svars, Running
  <1>3. QED
    BY <1>1, <1>2, TaskInvStep, PTL DEF Spec, ImplementsTaskService, Service!SSpec

-----------------------------------------------------------------------------
(* FdThreadPool.  Every step but delCloseFD is a step of ThreadPool, so what is
   proved of single steps above is used here; only NoTaskLost no longer holds, for
   delCloseFD takes tasks away. *)


\* The tasks of a descriptor.
TasksOf(fd) == {t \in Task : FdOf[t] = fd}

(* The inductive invariant.  FdIndexExact alone is not inductive: that the head of
   the list is there to be taken is NeverPopsEmpty, and that a withdrawn task was
   neither started nor finished needs EachTaskOnce. *)
FdInv == LockInv /\ EachTaskOnce /\ FdIndexExact

\* What a step does to the tasks and to the map: the four moves of ThreadPool, or the
\* withdrawal of all queued tasks of one descriptor.
FdMove ==
    \/ \E t \in Task :
          Pushes(t) /\ fd_task_map' = [fd_task_map EXCEPT ![FdOf[t]] = Append(@, t)]
    \/ \E w \in Worker :
          Takes(w) /\ fd_task_map' = [fd_task_map EXCEPT ![FdOf[Head(tasks_)]] = Tail(@)]
    \/ \E w \in Worker : Finishes(w) /\ UNCHANGED fd_task_map
    \/ MovesNothing /\ UNCHANGED fd_task_map
    \/ \E fd \in Fd : delCloseFD(fd)

\* There are no other steps, and all but delCloseFD are steps of ThreadPool.
LEMMA FdNextMoves ==
    ASSUME LockInv, [FdNext]_fvars
    PROVE  FdMove /\ ([Next]_vars \/ \E fd \in Fd : delCloseFD(fd))
  <1>1. ASSUME NEW t \in Task, FdAddTaskPush(t) PROVE FdMove /\ Next
    BY <1>1, PushMoves DEF FdAddTaskPush, FdMove, Next, Caller
  <1>2. ASSUME NEW t \in Task, FdAddTask(t)
        PROVE  Bookkeeping /\ UNCHANGED fd_task_map /\ Next
    BY <1>2 DEF FdAddTask, Bookkeeping, Next, Caller
  <1>3. ASSUME NEW w \in Worker, FdWorkerTake(w) PROVE FdMove /\ Next
    BY <1>3, TakeMoves DEF FdWorkerTake, FdMove, Next, WorkerStep
  <1>4. ASSUME NEW w \in Worker, FdWorker(w), ~WorkerExec(w)
        PROVE  Bookkeeping /\ UNCHANGED fd_task_map /\ Next
    BY <1>4 DEF FdWorker, Bookkeeping, Next, WorkerStep
  <1>5. ASSUME NEW w \in Worker, FdWorker(w), WorkerExec(w) PROVE FdMove /\ Next
    BY <1>5, ExecMoves DEF FdWorker, FdMove, Next, WorkerStep
  <1>6. ASSUME NEW w \in Worker, SpuriousWakeup(w), UNCHANGED fd_task_map
        PROVE  Bookkeeping /\ UNCHANGED fd_task_map /\ Next
    BY <1>6 DEF Bookkeeping, Next
  <1>7. CASE addThread \/ Destructor
    <2>1. Bookkeeping /\ UNCHANGED fd_task_map /\ Next
      BY <1>7 DEF addThread, Destructor, Bookkeeping, Control, Next
    <2>2. QED
      BY <2>1, BookkeepingMoves DEF FdMove
  <1>8. CASE UNCHANGED fvars
    <2>1. UNCHANGED vars /\ UNCHANGED fd_task_map
      BY <1>8 DEF fvars
    <2>2. QED
      BY <2>1, BookkeepingMoves DEF FdMove, Bookkeeping
  <1>9. CASE \E fd \in Fd : delCloseFD(fd)
    BY <1>9 DEF FdMove
  <1>10. ASSUME Bookkeeping, UNCHANGED fd_task_map PROVE FdMove
    BY <1>10, BookkeepingMoves DEF FdMove
  <1>11. QED
    BY <1>1, <1>2, <1>3, <1>4, <1>5, <1>6, <1>7, <1>8, <1>9, <1>10 DEF FdNext

\* delCloseFD(fd) takes exactly the queued tasks of fd out of the list.
LEMMA CloseMoves ==
    ASSUME FdInv, NEW fd \in Fd, delCloseFD(fd)
    PROVE  /\ tasks_' = Keep(tasks_, Queued \ TasksOf(fd))
           /\ tasks_' \in Seq(Task)
           /\ Range(fd_task_map[fd]) = Queued \cap TasksOf(fd)
           /\ Queued' = Queued \ TasksOf(fd)
           /\ Submitted' = Submitted /\ Started' = Started
           /\ UNCHANGED <<wtask, ready>>
  <1>0. tasks_ \in Seq(Task) /\ fd_task_map[fd] = Keep(tasks_, TasksOf(fd))
    BY DEF FdInv, FdIndexExact, TypeOK, TasksOf
  <1>1. Range(fd_task_map[fd]) = Queued \cap TasksOf(fd)
    BY <1>0, KeepRange DEF Queued
  <1>2. Queued \ Range(fd_task_map[fd]) = Queued \ TasksOf(fd)
    BY <1>1
  <1>3. tasks_' = Keep(tasks_, Queued \ TasksOf(fd))
    BY <1>2 DEF delCloseFD
  <1>4. tasks_' \in Seq(Task)
    BY <1>0, <1>3, KeepType
  <1>5. Queued' = Queued \ TasksOf(fd)
    BY <1>0, <1>3, KeepRange DEF Queued
  <1>6. QED
    BY <1>1, <1>3, <1>4, <1>5 DEF delCloseFD, Submitted, Started, wvars

\* The initial state satisfies the invariant.
LEMMA FdInvInit == FdInit => FdInv
  <1> SUFFICES ASSUME FdInit PROVE FdInv
    OBVIOUS
  <1>1. TaskInv
    BY TaskInvInit DEF FdInit
  <1>2. fd_task_map = [fd \in Fd |-> Keep(tasks_, {t \in Task : FdOf[t] = fd})]
    BY KeepEmpty DEF FdInit, Init
  <1>3. QED
    BY <1>1, <1>2 DEF FdInv, FdIndexExact, TaskInv, LockInv

\* Every step preserves it.
LEMMA FdInvStep == FdInv /\ [FdNext]_fvars => FdInv'
  <1> SUFFICES ASSUME FdInv, [FdNext]_fvars PROVE FdInv'
    OBVIOUS
  <1>0. /\ LockInv /\ TypeOK /\ EachTaskOnce
        /\ fd_task_map = [fd \in Fd |-> Keep(tasks_, TasksOf(fd))]
        /\ tasks_ \in Seq(Task)
    BY DEF FdInv, FdIndexExact, TypeOK, TasksOf
  <1>1. LockInv'
    <2>1. CASE [Next]_vars
      BY <1>0, <2>1, LockInvStep
    <2>2. ASSUME NEW fd \in Fd, delCloseFD(fd) PROVE LockInv'
      <3>1. tasks_' \in Seq(Task)
        BY <2>2, CloseMoves
      <3>2. \A w \in Worker : wpc[w] # "take"
        BY <1>0, <2>2 DEF LockInv, MutualExclusion, Holding, delCloseFD, Worker, NoOwner
      <3>3. QED
        BY <1>0, <2>2, <3>1, <3>2
           DEF delCloseFD, LockInv, TypeOK, MutualExclusion, NeverPopsEmpty,
               WorkerHasTask, SpawnOwed, Holding, wvars, mvars
    <2>3. QED
      BY <1>0, <2>1, <2>2, FdNextMoves
  <1>2. EachTaskOnce'
    <2>1. ASSUME NEW fd \in Fd, delCloseFD(fd) PROVE EachTaskOnce'
      <3>1. NoDuplicates(tasks_')
        BY <1>0, <2>1, CloseMoves, KeepNoDuplicates DEF EachTaskOnce, NoDuplicates
      <3>2. QED
        BY <1>0, <2>1, <3>1, CloseMoves DEF EachTaskOnce, NoDuplicates
    <2>2. CASE ~ \E fd \in Fd : delCloseFD(fd)
      BY <1>0, <2>2, OnceStep, FdNextMoves DEF FdMove
    <2>3. QED
      BY <2>1, <2>2
  <1>3. fd_task_map' = [fd \in Fd |-> Keep(tasks_', TasksOf(fd))]
    <2>1. ASSUME NEW t \in Task, Pushes(t),
                 fd_task_map' = [fd_task_map EXCEPT ![FdOf[t]] = Append(@, t)]
          PROVE  fd_task_map' = [fd \in Fd |-> Keep(tasks_', TasksOf(fd))]
      <3>1. ASSUME NEW fd \in Fd
            PROVE  Keep(tasks_', TasksOf(fd))
                      = IF FdOf[t] = fd THEN Append(Keep(tasks_, TasksOf(fd)), t)
                        ELSE Keep(tasks_, TasksOf(fd))
        BY <1>0, <2>1, KeepAppend DEF Pushes, TasksOf
      <3>2. QED
        BY <1>0, <2>1, <3>1
    <2>2. ASSUME NEW w \in Worker, Takes(w),
                 fd_task_map' = [fd_task_map EXCEPT ![FdOf[Head(tasks_)]] = Tail(@)]
          PROVE  fd_task_map' = [fd \in Fd |-> Keep(tasks_', TasksOf(fd))]
      <3>1. ASSUME NEW fd \in Fd
            PROVE  Keep(tasks_', TasksOf(fd))
                      = IF FdOf[Head(tasks_)] = fd THEN Tail(Keep(tasks_, TasksOf(fd)))
                        ELSE Keep(tasks_, TasksOf(fd))
        <4>1. Head(tasks_) \in Task
          BY <1>0, <2>2 DEF Takes
        <4>2. QED
          BY <1>0, <2>2, <4>1, KeepTail DEF Takes, TasksOf
      <3>2. QED
        BY <1>0, <2>2, <3>1
    <2>3. CASE UNCHANGED <<tasks_, fd_task_map>>
      BY <1>0, <2>3
    <2>4. ASSUME NEW fd \in Fd, delCloseFD(fd)
          PROVE  fd_task_map' = [d \in Fd |-> Keep(tasks_', TasksOf(d))]
      <3>1. ASSUME NEW d \in Fd
            PROVE  Keep(tasks_', TasksOf(d))
                      = IF d = fd THEN <<>> ELSE Keep(tasks_, TasksOf(d))
        <4>1. Keep(tasks_', TasksOf(d)) = Keep(tasks_, (Queued \ TasksOf(fd)) \cap TasksOf(d))
          <5>1. tasks_' = Keep(tasks_, Queued \ TasksOf(fd))
            BY <2>4, CloseMoves
          <5>2. Keep(Keep(tasks_, Queued \ TasksOf(fd)), TasksOf(d))
                    = Keep(tasks_, (Queued \ TasksOf(fd)) \cap TasksOf(d))
            BY <1>0, KeepKeep
          <5>3. QED
            BY <5>1, <5>2
        <4>2. CASE d = fd
          <5>1. Range(tasks_) \cap ((Queued \ TasksOf(fd)) \cap TasksOf(d)) = {}
            BY <4>2
          <5>2. QED
            BY <1>0, <4>1, <4>2, <5>1, KeepNone
        <4>3. CASE d # fd
          <5>1. Range(tasks_) \cap ((Queued \ TasksOf(fd)) \cap TasksOf(d))
                    = Range(tasks_) \cap TasksOf(d)
            BY <4>3 DEF TasksOf, Queued
          <5>2. QED
            BY <1>0, <4>1, <4>3, <5>1, KeepAgree
        <4>4. QED
          BY <4>2, <4>3
      <3>2. QED
        BY <1>0, <2>4, <3>1 DEF delCloseFD
    <2>5. QED
      BY <1>0, <2>1, <2>2, <2>3, <2>4, FdNextMoves DEF FdMove, Finishes, MovesNothing
  <1>4. QED
    BY <1>1, <1>2, <1>3 DEF FdInv, FdIndexExact, LockInv, TasksOf

\* The iterators kept for a descriptor are exactly its queued tasks, in queue order:
\* erase and pop_front never touch a node that is gone.
THEOREM FdIndexStaysExact == FdSpec => []FdIndexExact
  <1>1. FdInv => FdIndexExact
    BY DEF FdInv
  <1>2. QED
    BY <1>1, FdInvInit, FdInvStep, PTL DEF FdSpec

-----------------------------------------------------------------------------
(* Which tasks are withdrawn. *)

\* Only delCloseFD changes the set of withdrawn tasks, and it adds to it exactly the
\* queued tasks of its descriptor.
LEMMA WithdrawnStep ==
    ASSUME FdInv, [FdNext]_fvars
    PROVE  \/ Withdrawn' = Withdrawn /\ ~ \E fd \in Fd : delCloseFD(fd)
           \/ \E fd \in Fd : /\ delCloseFD(fd)
                            /\ Withdrawn' = Withdrawn \cup (Queued \cap TasksOf(fd))
  <1>0. LockInv /\ EachTaskOnce /\ tasks_ \in Seq(Task)
    BY DEF FdInv, LockInv, TypeOK
  <1> DEFINE W == Submitted \ (Queued \cup Running \cup ready)
  <1>w. Withdrawn = W /\ Withdrawn' = W'
    BY Zenon DEF Withdrawn, Running
  <1>1. ASSUME NEW t \in Task, Pushes(t) PROVE Withdrawn' = Withdrawn
    <2>1. Queued' = Queued \cup {t}
      BY <1>0, <1>1, AppendLemma DEF Pushes, Queued
    <2>2. Running' = Running
      BY <1>1 DEF Pushes, Running
    <2>3. QED
      BY <1>1, <1>w, <2>1, <2>2 DEF Pushes
  <1>2. ASSUME NEW w \in Worker, Takes(w) PROVE Withdrawn' = Withdrawn
    <2>1. Queued = Queued' \cup {Head(tasks_)}
      BY <1>0, <1>2, TailLemma DEF Takes, Queued
    <2>2. Running' = Running \cup {Head(tasks_)}
      BY <1>2 DEF Takes, Running
    <2>3. QED
      BY <1>2, <1>w, <2>1, <2>2 DEF Takes
  <1>3. ASSUME NEW w \in Worker, Finishes(w) PROVE Withdrawn' = Withdrawn
    <2>1. Running' = Running \ {wtask[w]} /\ wtask[w] \in Running
      BY <1>0, <1>3 DEF Finishes, Running, EachTaskOnce
    <2>2. Queued' = Queued
      BY <1>3 DEF Finishes, Queued
    <2>3. QED
      BY <1>3, <1>w, <2>1, <2>2 DEF Finishes
  <1>4. ASSUME MovesNothing PROVE Withdrawn' = Withdrawn
    <2>1. Running' = Running /\ Queued' = Queued
      BY <1>4 DEF MovesNothing, Running, Queued
    <2>2. QED
      BY <1>4, <1>w, <2>1 DEF MovesNothing
  <1>5. ASSUME NEW fd \in Fd, delCloseFD(fd)
        PROVE  Withdrawn' = Withdrawn \cup (Queued \cap TasksOf(fd))
    <2>1. /\ Running' = Running /\ Queued' = Queued \ TasksOf(fd)
          /\ Submitted' = Submitted /\ ready' = ready
      BY <1>5, CloseMoves DEF Running
    <2>2. Queued \subseteq Submitted \ (Running \cup ready)
      BY <1>0 DEF EachTaskOnce, Running
    <2>3. QED
      BY <1>w, <2>1, <2>2
  <1>6. QED
    BY <1>0, <1>1, <1>2, <1>3, <1>4, <1>5, FdNextMoves DEF FdMove

\* A task leaves the pool without being executed only because its own descriptor was
\* closed, together with the other queued tasks of it, and it never comes back.
THEOREM OnlyCloseTakesAway == FdSpec => OnlyCloseWithdraws
  <1>1. FdInv /\ [FdNext]_fvars
        => [Withdrawn # Withdrawn' =>
              \E fd \in Fd : /\ delCloseFD(fd)
                             /\ Withdrawn' = Withdrawn \cup {t \in Queued : FdOf[t] = fd}]_fvars
    <2> SUFFICES ASSUME FdInv, [FdNext]_fvars, Withdrawn # Withdrawn'
                 PROVE  \E fd \in Fd :
                           /\ delCloseFD(fd)
                           /\ Withdrawn' = Withdrawn \cup {t \in Queued : FdOf[t] = fd}
      OBVIOUS
    <2>1. PICK fd \in Fd : /\ delCloseFD(fd)
                           /\ Withdrawn' = Withdrawn \cup (Queued \cap TasksOf(fd))
      BY WithdrawnStep
    <2>2. Queued \subseteq Task
      BY DEF FdInv, LockInv, TypeOK, Queued, Range
    <2>3. Queued \cap TasksOf(fd) = {t \in Queued : FdOf[t] = fd}
      BY <2>2 DEF TasksOf
    <2>4. QED
      BY <2>1, <2>3
  <1>2. QED
    BY <1>1, FdInvInit, FdInvStep, PTL DEF FdSpec, OnlyCloseWithdraws

\* Every step of this pool is a step of the task service or leaves it unchanged.
LEMMA FdServiceStep ==
    ASSUME FdInv, [FdNext]_fvars
    PROVE  [FdService!SNext]_<<tasks_, Running, ready, Withdrawn>>
  <1>0. LockInv /\ EachTaskOnce /\ tasks_ \in Seq(Task)
    BY DEF FdInv, LockInv, TypeOK
  <1>1. ASSUME NEW t \in Task, Pushes(t), Withdrawn' = Withdrawn PROVE FdService!Accept(t)
    <2>1. t \notin Queued \cup Running \cup ready \cup Withdrawn
      BY <1>0, <1>1 DEF Pushes, EachTaskOnce, Running, Withdrawn
    <2>2. Running' = Running
      BY <1>1 DEF Pushes, Running
    <2>3. QED
      BY <1>1, <2>1, <2>2 DEF Pushes, FdService!Accept, FdService!Queued, Queued, Running,
                              Range, FdService!Range
  <1>2. ASSUME NEW w \in Worker, Takes(w), Withdrawn' = Withdrawn PROVE FdService!Start
    <2>1. Running' = Running \cup {Head(tasks_)}
      BY <1>2 DEF Takes, Running
    <2>2. Cardinality(Running) < THREADPOOL_MAX_NUM
      BY <1>2, RoomForOneMore DEF Takes
    <2>3. FdService!Cardinality(Running) = Cardinality(Running)
      BY DEF Cardinality, FdService!Cardinality
    <2>4. QED
      BY <1>2, <2>1, <2>2, <2>3 DEF Takes, FdService!Start, Running
  <1>3. ASSUME NEW w \in Worker, Finishes(w), Withdrawn' = Withdrawn
        PROVE  \E t \in Task : FdService!Finish(t)
    <2>1. PICK t \in Task : t = wtask[w]
      BY <1>3 DEF Finishes
    <2>2. Running' = Running \ {t} /\ t \in Running
      BY <1>0, <1>3, <2>1 DEF Finishes, Running, EachTaskOnce
    <2>3. FdService!Finish(t)
      BY <1>3, <2>1, <2>2 DEF Finishes, FdService!Finish, Running
    <2>4. QED
      BY <2>3
  <1>4. ASSUME NEW fd \in Fd, delCloseFD(fd),
               Withdrawn' = Withdrawn \cup (Queued \cap TasksOf(fd))
        PROVE  \E D \in SUBSET Task : FdService!Withdraw(D)
    <2> DEFINE D == Queued \cap TasksOf(fd)
    <2>1. D \in SUBSET Task /\ D \subseteq Queued /\ Queued \ D = Queued \ TasksOf(fd)
      BY DEF TasksOf
    <2>2. Running' = Running
      BY <1>4, CloseMoves DEF Running
    <2>3. tasks_' = Keep(tasks_, Queued \ D) /\ ready' = ready
      BY <1>4, <2>1, CloseMoves
    <2>4. FdService!Keep(tasks_, Queued \ D) = Keep(tasks_, Queued \ D)
      BY Zenon DEF Keep, Kept, FdService!Keep, FdService!Kept
    <2>5. FdService!Queued = Queued
      BY DEF FdService!Queued, Queued, Range, FdService!Range
    <2> HIDE DEF D
    <2>6. FdService!Withdraw(D)
      BY <1>4, <2>1, <2>2, <2>3, <2>4, <2>5 DEF FdService!Withdraw, Running, D
    <2>7. QED
      BY <2>1, <2>6
  <1>5. CASE MovesNothing /\ Withdrawn' = Withdrawn
    BY <1>5 DEF MovesNothing, Running
  <1>6. CASE /\ \/ \E t \in Task : Pushes(t)
                \/ \E w \in Worker : Takes(w) \/ Finishes(w)
             /\ Withdrawn' = Withdrawn
    <2>1. CASE \E t \in Task : Pushes(t)
      <3>1. \E t \in Task : FdService!Accept(t)
        BY <1>1, <1>6, <2>1
      <3>2. QED
        BY <3>1 DEF FdService!SNext
    <2>2. CASE \E w \in Worker : Takes(w)
      BY <1>2, <1>6, <2>2 DEF FdService!SNext
    <2>3. CASE \E w \in Worker : Finishes(w)
      <3>1. \E t \in Task : FdService!Finish(t)
        BY <1>3, <1>6, <2>3
      <3>2. QED
        BY <3>1 DEF FdService!SNext
    <2>4. QED
      BY <1>6, <2>1, <2>2, <2>3
  <1>7. CASE \E fd \in Fd : delCloseFD(fd)
    <2>1. \E D \in SUBSET Task : FdService!Withdraw(D)
      BY <1>4, <1>7, WithdrawnStep
    <2>2. QED
      BY <2>1 DEF FdService!SNext
  <1>8. QED
    BY <1>0, <1>5, <1>6, <1>7, FdNextMoves, WithdrawnStep DEF FdMove

\* Closing descriptors keeps the promise of the service: FIFO start order, at most one
\* execution of a task, bounded parallelism, withdrawal of queued tasks only.
THEOREM FdPoolImplementsService == FdSpec => FdImplementsTaskService
  <1>1. FdInit => FdService!SInit
    <2> SUFFICES ASSUME FdInit PROVE FdService!SInit
      OBVIOUS
    <2>1. Started = {} /\ Submitted = {}
      BY DEF FdInit, Init, Started, Submitted
    <2>2. QED
      BY <2>1 DEF FdInit, Init, FdService!SInit, Withdrawn
  <1>2. FdInv /\ [FdNext]_fvars => [FdService!SNext]_(FdService!svars)
    BY FdServiceStep DEF FdService!svars, Running
  <1>3. QED
    BY <1>1, <1>2, FdInvInit, FdInvStep, PTL
       DEF FdSpec, FdImplementsTaskService, FdService!SSpec
=============================================================================
