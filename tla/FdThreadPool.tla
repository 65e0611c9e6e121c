---------------------------- MODULE FdThreadPool ----------------------------
(***************************************************************************)
(* The thread pool of socket/epoll/threadpool.h (its copy under            *)
(* tools/sync_file/epoll_socket is the same code).  It is the pool of      *)
(* ThreadPool with one more piece of state: every task belongs to a file   *)
(* descriptor, and fd_task_map keeps, for every descriptor, the list       *)
(* iterators of its queued tasks, so that delCloseFD can erase them when   *)
(* the connection is closed.                                               *)
(*                                                                         *)
(* An iterator is modelled by the task in the node it points to.  Erasing  *)
(* through an iterator whose node is gone, or popping an empty list of     *)
(* iterators, is undefined behaviour in the code; the model has no step    *)
(* for it, and FdIndexExact says why none is needed.                       *)
(* A descriptor that is not a key of the map and one with an empty list    *)
(* behave alike in every operation; both are <<>> here.                    *)
(*                                                                         *)
(* This pool is stopped by its destructor.  No member may be called once   *)
(* that has begun, and it may not begin while a call is in progress; only  *)
(* the workers outlive it.                                                 *)
(***************************************************************************)
EXTENDS ThreadPool, Filtering

CONSTANTS Fd,      \* file descriptors
          FdOf     \* the descriptor of each task

ASSUME FdAssumption == FdOf \in [Task -> Fd]

VARIABLE fd_task_map

fvars == <<vars, fd_task_map>>

FdInit == Init /\ fd_task_map = [fd \in Fd |-> <<>>]

\* Lines 69-77: the critical section of AddTask.
FdAddTaskPush(t) ==
    /\ run_
    /\ AddTaskPush(t)
    /\ fd_task_map' = [fd_task_map EXCEPT ![FdOf[t]] = Append(@, t)]

\* Lines 61-62 and 78-80.
FdAddTask(t) ==
    /\ run_
    /\ AddTask(t) \/ AddTaskNotify(t)
    /\ UNCHANGED fd_task_map

\* Mutant: the iterator stays in the map (line 120 is missing).
FdWorkerTakeKeeps(w) == WorkerTake(w) /\ UNCHANGED fd_task_map

\* Mutant: the newest task is taken, from the list and from the map.
FdWorkerTakeNewest(w) ==
    /\ wpc[w] = "take" /\ tasks_ # <<>>
    /\ LET t == tasks_[Len(tasks_)] IN
          /\ wtask' = [wtask EXCEPT ![w] = t]
          /\ fd_task_map' = [fd_task_map EXCEPT ![FdOf[t]] = SubSeq(@, 1, Len(@) - 1)]
    /\ tasks_' = SubSeq(tasks_, 1, Len(tasks_) - 1)
    /\ lock_' = NoOwner
    /\ GoTo(w, "dec")
    /\ UNCHANGED <<pool_, run_, idlThrNum_, apc, ready, mvars>>

\* Lines 116-123: the task leaves the list, and the OLDEST iterator of its
\* descriptor leaves the map.
FdWorkerTake(w) ==
    /\ WorkerTake(w)
    /\ fd_task_map' = [fd_task_map EXCEPT ![FdOf[Head(tasks_)]] = Tail(@)]

\* Lines 107-117 and 124-128: the rest of the thread function.
FdWorker(w) ==
    /\ \/ WorkerWhile(w) \/ WorkerLock(w) \/ WorkerPred(w) \/ WorkerBlock(w)
       \/ WorkerReturn(w) \/ WorkerDec(w) \/ WorkerExec(w) \/ WorkerInc(w)
    /\ UNCHANGED fd_task_map

\* Lines 90-101: delCloseFD erases the queued tasks of a descriptor.  A task that
\* a worker has taken already is not among them.
delCloseFD(fd) ==
    /\ run_
    /\ lock_ = NoOwner
    /\ fd_task_map[fd] # <<>>
    /\ tasks_' = Keep(tasks_, Queued \ Range(fd_task_map[fd]))
    /\ fd_task_map' = [fd_task_map EXCEPT ![fd] = <<>>]
    /\ UNCHANGED <<pool_, lock_, run_, idlThrNum_, wvars, apc, ready, mvars>>

\* Lines 103-131.
addThread ==
    /\ run_
    /\ \/ \E n \in Sizes : InitThreadSize(n)
       \/ SpawnThread \/ CountThread \/ SpawnDone
    /\ UNCHANGED fd_task_map

\* Lines 40-50: ~ThreadPool() is what Destory is in the other pool.
Destructor ==
    /\ \/ /\ run_
          /\ \A t \in Task : apc[t] \notin {"push", "notify"}
          /\ Destory
       \/ DestoryNotify \/ DestoryJoin \/ DestoryReturn
    /\ UNCHANGED fd_task_map

FdNext ==
    \/ \E t \in Task : FdAddTask(t) \/ FdAddTaskPush(t)
    \/ \E w \in Worker : \/ FdWorkerTake(w) \/ FdWorker(w)
                         \/ SpuriousWakeup(w) /\ UNCHANGED fd_task_map
    \/ \E fd \in Fd : delCloseFD(fd)
    \/ addThread
    \/ Destructor

FdSpec == FdInit /\ [][FdNext]_fvars

\* As in ThreadPool: threads that can run are scheduled; nobody is obliged to
\* submit a task, to close a descriptor, to add threads or to destroy the pool.
FdFairness ==
    /\ \A t \in Task : WF_fvars(FdAddTaskPush(t))
    /\ \A t \in Task : WF_fvars(AddTaskNotify(t) /\ UNCHANGED fd_task_map)
    /\ \A w \in Worker : WF_fvars(FdWorkerTake(w) \/ FdWorker(w))
    /\ WF_fvars(Control /\ UNCHANGED fd_task_map)

FdFairSpec == FdSpec /\ FdFairness

-----------------------------------------------------------------------------
(* Properties. *)

\* For every descriptor the iterators in the map are exactly the queued tasks of
\* that descriptor, in queue order.  So erase (line 97) and pop_front (line 120)
\* only ever touch live nodes, and pop_front drops the iterator of the very task
\* the worker takes.  All variables of the pool keep their types.
FdIndexExact ==
    /\ TypeOK
    /\ fd_task_map = [fd \in Fd |-> Keep(tasks_, {t \in Task : FdOf[t] = fd})]

Withdrawn == Submitted \ (Queued \cup {wtask[w] : w \in Started} \cup ready)

\* A task leaves the pool without being executed only through delCloseFD of its
\* own descriptor, all queued tasks of that descriptor at once, and it never
\* comes back (lines 90-101).
OnlyCloseWithdraws ==
    [][Withdrawn # Withdrawn' =>
          \E fd \in Fd : /\ delCloseFD(fd)
                         /\ Withdrawn' = Withdrawn \cup {t \in Queued : FdOf[t] = fd}]_fvars

\* The pool still implements the task service, with delCloseFD as withdrawal.
FdService == INSTANCE TaskService
                 WITH MaxRunning <- THREADPOOL_MAX_NUM,
                      queue <- tasks_,
                      running <- {wtask[w] : w \in Started},
                      finished <- ready,
                      withdrawn <- Withdrawn

\* FIFO start order, at most one execution, bounded parallelism, and withdrawal
\* of queued tasks only (lines 59-131): FdThreadPool implements TaskService.
FdImplementsTaskService == FdService!SSpec

\* A task whose AddTask returned is executed unless the pool is stopped or its
\* descriptor is closed first; closing one descriptor starves no other.
FdAcceptedTaskRuns ==
    \A t \in Task :
        (apc[t] = "returned" /\ pool_ > 0)
            ~> (t \in ready \/ t \in Withdrawn \/ ~run_)
=============================================================================
