---------------------------- MODULE TaskService ----------------------------
(***************************************************************************)
(* What a thread pool promises to the code that hands tasks to it, with    *)
(* threads, locks and condition variables left out: an accepted task is    *)
(* started at most once, tasks are started in the order in which they were *)
(* accepted, at most MaxRunning tasks run at the same time, and a task     *)
(* that was started is only ever finished, never put back or thrown away.  *)
(***************************************************************************)
EXTENDS Integers, Sequences, FiniteSets, Functions, Filtering

CONSTANTS Task,        \* the tasks that may ever be submitted
          MaxRunning   \* how many tasks may run at the same time

VARIABLES queue,       \* accepted and not started, oldest first
          running,     \* started and not finished
          finished,    \* finished
          withdrawn    \* taken out of the queue before it was started

svars == <<queue, running, finished, withdrawn>>

Queued == Range(queue)

SInit ==
    /\ queue = <<>>
    /\ running = {}
    /\ finished = {}
    /\ withdrawn = {}

\* A task enters the service once in its life, behind all the others.
Accept(t) ==
    /\ t \notin Queued \cup running \cup finished \cup withdrawn
    /\ queue' = Append(queue, t)
    /\ UNCHANGED <<running, finished, withdrawn>>

\* Only the oldest task may start, and only while there is room.
Start ==
    /\ queue # <<>>
    /\ Cardinality(running) < MaxRunning
    /\ running' = running \cup {Head(queue)}
    /\ queue' = Tail(queue)
    /\ UNCHANGED <<finished, withdrawn>>

Finish(t) ==
    /\ t \in running
    /\ running' = running \ {t}
    /\ finished' = finished \cup {t}
    /\ UNCHANGED <<queue, withdrawn>>

\* The owner withdraws the queued tasks in D; a started task is out of reach.
Withdraw(D) ==
    /\ D \subseteq Queued
    /\ queue' = Keep(queue, Queued \ D)
    /\ withdrawn' = withdrawn \cup D
    /\ UNCHANGED <<running, finished>>

SNext ==
    \/ \E t \in Task : Accept(t) \/ Finish(t)
    \/ Start
    \/ \E D \in SUBSET Task : Withdraw(D)

SSpec == SInit /\ [][SNext]_svars
=============================================================================
