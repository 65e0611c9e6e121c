# TLA+ specifications of masnail/algo

The repository is a collection of small C++ systems: a thread pool, a second
thread pool for network servers, a timer manager on timerfd and epoll, a
token-bucket rate limiter, an LRU cache, a file-transfer server and client, an
echo server that speaks protobuf, a chat, and sorting and puzzle programs. This directory holds TLA+
modules that model them, the TLC configurations that check the models, and
proofs that TLAPS checks. Line numbers refer to the files under `src/`;
`PROJECT.json` lists, definition by definition, which lines each one models.

## 1. Inventory

| Part | State | Operations | What makes it correct | Module |
|---|---|---|---|---|
| `include/threadpool.h` | task list, lock and condition variable, `run_`, idle counter, threads | `AddTask`, `InitThreadSize`, `Destory`, the thread function | every task once and in order, no lost wakeup, exact counter, orderly stop | `ThreadPool`, `TaskService`, `ThreadPoolProofs` |
| `socket/epoll/threadpool.h` (and its copy in `tools/sync_file/epoll_socket`) | the same and `fd_task_map`, list iterators per descriptor | `AddTask(fd, ..)`, `delCloseFD`, `addThread`, destructor | iterators always point to live nodes; only a close withdraws tasks | `FdThreadPool`, `ThreadPoolProofs` |
| `timerfd/timer_queue`, `timer`, `timer_stamp` | two containers of timers, the timerfd, the executing timers | `AddTimer`, `StopTimer`, `HandleRead` | containers agree, timerfd armed for the earliest timer, every timer fires, none early | `TimerQueue`, `TimerProofs` |
| `timerfd/timer_loop_mgr`, `timer_epoll`, `timer_channel` | `quit_`, active channels, each channel's events and flag, epoll | loop, `QuitLoop`, `Destory`, channel operations | the flag agrees with epoll, expirations are handled, the loop ends when told to | `TimerLoop`, `TimerProofs` |
| `tools/rate_limiter` | stored permits, next free time | `Init`, `Aquire`, `OrderController::allow` | no stretch of calls exceeds the rate | `TokenBucket`, `TokenBucketProofs` |
| `test/146.cc` | doubly linked list and map | `get`, `put` | list matches map, eviction of the least recently used key | `LRUCache`, `LRUSpec`, `LRUCacheProofs` |
| `tools/sync_file` | connections, epoll, queued and running transfers, the client's copy | accept, request, transfer, close | the copy is the file, streams stay in step, everybody is served | `SyncFile`, `SyncFileProofs` |
| `sort_algo/*_sort.cc` | an array | six sorts | the result is the sorted array | `Sorting`, `Algorithms` |
| `socket/epoll` server and client | connections, queued and running answers, what each client has read | accept, read length and body, answer, close; clients that are killed | each request answered once, by its own answer; nobody waits for ever; nothing of a killed client is left | `EchoServer`, `EchoServerProofs` |
| `socket/epoll/echo.pb.*` | the fields of five messages, unknown fields | parse, serialise, size, merge, copy, clear | what is read is written again, the size announced is the size written | `Messages`, `Algorithms` |
| `socket/select` | a list of connections shared by three threads, each client's input buffers | accept, receive, broadcast; type, send | no line and no broadcast lost, repeated or overtaken | `SelectChat`, `SelectChatProofs` |
| `test/7.cc`, `17.cc`, `45.cc`, `373.cc` | none | pure functions | agreement with a reference definition | `Puzzles`, `Algorithms` |
| `sort_algo/use_heap.cc`, Makefiles, demonstration mains | - | - | - | not modelled |

How the parts interact. The file server and the echo server hand closures to the
pool with descriptors and withdraw them with `delCloseFD`; the echo server reads
and its client writes protobuf messages; `TimerEventMgr` runs
`TimerQueue::HandleRead` as the read callback of a channel, and user threads call
into the queue without a lock; `OrderController` passes time stamps of its callers
to the limiter. The other parts stand alone.

Hard behaviours: unlocked flags and counters beside a condition variable; two
containers changed one after the other by two threads; callbacks that call back
into the queue whose expiration they serve; closures that hold references to
variables of a loop that has moved on; edge-triggered epoll; descriptors that are
closed and used again; clients that are killed; wall-clock time against monotonic
time; unsigned products and truncated prices. `PROJECT.json` lists each of them as
a hazard, with its line and the properties that cover it.

## 2. Modules and their correspondence to the code

**TaskService** is the promise of a pool: tasks are accepted once, started in
order, at most `MaxRunning` at a time, finished, or withdrawn while queued.

**ThreadPool** has one action per step between two synchronisation points:
`AddTask` (test of `run_`), `AddTaskPush` (critical section), `AddTaskNotify`
(`notify_one` after the unlock); for each worker `WorkerWhile`, `WorkerLock`,
`WorkerPred`, `WorkerBlock` (the predicate and the sleep are separate steps,
under the lock), `WorkerReturn`, `WorkerTake`, `WorkerDec`, `WorkerExec`,
`WorkerInc`; `InitThreadSize`, `SpawnThread`, `CountThread`; `Destory`,
`DestoryNotify`, `DestoryJoin`. Spurious wakeups happen. Tasks are model values, a
ready future is membership in `ready`. Calls of `AddTask` overlap freely; calls of
`InitThreadSize` and `Destory` come from one controlling thread.

**FdThreadPool** extends it with `fd_task_map` and `delCloseFD`. **Filtering** holds
`Keep(s, S)`, the elements of a sequence that are in a set, in their order: what is left
of a list when `delCloseFD` has erased the tasks of a descriptor. `LRUSpec`, `SelectChat`,
`SyncFile` and `TaskService` use it too. It is `SelectSeq` for a membership test, written as a
recursive function so that lemmas about it can be proved (`SequenceFacts`).

**TimerQueue** has one action per container operation, system call or reading of
the clock, for the loop thread and a user thread. Wall-clock stamps are kept
relative to the present, so time needs no bound; `Tick` advances both clocks,
`AdjustClock` only the wall clock, `MaxJumps` times. `StopTimer` is called for any
timer that was ever added, from outside and from callbacks, also for the timer whose
callback is running. A failing assert, a read through the end iterator and a use of
a deleted timer set `fault` and stop the program. `cancelingTimers_` is a variable and
`Reset` consults it (line 160), but it is always empty: the only line that fills it
reads the end iterator first, which is a null node in libstdc++ and ends the program. With `Serialised` the user's calls
come while the loop waits, which is how the queue has to be used.

**TimerLoop** models the manager's loop, the channels and the epoll instance;
what the timer channel's callback does in detail is `TimerQueue`.

**TokenBucket**: `Aquire` holds its mutex throughout and is one step. Permits are
counted in exact units (a permit is `Window` units) instead of doubles; the
truncation to microseconds and the unsigned product in `allow` are kept. `Init` may be
given any whole number: the capacity is corrected to 1 if it is not positive (lines
20-25), `interval_` is not (line 27) and is then negative or infinite, in which case
`next_free_` wraps around at `TimeRange` and the conversion of an infinite price is a
choice of what the build may make of it. `Aquire` may be asked for any whole number of permits,
negative ones included, which the empty `if` of line 31 lets through.

**LRUCache** keeps head, tail and the links as the code does; `DeleteNode` and
`InsertHead` are operators on the list. **LRUSpec** is a sequence of keys ordered
by last use and their values; its constant `Overwrite` says whether a `put` of a cached
key changes the value. With `FALSE` it is what the code implements (`ImplementsLRU`), with
`TRUE` what the comment on the exercise says (`UpdatesOnPut`). `Walk` follows the next pointers from the head, `Recent` is the
sequence of keys met on the way and the refinement mapping's image of the list.

**SyncFile** composes client processes, the server's loop and the transfer tasks,
with the pool as `TaskService` (which `FdThreadPool` is shown to implement). What
one send call hands over is one piece, a length or a body. Tasks are numbered in the
order of submission, `task` is the sequence of what each one keeps. A task keeps its
descriptor by value and reads `cmd` and `len` from the loop's variables, as the
lambda's references do; the storage of a variable that has left its scope is
taken to be the one the next iteration uses, as with the usual compilers. epoll is
a list of descriptors that became readable; a new connection gets the lowest free
descriptor, so that numbers are used again. Clients in `Killable` are killed at any
point of their work; the server reads the end of their stream between requests,
between a length and its body, or never. `lost` is a client that meets a piece it
does not expect. The history variable `overlapped` holds the clients that ran at the
same time as another one or its remains; it guards nothing. A send to a client that
is gone is dropped or ends the server (SIGPIPE).

**EchoServer** composes clients that ask again and again, the epoll thread and the
pool (again `TaskService`), and uses `Messages` for the request: the length comes
from `ByteSizeLong`, the body from `Serialize`, the number the server answers with
from `ParseFromArray`, whose verdict the code ignores. The answer is the raw image of
a `Server` object, as in server.cpp, and carries as history whose request it answers.
`ReadLength` and `ReadBody` are the two blocking reads, of which only the second one's
result is looked at; a reset connection gives a read of -1, which is passed to
`ParseFromArray` for a length (line 173): either the number that is answered is arbitrary
(`Garbage`), or the server ends. The history variable `orphans` holds the tasks that
were running when `delCloseFD` withdrew the others of their connection. On the loopback interface a
piece arrives as it was written. Names may hold bytes that are not text, because the
client does not terminate its buffer.

**SelectChat** has the accepting, the receiving and the sending thread of the server
over the unlocked list `li`, and the clients, which select between their socket and
standard input. `push_back` is one step: libstdc++ sets the new node's own pointers
before it links the node, and the walks only follow next pointers, so that they see
the list before or after the append. `tv` is kept because `select` overwrites it.
A client that reads a pipe reads ahead into the buffer of stdio, a terminal gives one
line at a time. When `recv` fills the whole buffer, `printf` reads past its end
(`Junk`).

**Messages** models the generated code: a message type is the table of its fields,
the operators do what the generated functions do for each kind of field, with int32
and varint widths as parameters (10 and 20 bits in the runs, so that sign
extension, truncation and varints of several bytes occur with small numbers). The
wire is a sequence of tokens whose contents are tokens again.

**Sorting** and **Puzzles** state the functions as operators, loops as folds or
recursion. `core` of `17.cc` also returns whether it read a character outside a string.
They and `Messages` use recursive operators or folds over data, so
what they compute is not proved but enumerated. **Algorithms** runs each of these programs on every
input up to its bounds: one initial state per program and input, one step.

The `MC...` modules give constants their values. **MCSequential** puts `Algorithms`,
`LRUCache` and `TokenBucket` side by side in one instance: in a behaviour one of them
runs and the others stay as they were made, so that each is explored exactly as it
would be alone.

## 3. Runs

| Run | Checks | Bounds |
|---|---|---|
| `ThreadPoolRuns` | types, mutual exclusion, no pop of an empty list, every task in exactly one place, wakeups cover the backlog, exact idle counter, one more task at most after the stop; accepted tasks run, `Destory` returns unless a worker was caught before its sleep, refinement of `TaskService` | 3 overlapping calls, capacity 2, `InitThreadSize(2)` again and again |
| `FdThreadPoolRuns` | iterators are exact, only a close withdraws, refinement, no starvation | 3 tasks on 2 descriptors, 2 workers |
| `TimerQueueRuns` | containers agree and no fault but the end iterator of line 115, timerfd armed for the earliest timer, no callback early or for a timer that is still in a container; every timer expires and repeating ones come back (`TimersTakeTurns`) | 3 timers, delays 0 and 2, one jump of the clock in either direction, callbacks that add and stop any timer; calls from outside while the loop waits |
| `TimerLoopRuns` | flag and events agree with epoll, also after `Destory`, expirations are handled, `QuitLoop` works once the loop runs | none: the state is finite |
| `SyncFileRuns` | a copy equals its file if the client had the server to itself; while nobody is killed, streams in step, one transfer per connection and all descriptors released; queued tasks have a connection; everybody served | 2 clients, at once or in turn, one of which may be killed at any time, 2 threads; files of two groups, one full group and none |
| `EchoServerRuns` | queued answers have a connection, answers in order and each once, only a task that was running when `delCloseFD` withdrew the others of its connection can disturb another client, and only then can the server end; everybody answered, everything of a killed client released | 3 clients, one with two requests, one with a name that is no text, two of them killed at any time, 2 threads |
| `SelectChatRuns` | broadcasts reach everyone in the list, lines stay in order; lines and broadcasts are shown in the end | 2 clients, one on a pipe that may be killed, one on a terminal; 4 lines, 2 broadcasts, a buffer of two lines |
| `SequentialRuns` | sorting programs sort, puzzles meet their references, messages survive reading and writing, reading two messages in a row merges them; list matches map, refinement of `LRUSpec`; bucket within bounds, rate, stale stamps | arrays up to 4 elements over 3 values, all ranges; all numbers of 10 bits; up to 3 digits; wires of up to 3 tokens out of 11 for all five types; all pairs of small messages; 4 keys, 2 values, capacities 1, 2, 3 and unlimited, names symmetric; `max_permits` 2, 0 and -2, 4 calls of -1, 0, 1 or 3 permits, stamps in any order, wrapping product |

Two workers and three tasks are enough for every order in which a task, a wakeup
and another worker can meet; the second `InitThreadSize` meets a full pool. Two
timers show every relation of a new timer to a pending one and of a callback to
another timer, the third adds an entry behind two that expire together.
`MaxAhead` and `MaxLate` bound how far a stamp lies in the future and how late the
loop is while it is busy. Groups of two bytes give files that end inside a group,
at its end, and before it begins. Three echo clients are the least with which a
descriptor is used again while another client is being served. In the chat two lines
fill the buffer and the client with the pipe has three, so that the third one may have
to come with the next `recv`. Calls for 3, 1, 0 and -1 permits overdraw the bucket, claim
from it, claim nothing and put back; two permits in three microseconds make prices that
are truncated. Ten bits hold
numbers of three digits with either sign, and reversals that do and do not fit.
`CHECK_DEADLOCK FALSE` stands only where the
program really ends or waits for ever. Type invariants are conjuncts of an invariant
that is checked (`PoolSafety`, `RateLimited`, `ContainersAgree`, `FlagMatchesEpoll`,
`ListMatchesMap`, `QueuedTasksHaveConnection`, `FdIndexExact`,
`BroadcastsReachEveryone`).

### Where comments, asserts or tests and the code disagree

Each of these runs checks one statement of the repository and ends with a
counterexample.

| Run | Statement | What happens |
|---|---|---|
| `ThreadPoolDestoryHangs` | `threadpool.h:50,55`: all threads are woken, join waits for them | `run_` is cleared without the lock; a worker between predicate and sleep misses `notify_all` |
| `LRUCacheUpdates` | `146.cc:7`: if the key is there, change the value and move it to the head | `put` of a cached key keeps the old value |
| `TokenBucketWindow` | `rate_limiter/main.cc:33`: at most one request in 3 ms | a request with the same time stamp as one that has passed finds the bucket empty, borrows its permit and passes |
| `TimerQueueRace` | `timer_queue.cpp:118`: the containers have equally many elements | a user thread's call interleaves with the loop |

Further disagreements need no search, and have no run of their own. The models
contain them, and the properties that pass are stated so as to allow them:

* `threadpool.h:55` waits "for the tasks to end", but line 110 lets workers leave
  with tasks in the list. `AcceptedTaskRuns` speaks of pools that are not stopped.
* A new thread may take a task before line 132 has counted it, so `IdlCount()` can
  return -1. `IdleCountExact` counts the threads that have been counted.
* The comments at `timer_queue.cpp:114` and `timer_queue.h:37` say that the branch solves
  stopping a timer that is executing. But such a timer is in no container, and line 115
  reads the end iterator before it can put the timer into `cancelingTimers_`, where line 160
  would find it. `ContainersAgree` says exactly when this happens: a `StopTimer`, while
  callbacks run, for a timer in neither container. `TimersTakeTurns` excepts this fault
  and no other.
* `sync_file/test.sh:18` compares the sizes of copy and original. With two clients at
  the same time a task reads the other request's name and sends another file, or
  none. `CopyEqualsOriginal` speaks of clients that had the server to themselves,
  `StreamInSync` of all: they get whole files.
* A transfer or an answer that is already running when its connection is closed goes on
  after the close, into whatever connection has the number then, and so does one that a
  pool thread takes between the close and `delCloseFD` (echo server: lines 167 and 168,
  file server: 91 and 92): the next client of the file server may get a mixture, the next
  one of the echo server somebody else's answer. `delCloseFD` withdraws queued tasks only.
* The end of a killed client of the file server may arrive in the same edge-triggered
  event as its last request; it is then never read and the descriptor stays open.
* `socket/epoll/client.cpp:88` does not terminate its buffer. If the bytes behind it
  are not text the parse fails, the verdict is ignored, and the answer is 0.
* `test/45.cc` reads the last element of an empty vector, `373.cc` the first one of an
  empty `nums2`; both inputs are outside the runs, as in the exercises' statements.
* The loop bound in `17.cc:9` belongs to another digit than the index in line 10. For
  the digits 2 to 9 this never matters. The digit 1 stands for the empty string: behind a
  first digit other than 1 (as in "21") the index lies outside it, which is undefined.
  `PuzzlesSolved` says that this happens for these inputs and no others, and that the
  result does not depend on what is read. The digit 0 is outside the runs; its index into
  `str` (line 21) is -1.
* `timer_loop_mgr.cpp:49` undoes a `QuitLoop` that comes before the new thread has
  run. `QuitAfterStartEndsLoop` speaks of later ones.
* Nothing says what a limiter does whose `max_permits` is not positive. The model contains
  it and `RateLimited` promises only its types: with a negative `interval_`, time takes
  permits away. Negative permits fill the bucket beyond its capacity; the bounds of
  `RateLimited` and `NoPermitsFromThePast` count them (`returned`).

## 4. Fairness

Weak fairness only. Threads that can run are scheduled (every thread function and
every call that was begun); tasks and callbacks return (`threadpool.h:55` names
this as the premise); time passes; `epoll_wait` returns (it has a time-out of ten
seconds in the timer loop). Nobody is obliged to call an operation, to start a
client, to kill one, to type a line, or to cause a spurious wakeup. In `SyncFile` and
`EchoServer` the pool starts queued tasks, which `FdAcceptedTaskRuns` checks of the
pool. The threads of the timer queue, the echo server and the chat and each client
process there have a fairness condition of their own. `SyncFile` assumes even less:
that as long as somebody can take a step, somebody does (`WF_vars(Step)`), which
is enough because the work of finitely many clients is finite.

Where clients stop after a bounded number of requests, liveness is stated as
`<>[]`: from some moment on nobody waits any more and nothing is left over. A
request that stayed unanswered, or a descriptor that stayed open, would violate it.

A mutex needs no strong fairness at the bounds checked here, because a worker
that has run out of tasks goes to sleep and gives the lock up.

## 5. Proofs

Every theorem holds for every value of the constants that the named `ASSUME`s allow;
every run of a module evaluates them. Two kinds of theorem have a hypothesis besides:
those of `TimerProofs` about the queue (`Serialised`: calls from outside come while the loop waits;
without it they are false, as `TimerQueueRace` shows) and `AnswersStayInOrder`. Each
inductive invariant below was checked by TLC on the instance of the module's run before
it was proved.

**SequenceFacts** has no theorem of its own interest, but what the others rest on. The
library's induction theorems take a predicate as parameter, which the provers cannot
instantiate; here induction is stated with a set in its place: a nonempty set of
naturals has a least element (`NatMinimum`, from the well-foundedness of `<`), a set
that holds 0 and with n also n + 1 holds all naturals (`NatInduct`), a set that holds
the empty sequence and is closed under `Append` holds all sequences (`SeqInduct`). From
these follow that the recursive function behind `Keep` exists (`KeptDef`) and what
`Keep` does to `Append`, `Tail` and concatenation, to ranges and to sequences without
duplicates.

**ThreadPoolProofs**, for every set of tasks, every capacity and every set of sizes:

* `PoolSafe`: types, mutual exclusion, no pop of an empty list. Neither is inductive
  by itself: the type of `ready` needs a worker that executes to have a task
  (`WorkerHasTask`), the type of the number of threads still to be started needs
  `SpawnOwed`, and that the list is not empty when it is popped needs mutual
  exclusion. `LockInv` is the conjunction.
* `TasksAccountedFor`: every task in exactly one place and none lost. `TaskInv`
  joins the two with `LockInv`.
* `StopTakesOne`: the action property on stopping.
* `IdleCounted`: the counter, with lemmas on the cardinality of the set of
  executing workers.
* `NoWakeupLost`: `WakeupsCoverBacklog`. `WakeInv` adds that a worker between the
  predicate and its sleep has seen an empty list (`SleepsOnEmpty`), which holds because it
  still has the lock: its going to sleep cannot take a wakeup from a task. Every
  step moves at most one element between the pending notifications, the workers
  heading for the list and the rest, and the proof counts them.
* `PoolImplementsService`: every step of the pool is a step of `TaskService` or
  leaves its variables alone; that there is room for one more running task follows
  from counting workers (`RoomForOneMore`).
* `FdIndexStaysExact`, `OnlyCloseTakesAway`, `FdPoolImplementsService` for the pool with
  descriptors. `FdInv` adds to the index that each task is in one place: the list of
  iterators of a descriptor is `Keep` of the task list, so that taking the
  first task takes the first iterator of its descriptor (`KeepTail`), and erasing one
  descriptor's tasks leaves the other lists alone (`KeepKeep`, `KeepAgree`).
  The echo server and the file server are composed with `TaskService`, and
  this theorem is what entitles them to it.

**TimerProofs**, for every set of timers, delays and intervals and any number of clock
adjustments; the theorem on the loop speaks of every behaviour of `TimerLoop`:

* `FlagStaysExact`: `FlagMatchesEpoll` of `TimerLoop`, inductive as it stands:
  `UpdateLemma` says what `UpdateChannel` and `DelChannel`, which trust the flag, do to the
  registration.
* `ContainersStayEqual`: `ContainersAgree` speaks of the moments between calls.
  `QueueInv` says for each place inside a call which container lacks which timer
  (`Stored`), which objects exist (`Owned`), that only one thread is in a call
  (`Alone`), that what `GetExpired` has taken out is in no container (`Expired`), and who
  reads the end iterator (`EndRead`). That no assert fails and no deleted timer is used is
  part of it.
* `CallbacksOnTime`: `NeverEarly`. `DueInv` keeps that the timers found expired are due
  as long as the clock was not set; that they are in no container is part of `QueueInv`.
* `EarliestStaysArmed`: `ArmedForEarliest`. `ArmInv` describes the stretch between inserting
  an earliest timer and arming for it, when the timerfd covers all entries but the new one,
  and that `Reset` arms for the least expiration it has read.

**TokenBucketProofs**, for every window, any whole numbers given to `Init` and to `Aquire`,
positive or not, and any time stamps (an empty window only with a positive `max_permits`):

* `RateIsLimited`: types, and for a positive `max_permits` the bounds of the bucket and of the
  rate. The rate is not inductive: `BucketInv` adds `Account`, which relates what has been
  claimed and put back to the stored permits and `next_free_`, and to every call that has passed.
* `PastGivesNothing`: stale time stamps.

**LRUCacheProofs**, for every finite set of keys, every set of values and every capacity but 0 (a negative one is unlimited):

* `ListStaysMatched`: `LRUInv` says that some sequence without duplicates of the created nodes is the one
  the links describe in both directions (`Represents`). `DeleteLemma` and `InsertLemma` show that the
  four assignments of `DeleteNode` and `InsertHead` do to that sequence what they should, at
  the head, at the tail and for a single node; `WalkLemma` that following the next pointers
  meets it in order.
* `CacheImplementsLRU`: the keys along that sequence are the abstract order of use
  (`RecentLemma`); moving a node to the head, a new node, and an eviction are the abstract
  cache's steps (`TouchStep`, `NewRefines`, `EvictRefines`).

**EchoServerProofs**, for every finite set of clients, any names and numbers of requests:

* `QueuedKeepConnection`: types, and a queued answer has the connection it was made for.
  `ServerInv` adds that descriptors of live connections differ (with `FreeDescriptor`: there is
  one for each client), that an event stands for a connection with something to read, and
  where every task is.
* `StraysAlone`: `OnlyStraysEndServer`. `RunningPlaced` says that a running task has the
  connection it was made for, or that this is the one being closed, or that the task is on
  record in `orphans`; between the close and `delCloseFD` nobody has the descriptor. That the
  server lives needs the protocol: `OneRequest` says that a client no stray has hit has at
  most one request on its way, in the stream, in the pool or answered, so that a write to a
  client that is gone is its first one and gives no SIGPIPE, and the body of a client whose
  connection was reset is never waited for.
* `AnswersStayInOrder`: `AnswersInOrder`. `Numbered` and `Counted` tie the one request on its way to
  the client's count. The theorem has the hypothesis `NumbersSurvive`: the codec gives
  back the number that was written, or 0 for a name that is no text. What the
  codec computes is enumerated and not proved; `MCEchoServer` has TLC evaluate the
  hypothesis on its instance, and `SequentialRuns` checks the codec itself
  (`RereadsWhatItWrites`).

**SelectChatProofs**, for every set of clients, any numbers of lines and broadcasts and any
size of the buffer:

* `BroadcastsArrive`: `ChatInv` adds to `BroadcastsReachEveryone` that a client is in the list or in
  the backlog once (`Places`), that nothing is sent to one that is not in the list, and that
  what `select` has reported of standard input is still there.
* `LinesStayInOrder`: `LinesInOrder` is inductive together with `ChatInv`. The lines move from the kernel's
  buffer to that of stdio, into the stream and onto the screen; each move takes a beginning of one
  sequence to the end of the one before it (`RecvLines`, `ClientSendLines`, `TypeLines`).

**SyncFileProofs**, for every finite set of clients, any of which may be killed, any
files, names and sizes, any size of a group and any number of workers:

* `TransfersKeepConnection`: `QueuedTasksHaveConnection`. `BaseInv` holds whatever is killed:
  the types of everything, streams included (`TypeInv`); descriptors of live connections
  differ, a connection is in the backlog or has a descriptor, and an event stands for one
  (`Links`); where a task is (`Places`); and that lengths and names take turns in
  the stream to the server, the one the loop has taken included (`Turns`), without
  which a name could be read for a length and `cmd` would lose its type.
* `TransfersStayInSync`: `StreamInSync`. `SyncInv` describes a transfer as a number of
  pieces that sender and receiver agree on (`Part`, `Total`): the client has taken r of
  them (`Receives`), the task has sent s (`Sends`), and the stream holds the ones between
  (`Between`). A client whose request is not yet a task has nothing coming
  (`Asking`), otherwise at most one task sends to it, and it asks for nothing (`Answered`);
  a task with something left to send has a client (`TasksServe`), because the end of a
  client lies behind its last request (`EndsSeen`): this is what keeps SIGPIPE
  away. None of it survives a kill, so that `SyncInv` speaks of states without one, and, for
  the next theorem, of a client that started after everything of the killed ones was
  gone (`Sound`, `FreshStart`). That the groups make up the file is arithmetic on `Group` and `Groups`
  (`Copied`), by induction along the transfer and not on the file.
* `CopiesAreOriginals`: `CopyEqualsOriginal`. The task reads its name from the loop's variables
  after the loop has gone on, so that the invariant has to say who may write them
  meanwhile. `Last`: nothing of another client comes behind the one that
  is alone, in the backlog, in the ready list or in the loop; ends of earlier clients
  are read before its first request. `OwnFile`: the pieces on their way, `recv`, `cmd` and
  `len` are those of the argument the client is at, as long as some task has still to copy them.

Only model-checked:

* liveness (`AcceptedTaskRuns`, `DestoryReturnsUnlessCaught`, `FdAcceptedTaskRuns`,
  `TimersTakeTurns`, `ExpirationHandled`, `QuitAfterStartEndsLoop`, `EveryRequestAnswered`,
  `ConnectionReleased`, `LinesShown`, `BroadcastsShown`, `EveryClientServed`): the prover has no rules for fairness;
* what `Sorting`, `Puzzles` and `Messages` compute (`Sorted`, `PuzzlesSolved`, `RereadsWhatItWrites`,
  `ConcatenationMerges`): this is induction over data, and recursive operators and folds are
  outside what the provers can unfold; these modules' inputs are enumerated instead.

## 6. Not modelled

Formatting of time stamps and output; the destructors of `TimerQueue` (which runs
at process exit) and of `LRUCache`; fractions of a permit, rounding of doubles, a
negative window, an empty window with an argument that is not positive, and, for a
positive one, the wrap-around of the 64-bit `next_free_` in the limiter; a capacity of 0 in
the cache; the digit 0 in `letterCombinations`; socket buffers that fill up and names longer than the 256 bytes
of `cmd`; pieces of the echo protocol that arrive in parts; failures of `socket`,
`bind`, `listen` and `epoll_wait`, after which the programs end. Of the generated
protobuf code: groups and fixed-width wire types (no message has them), arenas,
ownership and swapping of strings and submessages, reflection and descriptors, and
`UserServiceRpc`, which nothing in the repository calls. `use_heap.cc` prints what the
standard library's heap does. Build files.

## 7. State of the development

The pools, the timers and their loop, the limiter, the cache, file transfer, the echo
server and its messages, the chat, sorting and puzzles are modelled. Every safety
invariant and action property of the state machines is proved, and so are the three
refinements. Open are the liveness properties and what the sorting programs, the puzzles
and the codec compute, which only TLC checks, for the reasons given in section 5.
