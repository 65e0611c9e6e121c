----------------------------- MODULE TimerLoop -----------------------------
(***************************************************************************)
(* TimerEventMgr's event loop (timerfd/timer_loop_mgr.cpp), its channels   *)
(* (timer_channel) and its epoll instance (timer_epoll).  The loop thread  *)
(* is started by the constructor and runs TimerLoop; a user thread calls   *)
(* QuitLoop, Destory and the public operations of the channels.            *)
(*                                                                         *)
(* EPOLLIN and EPOLLPRI are always used together and are one event, "in".  *)
(* What happens inside the read callback of the timer channel is module    *)
(* TimerQueue; here it only reads its descriptor.  Nobody writes to the    *)
(* eventfd of the wakeup channel, so that it is never readable; it can     *)
(* always be written.  epoll and the descriptors are modelled from how the *)
(* code uses them.  The names start with Mgr where TimerQueue has the same *)
(* ones, so that one module can speak of both.                             *)
(***************************************************************************)
EXTENDS Integers, FiniteSets

Channel == {"wakeup", "timer"}
Event == {"in", "out"}

VARIABLES
    quit_,
    mpc,              \* where the loop thread is
    activeChannels_,  \* the active channels it has not handled yet
    events_, revents_, isInEpoll_,   \* members of each channel
    registered,       \* the channels whose descriptor epoll watches
    interest,         \* the events it watches for
    open,             \* the channels whose descriptor is open
    readable,         \* the channels whose descriptor has something to read
    upc               \* where the user thread is in Destory

mlvars == <<mpc, activeChannels_, revents_>>
chvars == <<events_, isInEpoll_, registered, interest>>
mgrvars == <<quit_, mlvars, chvars, open, readable, upc>>

\* The constructors have run: both channels are enabled for reading, and the loop
\* thread exists (timer_loop_mgr.cpp:20-38, timer_queue.cpp:48-55).
MgrInit ==
    /\ quit_ = FALSE
    /\ mpc = "start"
    /\ activeChannels_ = {}
    /\ events_ = [ch \in Channel |-> {"in"}]
    /\ revents_ = [ch \in Channel |-> {}]
    /\ isInEpoll_ = [ch \in Channel |-> TRUE]
    /\ registered = Channel
    /\ interest = [ch \in Channel |-> {"in"}]
    /\ open = Channel
    /\ readable = {}
    /\ upc = "idle"

-----------------------------------------------------------------------------
(* EpollTimer.  epoll_ctl fails, with a message and no other effect, for a
   descriptor that is closed, and for one that is or is not registered when the
   operation needs the opposite. *)

\* Mutant: the flag is not reset.
DelChannelKeepsFlag(ch) ==
    /\ registered' = IF isInEpoll_[ch] THEN registered \ {ch} ELSE registered
    /\ UNCHANGED <<isInEpoll_, interest>>

\* timer_epoll.cpp:54-64.
DelChannel(ch) ==
    /\ registered' = IF isInEpoll_[ch] THEN registered \ {ch} ELSE registered
    /\ isInEpoll_' = [isInEpoll_ EXCEPT ![ch] = FALSE]
    /\ UNCHANGED interest

\* timer_epoll.cpp:38-43.
ModChannel(ch) ==
    /\ interest' = IF ch \in registered
                   THEN [interest EXCEPT ![ch] = events_'[ch]] ELSE interest
    /\ UNCHANGED <<registered, isInEpoll_>>

\* timer_epoll.cpp:45-51: the flag is set whether or not epoll_ctl succeeds.
AddChannel(ch) ==
    /\ IF ch \in open /\ ch \notin registered
       THEN /\ registered' = registered \cup {ch}
            /\ interest' = [interest EXCEPT ![ch] = events_'[ch]]
       ELSE UNCHANGED <<registered, interest>>
    /\ isInEpoll_' = [isInEpoll_ EXCEPT ![ch] = TRUE]

\* timer_epoll.cpp:25-52, with the events the channel has now.
UpdateChannel(ch) ==
    IF isInEpoll_[ch]
    THEN IF events_'[ch] = {} THEN DelChannel(ch) ELSE ModChannel(ch)
    ELSE AddChannel(ch)

-----------------------------------------------------------------------------
(* ChannelTimer, timer_channel.h:35-39 and timer_channel.cpp:50-58. *)

SetEvents(ch, ev) ==
    /\ upc = "idle"
    /\ events_' = [events_ EXCEPT ![ch] = ev]
    /\ UpdateChannel(ch)
    /\ UNCHANGED <<quit_, mlvars, open, readable, upc>>

EnableReading(ch)  == SetEvents(ch, events_[ch] \cup {"in"})
DisableReading(ch) == SetEvents(ch, events_[ch] \ {"in"})
EnableWriting(ch)  == SetEvents(ch, events_[ch] \cup {"out"})
DisableWriting(ch) == SetEvents(ch, events_[ch] \ {"out"})
DisableAll(ch)     == SetEvents(ch, {})

Remove(ch) ==
    /\ upc = "idle"
    /\ DelChannel(ch)
    /\ UNCHANGED <<quit_, mlvars, events_, open, readable, upc>>

-----------------------------------------------------------------------------
(* TimerEventMgr::Destory, timer_loop_mgr.cpp:40-45, and QuitLoop. *)

DestoryDisable ==
    /\ upc = "idle"
    /\ events_' = [events_ EXCEPT !["wakeup"] = {}]
    /\ UpdateChannel("wakeup")
    /\ upc' = "remove"
    /\ UNCHANGED <<quit_, mlvars, open, readable>>

DestoryRemove ==
    /\ upc = "remove"
    /\ DelChannel("wakeup")
    /\ upc' = "close"
    /\ UNCHANGED <<quit_, mlvars, events_, open, readable>>

\* close also takes a descriptor out of every epoll instance.
DestoryClose ==
    /\ upc = "close"
    /\ open' = open \ {"wakeup"}
    /\ registered' = registered \ {"wakeup"}
    /\ upc' = "idle"
    /\ UNCHANGED <<quit_, mlvars, events_, isInEpoll_, interest, readable>>

QuitLoop ==
    /\ upc = "idle"
    /\ quit_' = TRUE
    /\ UNCHANGED <<mlvars, chvars, open, readable, upc>>

-----------------------------------------------------------------------------
(* TimerLoop, timer_loop_mgr.cpp:47-56, on the loop thread. *)

\* Line 49.
StartLoop ==
    /\ mpc = "start"
    /\ quit_' = FALSE
    /\ mpc' = "while"
    /\ UNCHANGED <<activeChannels_, revents_, chvars, open, readable, upc>>

\* Mutant: while (true).
TestQuitNever ==
    /\ mpc = "while"
    /\ mpc' = "wait"
    /\ UNCHANGED <<quit_, activeChannels_, revents_, chvars, open, readable, upc>>

\* Line 50.
TestQuit ==
    /\ mpc = "while"
    /\ mpc' = IF quit_ THEN "done" ELSE "wait"
    /\ UNCHANGED <<quit_, activeChannels_, revents_, chvars, open, readable, upc>>

\* The events epoll has for a channel: watched for, and there.
Ready(ch) ==
    IF ch \notin registered THEN {}
    ELSE {e \in interest[ch] : \/ e = "in" /\ ch \in readable
                               \/ e = "out" /\ ch = "wakeup"}

\* GetActiveChannel and EpollWaitActive, timer_channel.cpp:83-86 and
\* timer_epoll.cpp:67-78: the channels with events, or none after ten seconds.
EpollWaitActive ==
    /\ mpc = "wait"
    /\ activeChannels_' = {ch \in Channel : Ready(ch) # {}}
    /\ revents_' = [ch \in Channel |-> IF Ready(ch) # {} THEN Ready(ch) ELSE revents_[ch]]
    /\ mpc' = "handle"
    /\ UNCHANGED <<quit_, chvars, open, readable, upc>>

\* Mutant: revents_ is compared with all that a channel can report, not tested for EPOLLIN.
HandleEventExact(ch) ==
    /\ mpc = "handle"
    /\ ch \in activeChannels_
    /\ activeChannels_' = activeChannels_ \ {ch}
    /\ readable' = IF revents_[ch] = {"in", "out"} THEN readable \ {ch} ELSE readable
    /\ UNCHANGED <<quit_, mpc, revents_, chvars, open, upc>>

\* HandleEventWithGuard, timer_channel.cpp:45-48 and 60-81: the read callback
\* reads the descriptor.  No channel has another callback.
HandleEvent(ch) ==
    /\ mpc = "handle"
    /\ ch \in activeChannels_
    /\ activeChannels_' = activeChannels_ \ {ch}
    /\ readable' = IF "in" \in revents_[ch] THEN readable \ {ch} ELSE readable
    /\ UNCHANGED <<quit_, mpc, revents_, chvars, open, upc>>

\* Lines 52-55: the end of the loop over the active channels.
AllHandled ==
    /\ mpc = "handle"
    /\ activeChannels_ = {}
    /\ mpc' = "while"
    /\ UNCHANGED <<quit_, activeChannels_, revents_, chvars, open, readable, upc>>

\* The timerfd expires.
TimerExpires ==
    /\ readable' = readable \cup {"timer"}
    /\ UNCHANGED <<quit_, mlvars, chvars, open, upc>>

-----------------------------------------------------------------------------
MgrStep ==
    \/ StartLoop \/ TestQuit \/ EpollWaitActive \/ AllHandled
    \/ \E ch \in Channel : HandleEvent(ch)

UserStep == DestoryRemove \/ DestoryClose

MgrNext ==
    \/ MgrStep \/ UserStep
    \/ QuitLoop \/ DestoryDisable
    \/ \E ch \in Channel : \/ EnableReading(ch) \/ DisableReading(ch)
                           \/ EnableWriting(ch) \/ DisableWriting(ch)
                           \/ DisableAll(ch) \/ Remove(ch)
    \/ TimerExpires

MgrSpec == MgrInit /\ [][MgrNext]_mgrvars

(* The loop thread is scheduled, epoll_wait returns after at most ten seconds,
   callbacks return, and a call of Destory goes on. *)
MgrFairSpec == MgrSpec /\ WF_mgrvars(MgrStep) /\ WF_mgrvars(UserStep)

-----------------------------------------------------------------------------
(* Properties. *)

\* Every variable keeps its type; channels are active only while they are handled.
MgrTypeOK ==
    /\ quit_ \in BOOLEAN
    /\ mpc \in {"start", "while", "wait", "handle", "done"}
    /\ activeChannels_ \subseteq IF mpc = "handle" THEN Channel ELSE {}
    /\ events_ \in [Channel -> SUBSET Event]
    /\ revents_ \in [Channel -> SUBSET Event]
    /\ interest \in [Channel -> SUBSET Event]
    /\ isInEpoll_ \in [Channel -> BOOLEAN]
    /\ registered \subseteq open /\ open \subseteq Channel
    /\ readable \subseteq {"timer"}
    /\ upc \in {"idle", "remove", "close"}

\* A channel's own view of epoll is right as long as its descriptor is open:
\* isInEpoll_ says whether it is registered, and a registered channel is watched
\* for exactly the events in events_, whatever sequence of enable, disable and
\* remove calls led there (UpdateChannel and DelChannel trust the flag).  When
\* Destory closes the wakeup descriptor no registration with a pointer to its channel
\* is left, even though DisableAll ADDS a channel that was not registered
\* (timer_epoll.cpp:45-51).  All variables keep their types.
FlagMatchesEpoll ==
    /\ MgrTypeOK
    /\ \A ch \in open :
         /\ isInEpoll_[ch] <=> ch \in registered
         /\ ch \in registered => interest[ch] = events_[ch]
    /\ upc = "close" => "wakeup" \notin registered

\* A timerfd that is readable and watched is read, unless the loop has ended or
\* the channel is disabled: no expiration is lost between epoll_wait and the
\* handlers.
ExpirationHandled ==
    "timer" \in readable
        ~> \/ "timer" \notin readable
           \/ "timer" \notin registered \/ "in" \notin interest["timer"]
           \/ mpc = "done"

\* Once the loop has started, QuitLoop ends it.  Line 49 undoes a call that comes
\* before the new thread has executed it, which timer_loop_mgr.h:44 does not say.
QuitAfterStartEndsLoop == quit_ /\ mpc # "start" ~> mpc = "done"
=============================================================================
