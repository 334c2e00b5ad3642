----------------------------- MODULE FdChannel ------------------------------
(***************************************************************************)
(* net/FdChannel.{h,cpp}: the channels of one loop as their multiplexer    *)
(* sees them.  Poller, Epoller and Selecter extend this module and add     *)
(* their own tables.  An fd number is used again by a later channel once   *)
(* the earlier channel has closed it.                                      *)
(*                                                                         *)
(* The result of a poll (activeChannels, revents_, ready) is kept until    *)
(* the next operation: the loop has copied it out and no multiplexer looks *)
(* at it again.                                                            *)
(***************************************************************************)
EXTENDS Integers, Sequences, FiniteSets, Functions

CONSTANTS Channels,    \* FdChannel objects, over the life of the loop
          FdOf,        \* fd_ of each channel
          Readiness    \* the sets of conditions that can hold on an fd

kReadEvent == "read"
kWriteEvent == "write"
kErrorEvent == "error"
Events == {kReadEvent, kWriteEvent}
Conditions == Events \cup {kErrorEvent}
Ready == [Channels -> Readiness]

ASSUME FdChannelAssumption ==
    /\ FdOf \in [Channels -> Nat]
    /\ Readiness \subseteq SUBSET Conditions /\ {} \in Readiness

VARIABLES
    open,              \* channels that exist (constructed, fd not closed)
    events_, revents_, index_,
    activeChannels,    \* result of the last poll
    ready,             \* external: what held on the fds at the last poll
    status             \* of the process: "running", "aborted" (an assert
                       \* failed, or a table misses a reported fd), "exited"
                       \* (a wrapper of a system call gave up)

channels == <<open, events_, revents_, index_, activeChannels, ready, status>>

None == [c \in Channels |-> {}]
PollResultIsNone == activeChannels' = {} /\ revents_' = None /\ ready' = None
assert(ok) == status' = IF ok THEN status ELSE "aborted"

ChannelsInit ==
    /\ open = {}
    /\ events_ = None
    /\ revents_ = None
    /\ index_ = [c \in Channels |-> -1]
    /\ activeChannels = {}
    /\ ready = None
    /\ status = "running"

(* the kernel gives out an fd nobody has open                               *)
ConstructFdChannel(c) ==
    /\ c \notin open
    /\ \A d \in open : FdOf[d] # FdOf[c]
    /\ open' = open \cup {c}
    /\ PollResultIsNone
    /\ UNCHANGED <<events_, index_, status>>

(* the destructor closes the fd; the members take the values the next       *)
(* constructor of this object will give them                                *)
DestroyFdChannel(c) ==
    /\ c \in open
    /\ open' = open \ {c}
    /\ events_' = [events_ EXCEPT ![c] = {}]
    /\ index_' = [index_ EXCEPT ![c] = -1]
    /\ PollResultIsNone
    /\ UNCHANGED status

(* registInterestedEvent / unregisterEvent, up to the call of update()      *)
SetEvents(c, ev) ==
    /\ c \in open
    /\ events_' = [events_ EXCEPT ![c] = ev]
    /\ PollResultIsNone
    /\ UNCHANGED open

(* disableAll(), up to the call of disableAllEvent()                        *)
ClearEvents(c) == SetEvents(c, {})

(* external: the conditions rd of the open channels, per fd                 *)
HoldsOn(fd, rd) == UNION {rd[c] : c \in {d \in open : FdOf[d] = fd}}
OnlyOpenReady(rd) == \A c \in Channels \ open : rd[c] = {}
=============================================================================
