------------------------ MODULE DefaultIOMultiplexer ------------------------
(***************************************************************************)
(* net/IOMultiplexer/DefaultIOMultiplexer.cpp: the environment decides,    *)
(* once and for all, which multiplexer a loop gets.  The tables of the     *)
(* other one do not exist.  The choice of select is left to Selecter: it   *)
(* does not implement the interface.                                       *)
(***************************************************************************)
EXTENDS FdChannel

CONSTANTS FdLimit, InitListSize

ASSUME DefaultIOMultiplexerAssumption ==
    FdLimit \in Nat /\ InitListSize \in Nat \ {0}

VARIABLES
    multiplexer,                        \* "poll" (PollerX too) or "epoll"
    fdMap_, fdlist_, epollset, listSize

vars == <<channels, multiplexer, fdMap_, fdlist_, epollset, listSize>>

P == INSTANCE Poller
E == INSTANCE Epoller

getDefaultIOMultiplexer ==
    \/ /\ multiplexer = "poll" /\ P!Init
       /\ epollset = <<>> /\ listSize = InitListSize
    \/ /\ multiplexer = "epoll" /\ E!Init
       /\ fdlist_ = <<>>

Next ==
    \/ /\ multiplexer = "poll" /\ P!Next
       /\ UNCHANGED <<multiplexer, epollset, listSize>>
    \/ /\ multiplexer = "epoll" /\ E!Next
       /\ UNCHANGED <<multiplexer, fdlist_>>

Spec == getDefaultIOMultiplexer /\ [][Next]_vars
-----------------------------------------------------------------------------
(* The tables agree with the channels after any sequence of insertions,     *)
(* disablings and removals, whichever multiplexer keeps them: Poller's      *)
(* vector, map and indexes, or Epoller's map and the kernel's list.         *)
TablesAgree ==
    /\ multiplexer = "poll" => P!Bookkeeping
    /\ multiplexer = "epoll" => E!KernelAgrees

(* However channels are inserted, updated, disabled, removed and their fds  *)
(* reused: a reported fd never misses its channel, and one assert alone can *)
(* fail, in one way.  Poller's is the one in updateFdChannel, when the      *)
(* channel updated is a disabled one; Epoller does not notice that update   *)
(* (nobody looks at what epoll_ctl returns), but its isNoneEvent() fails    *)
(* when the channel is removed.                                             *)
AbortsOnlyForDisabled ==
    [][status' = "aborted" =>
         \E c \in Channels :
            \/ /\ multiplexer = "poll" /\ P!Disabled(c)
               /\ \E ev \in SUBSET Events : P!Update(c, ev)
            \/ /\ multiplexer = "epoll" /\ E!Disabled(c) /\ events_[c] # {}
               /\ E!Remove(c)]_vars

(* The loop cannot tell them apart: both implement the interface.           *)
registered == Range(fdMap_)
interest == [c \in Channels |->
    IF /\ c \in registered
       /\ IF multiplexer = "poll" THEN ~P!Disabled(c) ELSE ~E!Disabled(c)
    THEN events_[c] \cup {kErrorEvent} ELSE {}]
reported == [c \in Channels |->
    IF c \in activeChannels THEN revents_[c] ELSE {}]
Interface == INSTANCE IOMultiplexer WITH Events <- Conditions
Refines == Interface!Spec
=============================================================================
