------------------------------ MODULE Epoller -------------------------------
(***************************************************************************)
(* net/IOMultiplexer/Epoller.cpp: the map from fds to channels, and the    *)
(* interest list kept by the kernel, which the code updates with           *)
(* epoll_ctl(2) without looking at the result.  index_ is the channel's    *)
(* status.  The callers keep to the discipline described in Poller: they   *)
(* may update a disabled channel, and the kernel then refuses the change.  *)
(***************************************************************************)
EXTENDS FdChannel

CONSTANT InitListSize   \* kDefaultEventListSize

kNew == -1
kAdded == 1
kDeleted == 2

VARIABLES
    fdMap_,
    epollset,          \* external: the kernel's list, fd -> events
    listSize           \* epoll_events_.size()

vars == <<channels, fdMap_, epollset, listSize>>

Init ==
    /\ ChannelsInit
    /\ fdMap_ = <<>>
    /\ epollset = <<>>
    /\ listSize = InitListSize

Registered == Range(fdMap_)
Disabled(c) == c \in Registered /\ index_[c] = kDeleted

Put(f, fd, v) == [x \in DOMAIN f \cup {fd} |-> IF x = fd THEN v ELSE f[x]]
Without(f, fd) == [x \in DOMAIN f \ {fd} |-> f[x]]

(* external: epoll_ctl(2) fails, changing nothing, when it adds a listed fd *)
(* or modifies one that is not listed                                       *)
EPOLL_CTL_ADD(fd, ev) == IF fd \in DOMAIN epollset THEN epollset
                                                   ELSE Put(epollset, fd, ev)
EPOLL_CTL_MOD(fd, ev) == IF fd \in DOMAIN epollset THEN Put(epollset, fd, ev)
                                                   ELSE epollset
EPOLL_CTL_DEL(fd) == Without(epollset, fd)
-----------------------------------------------------------------------------
Construct(c) == ConstructFdChannel(c) /\ UNCHANGED <<fdMap_, epollset, listSize>>

(* close(2) takes the fd off the kernel's list                              *)
Destroy(c) ==
    /\ c \notin Registered
    /\ DestroyFdChannel(c)
    /\ epollset' = EPOLL_CTL_DEL(FdOf[c])
    /\ UNCHANGED <<fdMap_, listSize>>

updateFdChannel(c, ev) ==
    /\ fdMap_' = Put(fdMap_, FdOf[c], c)
    /\ IF FdOf[c] \in DOMAIN fdMap_
       THEN /\ epollset' = EPOLL_CTL_MOD(FdOf[c], ev)
            /\ UNCHANGED index_
       ELSE /\ epollset' = EPOLL_CTL_ADD(FdOf[c], ev)
            /\ index_' = [index_ EXCEPT ![c] = kAdded]
    /\ UNCHANGED <<listSize, status>>

Update(c, ev) == SetEvents(c, ev) /\ updateFdChannel(c, ev)

(* what disableAllEvent leaves in the kernel's list                         *)
Mutant_AfterDisable(c) == EPOLL_CTL_MOD(FdOf[c], {})
AfterDisable(c) == EPOLL_CTL_DEL(FdOf[c])

disableAllEvent(c) ==
    /\ assert(index_[c] = kAdded)
    /\ epollset' = AfterDisable(c)
    /\ index_' = [index_ EXCEPT ![c] = kDeleted]
    /\ UNCHANGED <<fdMap_, listSize>>

DisableAll(c) ==
    /\ c \in Registered /\ ~Disabled(c)
    /\ ClearEvents(c)
    /\ disableAllEvent(c)

removeFdChannel(c) ==
    LET ok == /\ events_[c] = {} /\ index_[c] \in {kAdded, kDeleted}
              /\ FdOf[c] \in DOMAIN fdMap_ /\ fdMap_[FdOf[c]] = c
    IN  /\ assert(ok)
        /\ IF ok
           THEN /\ fdMap_' = Without(fdMap_, FdOf[c])
                /\ epollset' = IF index_[c] = kAdded THEN EPOLL_CTL_DEL(FdOf[c])
                                                     ELSE epollset
                /\ index_' = [index_ EXCEPT ![c] = kNew]
           ELSE UNCHANGED <<fdMap_, epollset, index_>>
        /\ UNCHANGED listSize

Remove(c) ==
    /\ Disabled(c)
    /\ removeFdChannel(c)
    /\ PollResultIsNone
    /\ UNCHANGED <<open, events_>>

(* external: epoll_wait(2) looks at the listed fds, and always for errors   *)
Due(fd, rd) == (epollset[fd] \cup {kErrorEvent}) \cap HoldsOn(fd, rd)

(* the revents of a ready fd                                                *)
Mutant_Revents(fd, rd) == epollset[fd]
Revents(fd, rd) == Due(fd, rd)

(* the reported fds F find their channels through fdMap_                    *)
fillActiveChannels(F, rd) ==
    IF F \subseteq DOMAIN fdMap_ /\ Cardinality(F) <= listSize'
    THEN /\ activeChannels' = {fdMap_[fd] : fd \in F}
         /\ revents_' = [c \in Channels |-> IF c \in activeChannels'
                                            THEN Revents(FdOf[c], rd) ELSE {}]
         /\ UNCHANGED status
    ELSE assert(FALSE) /\ UNCHANGED <<activeChannels, revents_>>

(* The buffer handed to epoll_wait has as many slots as epoll_events_; a    *)
(* full buffer doubles epoll_events_ for the next call.                     *)
GrownList(nready) == IF nready >= listSize THEN 2 * listSize ELSE listSize

(* poll(): the kernel fills the slots with some of the ready fds            *)
Poll(rd, F) ==
    LET R == {fd \in DOMAIN epollset : Due(fd, rd) # {}}
    IN  /\ R # {}
        /\ OnlyOpenReady(rd)
        /\ F \subseteq R
        /\ Cardinality(F) = (IF Cardinality(R) <= listSize THEN Cardinality(R)
                                                           ELSE listSize)
        /\ ready' = rd
        /\ listSize' = GrownList(Cardinality(F))
        /\ fillActiveChannels(F, rd)
        /\ UNCHANGED <<open, events_, index_, fdMap_, epollset>>

(* epoll_wait(2) fails with EINTR: the wrapper Epoll_wait ends the process  *)
PollInterrupted ==
    /\ status' = "exited"
    /\ PollResultIsNone
    /\ UNCHANGED <<open, events_, index_, fdMap_, epollset, listSize>>

Next ==
    /\ status = "running"
    /\ \/ \E c \in Channels :
            \/ Construct(c) \/ Destroy(c)
            \/ \E e \in Events : Update(c, events_[c] \cup {e})
            \/ Update(c, events_[c] \ {kWriteEvent})
            \/ DisableAll(c) \/ Remove(c)
       \/ \E rd \in Ready : \E F \in SUBSET DOMAIN epollset : Poll(rd, F)
       \/ PollInterrupted

Spec == Init /\ [][Next]_vars
-----------------------------------------------------------------------------
(* The kernel's list is what the channels asked for, although no result of  *)
(* epoll_ctl is looked at: exactly the registered channels that are not     *)
(* disabled are listed, each with its own events.                           *)
KernelAgrees ==
    /\ DOMAIN epollset = {FdOf[c] : c \in {d \in Registered : ~Disabled(d)}}
    /\ \A c \in Registered : ~Disabled(c) => epollset[FdOf[c]] = events_[c]

(* Epoller implements the interface that Poller implements.                 *)
Interface == INSTANCE IOMultiplexer WITH
    Events <- Conditions,
    registered <- Registered,
    interest <- [c \in Channels |-> IF c \in Registered /\ ~Disabled(c)
                                    THEN events_[c] \cup {kErrorEvent} ELSE {}],
    reported <- [c \in Channels |->
                   IF c \in activeChannels THEN revents_[c] ELSE {}]
Refines == Interface!Spec
=============================================================================
