------------------------------- MODULE Poller -------------------------------
(***************************************************************************)
(* net/IOMultiplexer/Poller.cpp (and PollerX.cpp, which replaces the hash  *)
(* map fdMap_ by an array of FdLimit + 1 slots): the vector of pollfd      *)
(* records, the map from fds to channels, and the index of its record that *)
(* every channel remembers.                                                *)
(*                                                                         *)
(* The callers' discipline, taken from TcpConnection: handleClose is the   *)
(* one caller of disableAll, once for a channel; destoryedConnection the   *)
(* one that removes, after handleClose; and only removed channels are      *)
(* destroyed.  A disabled channel may be updated again:                    *)
(* TcpConnection::sendInLoop enables writing after handleClose.            *)
(***************************************************************************)
EXTENDS FdChannel

CONSTANT FdLimit       \* m_maxPollerFd of PollerX

VARIABLES
    fdlist_,           \* vector<pollfd>: records [fd, events]
    fdMap_             \* unordered_map<int, FdChannel*>

vars == <<channels, fdlist_, fdMap_>>

Init == ChannelsInit /\ fdlist_ = <<>> /\ fdMap_ = <<>>

Registered == Range(fdMap_)
Masked(fd) == -fd - 1
Slot(c) == fdlist_[index_[c] + 1]
IndexInRange(c) == index_[c] >= 0 /\ index_[c] < Len(fdlist_)
SlotIs(c, fd) == IndexInRange(c) /\ Slot(c).fd = fd
Disabled(c) == c \in Registered /\ SlotIs(c, Masked(FdOf[c]))

-----------------------------------------------------------------------------
Construct(c) == ConstructFdChannel(c) /\ UNCHANGED <<fdlist_, fdMap_>>

Destroy(c) ==
    /\ c \notin Registered
    /\ DestroyFdChannel(c)
    /\ UNCHANGED <<fdlist_, fdMap_>>

(* PollerX only: the array has room for fds up to the limit                 *)
Mutant_WithinLimit(c) == FdOf[c] < FdLimit
WithinLimit(c) == FdOf[c] <= FdLimit

(* updateFdChannel: a new record at the back, or new events in the record   *)
(* the channel's index points at.  In the masked record of a disabled       *)
(* channel the assert does not find the fd.                                 *)
updateFdChannel(c, ev) ==
    IF FdOf[c] \notin DOMAIN fdMap_
    THEN /\ index_' = [index_ EXCEPT ![c] = Len(fdlist_)]
         /\ fdMap_' = [fd \in DOMAIN fdMap_ \cup {FdOf[c]} |->
                         IF fd = FdOf[c] THEN c ELSE fdMap_[fd]]
         /\ fdlist_' = Append(fdlist_, [fd |-> FdOf[c], events |-> ev])
         /\ assert(WithinLimit(c))
    ELSE /\ assert(SlotIs(c, FdOf[c]))
         /\ fdlist_' = IF SlotIs(c, FdOf[c])
                       THEN [fdlist_ EXCEPT ![index_[c] + 1].events = ev]
                       ELSE fdlist_
         /\ UNCHANGED <<index_, fdMap_>>

Update(c, ev) == SetEvents(c, ev) /\ updateFdChannel(c, ev)

(* disableAllEvent: the record's fd becomes negative so that poll(2) skips  *)
(* the record ("only set event = 0 can not mask all event like POLLERR")    *)
MaskedRecord(c) == [Slot(c) EXCEPT !.fd = Masked(FdOf[c])]

disableAllEvent(c) ==
    /\ assert(IndexInRange(c))
    /\ fdlist_' = IF IndexInRange(c)
                  THEN [fdlist_ EXCEPT ![index_[c] + 1] = MaskedRecord(c)]
                  ELSE fdlist_
    /\ UNCHANGED <<index_, fdMap_>>

DisableAll(c) ==
    /\ c \in Registered /\ ~Disabled(c)
    /\ ClearEvents(c)
    /\ disableAllEvent(c)

(* removeFdChannel: the record swaps places with the last one, whose        *)
(* channel learns its new index, and is popped                              *)
BackFd == LET fd == fdlist_[Len(fdlist_)].fd IN IF fd < 0 THEN Masked(fd) ELSE fd

Mutant_IndexAfterSwap(c) == index_
IndexAfterSwap(c) == [index_ EXCEPT ![fdMap_[BackFd]] = index_[c]]

removeFdChannel(c) ==
    LET ok == fdMap_[FdOf[c]] = c /\ SlotIs(c, Masked(FdOf[c]))
        i == index_[c]
        n == Len(fdlist_)
    IN  /\ assert(ok)
        /\ IF ok
           THEN /\ index_' = IndexAfterSwap(c)
                /\ fdlist_' = SubSeq([fdlist_ EXCEPT ![i + 1] = fdlist_[n]],
                                     1, n - 1)
                /\ fdMap_' = [fd \in DOMAIN fdMap_ \ {FdOf[c]} |-> fdMap_[fd]]
           ELSE UNCHANGED <<index_, fdlist_, fdMap_>>

Remove(c) ==
    /\ Disabled(c)
    /\ removeFdChannel(c)
    /\ PollResultIsNone
    /\ UNCHANGED <<open, events_>>

(* external: poll(2) looks at the records whose fd is not negative, and     *)
(* always for errors                                                        *)
DueAt(i, rd) ==
    IF fdlist_[i].fd < 0 THEN {}
    ELSE (fdlist_[i].events \cup {kErrorEvent}) \cap HoldsOn(fdlist_[i].fd, rd)

(* the revents of a ready record                                            *)
Mutant_Revents(i, rd) == fdlist_[i].events
Revents(i, rd) == DueAt(i, rd)

(* fillActiveChannels finds the channel of each ready record R through      *)
(* fdMap_ and hands it its revents (those of other channels are not read)   *)
fillActiveChannels(R, rd) ==
    LET chan(i) == fdMap_[fdlist_[i].fd] IN
    IF \A i \in R : fdlist_[i].fd \in DOMAIN fdMap_
    THEN /\ activeChannels' = {chan(i) : i \in R}
         /\ revents_' = [c \in Channels |->
              IF c \in activeChannels'
              THEN Revents(CHOOSE i \in R : chan(i) = c, rd) ELSE {}]
         /\ UNCHANGED status
    ELSE assert(FALSE) /\ UNCHANGED <<activeChannels, revents_>>

(* poll(): with an infinite timeout it returns when some record is ready    *)
Poll(rd) ==
    LET R == {i \in 1..Len(fdlist_) : DueAt(i, rd) # {}}
    IN  /\ R # {}
        /\ OnlyOpenReady(rd)
        /\ ready' = rd
        /\ fillActiveChannels(R, rd)
        /\ UNCHANGED <<open, events_, index_, fdlist_, fdMap_>>

(* poll(2) fails with EINTR: the error is logged, nothing is active         *)
PollInterrupted ==
    /\ PollResultIsNone
    /\ UNCHANGED <<open, events_, index_, status, fdlist_, fdMap_>>

Next ==
    /\ status = "running"
    /\ \/ \E c \in Channels :
            \/ Construct(c) \/ Destroy(c)
            \/ \E e \in Events : Update(c, events_[c] \cup {e})
            \/ Update(c, events_[c] \ {kWriteEvent})
            \/ DisableAll(c) \/ Remove(c)
       \/ \E rd \in Ready : Poll(rd)
       \/ PollInterrupted

Spec == Init /\ [][Next]_vars
-----------------------------------------------------------------------------
(* The three structures agree after any sequence of insertions, masked      *)
(* records and swap-with-last removals: each registered channel finds its   *)
(* own record at index_, under its fd or the masked fd, with the events it  *)
(* asked for; no record is left over; no two channels share one.            *)
Bookkeeping ==
    /\ Registered \subseteq open
    /\ Len(fdlist_) = Cardinality(DOMAIN fdMap_)
    /\ \A fd \in DOMAIN fdMap_ : FdOf[fdMap_[fd]] = fd
    /\ \A c \in Registered :
         /\ IndexInRange(c)
         /\ Slot(c).fd \in {FdOf[c], Masked(FdOf[c])}
         /\ Slot(c).events = events_[c] \/ Disabled(c)
    /\ \A c, d \in Registered : index_[c] = index_[d] => c = d

(* Poller implements the interface: it reports each ready channel exactly   *)
(* the events that are ready and that the channel cares about, never a      *)
(* disabled or a removed channel, nor a new channel on a reused fd for the  *)
(* old one.                                                                 *)
Interface == INSTANCE IOMultiplexer WITH
    Events <- Conditions,
    registered <- Registered,
    interest <- [c \in Channels |->
                   IF c \in Registered /\ ~Disabled(c) 
                   THEN events_[c] \cup {kErrorEvent} ELSE {}],
    reported <- [c \in Channels |->
                   IF c \in activeChannels THEN revents_[c] ELSE {}]
Refines == Interface!Spec
=============================================================================
