------------------------------ MODULE Selecter ------------------------------
(***************************************************************************)
(* net/IOMultiplexer/Selecter.cpp: the map from fds to channels and the    *)
(* two fd_sets given to select(2).  index_ is the channel's status.  The   *)
(* callers keep to the discipline described in Poller; here an update puts *)
(* a disabled channel back into the sets, and a second handleClose may     *)
(* disable it again.                                                       *)
(***************************************************************************)
EXTENDS FdChannel

kNew == -1
kAdded == 1
kDeleted == 2

VARIABLES
    fdMap_,
    readset_, writeset_,  \* fd_sets
    maxfdsofar_,
    closing               \* history: channels that disableAll was called for

vars == <<channels, fdMap_, readset_, writeset_, maxfdsofar_, closing>>

Init ==
    /\ ChannelsInit
    /\ fdMap_ = <<>>
    /\ readset_ = {} /\ writeset_ = {}
    /\ maxfdsofar_ = 0
    /\ closing = {}

Registered == Range(fdMap_)
-----------------------------------------------------------------------------
Construct(c) ==
    /\ ConstructFdChannel(c)
    /\ UNCHANGED <<fdMap_, readset_, writeset_, maxfdsofar_, closing>>

Destroy(c) ==
    /\ c \notin Registered
    /\ DestroyFdChannel(c)
    /\ closing' = closing \ {c}
    /\ UNCHANGED <<fdMap_, readset_, writeset_, maxfdsofar_>>

(* an fd is put into the sets of the enabled events; it is never taken out  *)
(* of the set of an event that is no longer enabled                         *)
FdSet(set, c, enabled) == IF enabled THEN set \cup {FdOf[c]} ELSE set

updateFdChannel(c, ev) ==
    LET known == FdOf[c] \in DOMAIN fdMap_ IN
    /\ assert(IF known THEN index_[c] \in {kAdded, kDeleted} /\ fdMap_[FdOf[c]] = c
                       ELSE index_[c] = kNew)
    /\ fdMap_' = IF known THEN fdMap_
                 ELSE [fd \in DOMAIN fdMap_ \cup {FdOf[c]} |->
                         IF fd = FdOf[c] THEN c ELSE fdMap_[fd]]
    /\ readset_' = FdSet(readset_, c, kReadEvent \in ev)
    /\ writeset_' = FdSet(writeset_, c, kWriteEvent \in ev)
    /\ maxfdsofar_' = IF FdOf[c] > maxfdsofar_ THEN FdOf[c] ELSE maxfdsofar_
    /\ index_' = [index_ EXCEPT ![c] = kAdded]
    /\ UNCHANGED closing

Update(c, ev) == SetEvents(c, ev) /\ updateFdChannel(c, ev)

(* what disableAllEvent leaves of a set                                     *)
FdClr(set, c) == set \ {FdOf[c]}

disableAllEvent(c) ==
    /\ assert(FdOf[c] \in DOMAIN fdMap_ /\ fdMap_[FdOf[c]] = c)
    /\ readset_' = FdClr(readset_, c)
    /\ writeset_' = FdClr(writeset_, c)
    /\ index_' = [index_ EXCEPT ![c] = kDeleted]
    /\ UNCHANGED <<fdMap_, maxfdsofar_>>

DisableAll(c) ==
    /\ c \in Registered
    /\ ClearEvents(c)
    /\ closing' = closing \cup {c}
    /\ disableAllEvent(c)

(* the FD_CLRs of removeFdChannel depend on events that are not enabled any *)
(* more ("assert(channel->isNoneEvent())"): they never happen               *)
removeFdChannel(c) ==
    /\ assert(/\ events_[c] = {} /\ index_[c] \in {kAdded, kDeleted}
              /\ FdOf[c] \in DOMAIN fdMap_ /\ fdMap_[FdOf[c]] = c)
    /\ fdMap_' = [fd \in DOMAIN fdMap_ \ {FdOf[c]} |-> fdMap_[fd]]
    /\ index_' = [index_ EXCEPT ![c] = kNew]
    /\ UNCHANGED <<readset_, writeset_, maxfdsofar_>>

Remove(c) ==
    /\ c \in Registered /\ c \in closing
    /\ removeFdChannel(c)
    /\ PollResultIsNone
    /\ UNCHANGED <<open, events_, closing>>

(* external: select(2) reports an fd as readable or as writable; an error   *)
(* makes it both                                                            *)
Selected(set, e, rd) ==
    {fd \in set : fd <= maxfdsofar_ /\ {e, kErrorEvent} \cap HoldsOn(fd, rd) # {}}

(* the second assignment of revents_ overwrites the first                   *)
Revents(readable, writeable, fd) ==
    IF fd \in writeable THEN {kWriteEvent} ELSE {kReadEvent}

(* Copied sets, R and W, that select(2) has reduced: each fd finds its      *)
(* channel through fdMap_.  The scan starts at fd 3.                        *)
fillActiveChannels(R, W) ==
    LET F == {fd \in R \cup W : fd >= 3} IN
    IF F \subseteq DOMAIN fdMap_
    THEN /\ activeChannels' = {fdMap_[fd] : fd \in F}
         /\ revents_' = [c \in Channels |-> IF c \in activeChannels'
                                            THEN Revents(R, W, FdOf[c]) ELSE {}]
         /\ UNCHANGED status
    ELSE assert(FALSE) /\ UNCHANGED <<activeChannels, revents_>>

Poll(rd) ==
    LET R == Selected(readset_, kReadEvent, rd)
        W == Selected(writeset_, kWriteEvent, rd)
    IN  /\ R \cup W # {}
        /\ OnlyOpenReady(rd)
        /\ ready' = rd
        /\ fillActiveChannels(R, W)
        /\ UNCHANGED <<open, events_, index_, fdMap_, readset_, writeset_,
                       maxfdsofar_, closing>>

(* select(2) fails with EINTR: the wrapper Select ends the process          *)
PollInterrupted ==
    /\ status' = "exited"
    /\ PollResultIsNone
    /\ UNCHANGED <<open, events_, index_, fdMap_, readset_, writeset_,
                   maxfdsofar_, closing>>

Next ==
    /\ status = "running"
    /\ \/ \E c \in Channels :
            \/ Construct(c) \/ Destroy(c)
            \/ \E e \in Events : Update(c, events_[c] \cup {e})
            \/ Update(c, events_[c] \ {kWriteEvent})
            \/ DisableAll(c) \/ Remove(c)
       \/ \E rd \in Ready : Poll(rd)
       \/ PollInterrupted

Spec == Init /\ [][Next]_vars
-----------------------------------------------------------------------------
(* A channel is only told of events it cares about at that moment (the      *)
(* header says that disableWriting means "not care on writeable events").   *)
OnlyCaredEvents ==
    \A c \in activeChannels : revents_[c] \subseteq events_[c]
=============================================================================
