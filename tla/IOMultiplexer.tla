--------------------------- MODULE IOMultiplexer ----------------------------
(***************************************************************************)
(* net/IOMultiplexer.h: what the abstract interface behind which select,   *)
(* poll and epoll hide promises to an EventLoop and its FdChannels.  A     *)
(* poll reports some of the channels that have a ready event they care     *)
(* about (epoll may leave some for the next call), and reports for each of *)
(* them exactly the events that are ready and cared about.                 *)
(***************************************************************************)
CONSTANTS Channels,    \* FdChannel objects
          Events,      \* the conditions a multiplexer can report
          Readiness    \* the sets of events that can be ready on an fd

VARIABLES registered,  \* channels known to the multiplexer
          interest,    \* the events each channel cares about
          reported,    \* revents of the active channels, after a poll
          ready        \* what was ready in the kernel, after a poll

Ready == [Channels -> Readiness]

mvars == <<registered, interest, reported, ready>>

None == [c \in Channels |-> {}]
PollResultIsNone == reported' = None /\ ready' = None

Init ==
    /\ registered = {}
    /\ interest = None
    /\ reported = None
    /\ ready = None

Update(c, ev) ==
    /\ registered' = registered \cup {c}
    /\ interest' = [interest EXCEPT ![c] = ev]
    /\ PollResultIsNone

DisableAll(c) ==
    /\ c \in registered
    /\ interest' = [interest EXCEPT ![c] = {}]
    /\ PollResultIsNone
    /\ UNCHANGED registered

Remove(c) ==
    /\ c \in registered
    /\ interest[c] = {}
    /\ registered' = registered \ {c}
    /\ PollResultIsNone
    /\ UNCHANGED interest

Poll ==
    /\ reported' # None
    /\ ready' \in Ready
    /\ \A c \in Channels :
         reported'[c] # {} => /\ c \in registered
                              /\ reported'[c] = ready'[c] \cap interest[c]
    /\ UNCHANGED <<registered, interest>>

Idle ==
    /\ PollResultIsNone
    /\ UNCHANGED <<registered, interest>>

Next ==
    \/ \E c \in Channels :
         \/ \E ev \in SUBSET Events : Update(c, ev)
         \/ DisableAll(c) \/ Remove(c)
    \/ Poll \/ Idle

Spec == Init /\ [][Next]_mvars
=============================================================================
