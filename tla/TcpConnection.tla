--------------------------- MODULE TcpConnection ----------------------------
(***************************************************************************)
(* net/TcpConnection.cpp with the part of net/TcpServer.cpp that creates   *)
(* and removes a connection: one connection, the loop that owns it, the    *)
(* server's main loop, and other threads that call send() and shutdown().  *)
(* Each loop's functors run in the order pended (FunctorQueue).  With      *)
(* sameLoop the server has no I/O threads and its main loop owns the       *)
(* connection.                                                             *)
(*                                                                         *)
(* A message is two units long; Stray is the unit in front of a message in *)
(* memory.  The input stream is left out: arriving data calls the user's   *)
(* callback.  The user's callbacks call send() and shutdown() in the loop. *)
(***************************************************************************)
EXTENDS Integers, Sequences, SequencesExt

CONSTANTS Threads,     \* threads that hold a TcpConnectionPtr
          MaxSends     \* bound: calls of send()

ASSUME TcpConnectionAssumption == MaxSends \in Nat

VARIABLES
    sameLoop,          \* numThreads is 0; it never changes
    state_,
    channel,           \* of talkChannel_: "new", "on", "disabled", "removed"
    reading, writing,  \* isReadEnabled(), isWriteEnabled()
    outputBuffer_,
    ioQueue,           \* functors pended in the connection's loop
    mainQueue,         \* functors pended in the main loop
    inMap,             \* tcp_connections_ holds the connection
    mainPc,            \* main loop: "accept", "insert" (in onNewConnection), "idle"
    phase,             \* I/O loop: "poll", "events", "callback"
    tail,              \* what is left to do when the callback returns
    revents,           \* events of the connection still to be handled
    checked,           \* threads in shutdown() that have read kConnected
    peer,              \* external: "open", "fin", "reset"
    wire,              \* external: the units the socket has taken
    fin,               \* external: shutdown(SHUT_WR) has been called
    sends,             \* number of calls of send() so far
    accepted,          \* history: the messages sendInLoop took on
    status             \* "running", or what ended the process

vars == <<sameLoop, state_, channel, reading, writing, outputBuffer_, ioQueue, mainQueue,
          inMap, mainPc, phase, tail, revents, checked, peer, wire, fin, sends,
          accepted, status>>

chan == <<channel, reading, writing>>
output == <<outputBuffer_, wire>>
server == <<mainQueue, inMap, mainPc>>
loop == <<phase, tail, revents>>

Units(m) == <<<<m, 1>>, <<m, 2>>>>
Stray == <<0, 0>>

Established == <<"established", 0>>
Destroyed == <<"destroyed", 0>>
ShutdownFunctor == <<"shutdown", 0>>
SendFunctor(m) == <<"send", m>>

Init ==
    /\ sameLoop \in BOOLEAN
    /\ state_ = "kConnecting"
    /\ channel = "new" /\ reading = FALSE /\ writing = FALSE
    /\ outputBuffer_ = <<>> /\ wire = <<>>
    /\ ioQueue = <<>> /\ mainQueue = <<>>
    /\ inMap = FALSE /\ mainPc = "accept"
    /\ phase = "poll" /\ tail = "none" /\ revents = {}
    /\ checked = {}
    /\ peer = "open" /\ fin = FALSE
    /\ sends = 0 /\ accepted = <<>>
    /\ status = "running"

Ends(why) == status' = why
-----------------------------------------------------------------------------
(* TcpServer::onNewConnection, in the main loop: the connection is handed   *)
(* to its loop before it is put into the map                                *)
OnNewConnection ==
    /\ mainPc = "accept"
    /\ mainPc' = "insert"
    /\ IF sameLoop
       THEN /\ state_' = "kConnected" /\ phase' = "callback" /\ tail' = "enableReading"
            /\ UNCHANGED ioQueue
       ELSE /\ ioQueue' = Append(ioQueue, Established)
            /\ UNCHANGED <<state_, phase, tail>>
    /\ UNCHANGED <<chan, output, mainQueue, inMap, revents, checked, peer, fin,
                   sends, accepted, status>>

InsertIntoMap ==
    /\ mainPc = "insert"
    /\ sameLoop => phase = "poll"
    /\ inMap' = TRUE /\ mainPc' = "idle"
    /\ UNCHANGED <<state_, chan, output, ioQueue, mainQueue, loop, checked, peer,
                   fin, sends, accepted, status>>

(* removeConnectionInLoop: erase, and pend the destruction in its loop      *)
Mutant_removeConnectionInLoop == inMap' = FALSE /\ UNCHANGED <<ioQueue, status>>
removeConnectionInLoop ==
    /\ inMap' = FALSE
    /\ ioQueue' = Append(ioQueue, Destroyed)
    /\ status' = IF inMap THEN status ELSE "not_in_map"

(* when the main loop gets to run a functor pended by the connection's loop *)
Mutant_MainLoopIsFree == TRUE
MainLoopIsFree == mainPc = "idle"

RunMainFunctor ==
    /\ mainQueue # <<>>
    /\ MainLoopIsFree
    /\ mainQueue' = Tail(mainQueue)
    /\ removeConnectionInLoop
    /\ UNCHANGED <<state_, chan, output, mainPc, loop, checked, peer, fin, sends,
                   accepted>>
-----------------------------------------------------------------------------
(* enableWriting() while the multiplexer has the channel disabled trips the *)
(* assert of updateFdChannel; on a channel it does not know it registers it *)
enableWriting ==
    /\ writing' = TRUE
    /\ channel' = IF channel \in {"new", "removed"} THEN "on" ELSE channel
    /\ UNCHANGED reading
    /\ IF channel = "disabled" THEN Ends("channel_disabled") ELSE UNCHANGED status

(* what sendInLoop leaves to outputBuffer_ after write() has taken n units  *)
(* of the message; n is -1 for EAGAIN, and the code adds it to nWrote       *)
Remainder(m, n) == IF n < 0 THEN <<Stray>> \o Units(m) ELSE SubSeq(Units(m), n + 1, 2)

(* whether what remains makes sendInLoop register for writing               *)
Mutant_NeedsWriting == FALSE
NeedsWriting == ~writing

(* the message is not even tried while earlier output waits                 *)
Mutant_MayWriteNow == TRUE
MayWriteNow == outputBuffer_ = <<>>

(* a message written at once ends in the user's on_writecomplete_cb_         *)
sendInLoop(m) ==
    IF state_ # "kConnected"
    THEN UNCHANGED <<chan, output, accepted, phase, status>>
    ELSE \/ /\ peer = "reset" /\ MayWriteNow
            /\ Ends("write_error")
            /\ UNCHANGED <<chan, output, accepted, phase>>
         \/ \E n \in IF MayWriteNow THEN {-1, 1, 2} ELSE {0} :
              /\ wire' = wire \o SubSeq(Units(m), 1, n)
              /\ outputBuffer_' = outputBuffer_ \o Remainder(m, n)
              /\ accepted' = Append(accepted, m)
              /\ IF n < 2 /\ NeedsWriting THEN enableWriting
                                          ELSE UNCHANGED <<chan, status>>
              /\ phase' = IF n = 2 THEN "callback" ELSE phase

(* external: shutdown(2) fails on a socket that has been reset, and the     *)
(* wrapper ends the process                                                 *)
Shutdown ==
    /\ fin' = TRUE
    /\ IF peer = "reset" THEN Ends("shutdown_error") ELSE UNCHANGED status

(* shutdownInLoop: only if no output is waiting                             *)
Mutant_shutdownInLoop == Shutdown
shutdownInLoop == IF writing THEN UNCHANGED <<fin, status>> ELSE Shutdown
-----------------------------------------------------------------------------
(* Calls from other threads, which got the connection from its callback.    *)
(* send() reads state_ and pends; a shutdown() between the two would make   *)
(* sendInLoop refuse the message, so nothing is lost by joining them.       *)
SendFromThread(t) ==
    /\ state_ \notin {"kConnecting", "kDisConnecting"}
    /\ sends < MaxSends
    /\ sends' = sends + 1
    /\ ioQueue' = Append(ioQueue, SendFunctor(sends + 1))
    /\ UNCHANGED <<state_, chan, output, server, loop, checked, peer, fin,
                   accepted, status>>

(* shutdown(): the state is read, and set later, without a lock             *)
ShutdownCheck(t) ==
    /\ t \notin checked
    /\ state_ = "kConnected"
    /\ checked' = checked \cup {t}
    /\ UNCHANGED <<state_, chan, output, ioQueue, server, loop, peer, fin, sends,
                   accepted, status>>

ShutdownFromThread(t) ==
    /\ t \in checked
    /\ checked' = checked \ {t}
    /\ state_' = "kDisConnecting"
    /\ ioQueue' = Append(ioQueue, ShutdownFunctor)
    /\ UNCHANGED <<chan, output, server, loop, peer, fin, sends, accepted, status>>

(* The same calls by the user's callbacks, inline                           *)
SendInCallback ==
    /\ phase = "callback"
    /\ state_ # "kDisConnecting"
    /\ sends < MaxSends
    /\ sends' = sends + 1
    /\ sendInLoop(sends + 1)
    /\ UNCHANGED <<state_, ioQueue, server, tail, revents, checked, peer, fin>>

ShutdownInCallback ==
    /\ phase = "callback"
    /\ state_ = "kConnected"
    /\ state_' = "kDisConnecting"
    /\ shutdownInLoop
    /\ UNCHANGED <<chan, output, ioQueue, server, loop, checked, peer, sends, accepted>>
-----------------------------------------------------------------------------
(* The connection's loop                                                    *)
MyLoopIsFree == phase = "poll" /\ (sameLoop => mainPc = "idle")

RunSend ==
    /\ Head(ioQueue)[1] = "send"
    /\ sendInLoop(Head(ioQueue)[2])
    /\ UNCHANGED <<state_, tail, fin>>

RunShutdown ==
    /\ Head(ioQueue) = ShutdownFunctor
    /\ shutdownInLoop
    /\ UNCHANGED <<state_, chan, output, phase, tail, accepted>>

(* connectionEstablished: the user's callback comes before enableReading    *)
connectionEstablished ==
    /\ Head(ioQueue) = Established
    /\ state_' = "kConnected"
    /\ phase' = "callback" /\ tail' = "enableReading"
    /\ UNCHANGED <<chan, output, fin, accepted, status>>

(* destoryedConnection: the user's callback comes before remove             *)
destoryedConnection ==
    /\ Head(ioQueue) = Destroyed
    /\ state_' = "kDisConnected"
    /\ phase' = "callback" /\ tail' = "remove"
    /\ status' = IF state_ \in {"kDisConnecting", "kConnected"} THEN status
                                                                ELSE "bad_state"
    /\ UNCHANGED <<chan, output, fin, accepted>>

RunFunctor ==
    /\ MyLoopIsFree
    /\ ioQueue # <<>>
    /\ ioQueue' = Tail(ioQueue)
    /\ RunSend \/ RunShutdown \/ connectionEstablished \/ destoryedConnection
    /\ UNCHANGED <<server, revents, checked, peer, sends>>

(* poll reports a channel that is on; a peer that has gone is readable      *)
Poll ==
    /\ MyLoopIsFree
    /\ channel = "on"
    /\ revents' \in SUBSET ((IF reading THEN {"read"} ELSE {})
                              \cup (IF writing THEN {"write"} ELSE {})) \ {{}}
    /\ peer # "open" /\ reading => "read" \in revents'
    /\ phase' = "events"
    /\ UNCHANGED <<state_, chan, output, ioQueue, server, tail, checked, peer, fin,
                   sends, accepted, status>>

(* handleRead with data: the user's on_message_cb_                          *)
HandleReadData ==
    /\ phase = "events" /\ "read" \in revents
    /\ peer # "reset"
    /\ revents' = revents \ {"read"}
    /\ phase' = "callback" /\ tail' = "none"
    /\ UNCHANGED <<state_, chan, output, ioQueue, server, checked, peer, fin, sends,
                   accepted, status>>

(* disableAll() leaves the channel disabled                                 *)
Mutant_AfterDisableAll == "on"
AfterDisableAll == "disabled"

(* handleClose and the closeCallback_: TcpServer::removeConnection          *)
HandleClose ==
    /\ phase = "events" /\ "read" \in revents
    /\ peer # "open"
    /\ revents' = revents \ {"read"}
    /\ channel' = AfterDisableAll /\ reading' = FALSE /\ writing' = FALSE
    /\ IF state_ \notin {"kConnected", "kDisConnecting"}
       THEN Ends("bad_state") /\ UNCHANGED <<ioQueue, server>>
       ELSE IF sameLoop
            THEN removeConnectionInLoop /\ UNCHANGED <<mainQueue, mainPc>>
            ELSE /\ mainQueue' = Append(mainQueue, "remove")
                 /\ UNCHANGED <<inMap, mainPc, ioQueue, status>>
    /\ UNCHANGED <<state_, output, phase, tail, checked, peer, fin, sends, accepted>>

(* handleWrite up to on_writecomplete_cb_; after a close in the same        *)
(* handleEvents it returns at once                                          *)
HandleWrite ==
    /\ phase = "events" /\ revents = {"write"}
    /\ revents' = {}
    /\ \/ /\ ~writing
          /\ UNCHANGED <<writing, output, phase, tail, status>>
       \/ /\ writing /\ peer = "reset"
          /\ Ends("write_error")
          /\ UNCHANGED <<writing, output, phase, tail>>
       \/ /\ writing
          /\ \E n \in 0..Len(outputBuffer_) :
               /\ wire' = wire \o SubSeq(outputBuffer_, 1, n)
               /\ outputBuffer_' = SubSeq(outputBuffer_, n + 1, Len(outputBuffer_))
               /\ writing' = (n < Len(outputBuffer_))
               /\ IF writing' THEN UNCHANGED <<phase, tail>>
                              ELSE phase' = "callback" /\ tail' = "drained"
          /\ UNCHANGED status
    /\ UNCHANGED <<state_, channel, reading, ioQueue, server, checked, peer, fin, sends,
                   accepted>>

EndOfEvents ==
    /\ phase = "events" /\ revents = {}
    /\ phase' = "poll"
    /\ UNCHANGED <<state_, chan, output, ioQueue, server, tail, revents, checked,
                   peer, fin, sends, accepted, status>>

(* The user's callback returns: connectionEstablished goes on to            *)
(* enableReading, destoryedConnection to remove, handleWrite to a shutdown  *)
(* that depends on the state                                                *)
ThenEnableReading ==
    /\ tail = "enableReading"
    /\ channel' = "on" /\ reading' = TRUE
    /\ phase' = "poll"
    /\ UNCHANGED <<fin, status>>

ThenRemove ==
    /\ tail = "remove"
    /\ channel' = "removed"
    /\ IF channel = "disabled" THEN UNCHANGED status ELSE Ends("bad_remove")
    /\ phase' = "poll"
    /\ UNCHANGED <<reading, fin>>

FinAfterDrain == state_ = "kDisConnected"

ThenHandleEvents ==
    /\ tail \in {"none", "drained"}
    /\ IF tail = "drained" /\ FinAfterDrain THEN shutdownInLoop
                                            ELSE UNCHANGED <<fin, status>>
    /\ phase' = "events"
    /\ UNCHANGED <<channel, reading>>

CallbackReturns ==
    /\ phase = "callback"
    /\ ThenEnableReading \/ ThenRemove \/ ThenHandleEvents
    /\ tail' = "none"
    /\ UNCHANGED <<state_, writing, output, ioQueue, server, revents, checked, peer,
                   sends, accepted>>

PeerLeaves(how) ==
    /\ mainPc # "accept"
    /\ peer = "open" \/ (peer = "fin" /\ how = "reset")
    /\ peer' = how
    /\ UNCHANGED <<state_, chan, output, ioQueue, server, loop, checked, fin, sends,
                   accepted, status>>

LoopStep == RunFunctor \/ HandleClose \/ HandleWrite \/ EndOfEvents \/ CallbackReturns
ServerStep == OnNewConnection \/ InsertIntoMap \/ RunMainFunctor

Next ==
    /\ status = "running"
    /\ UNCHANGED sameLoop
    /\ \/ ServerStep \/ LoopStep \/ Poll \/ HandleReadData
       \/ SendInCallback \/ ShutdownInCallback
       \/ \E t \in Threads :
            SendFromThread(t) \/ ShutdownCheck(t) \/ ShutdownFromThread(t)
       \/ \E how \in {"fin", "reset"} : PeerLeaves(how)

Spec == Init /\ [][Next]_vars

(* Both loops are scheduled and callbacks return; poll() must return once   *)
(* the peer has gone, and handleRead then reads to the end of the stream.   *)
Running(A) == status = "running" /\ UNCHANGED sameLoop /\ A

FairSpec ==
    /\ Spec
    /\ WF_vars(Running(ServerStep))
    /\ WF_vars(Running(LoopStep))
    /\ WF_vars(Running(peer # "open" /\ Poll))
    /\ SF_vars(Running(HandleClose))
-----------------------------------------------------------------------------
(* While the connection is up its channel waits for writability exactly     *)
(* when output is waiting: no output is forgotten, no empty output makes    *)
(* the loop spin, however sends in the loop, pended sends and write events  *)
(* mix.                                                                     *)
WritingIffOutput ==
    status = "running" /\ channel # "disabled" /\ channel # "removed" =>
        (writing <=> outputBuffer_ # <<>>)

(* What the socket took and what waits in outputBuffer_ are the accepted    *)
(* messages, each of them once, whole and in order, apart from stray units: *)
(* no unit is missing and each comes after those accepted before it.        *)
Precedes(a, u, v) ==
    \E i, j \in DOMAIN a :
       u[1] = a[i] /\ v[1] = a[j] /\ (i < j \/ (i = j /\ u[2] < v[2]))

Carries(s, a) ==
    /\ IsInjective(a)
    /\ Range(s) \ {Stray} = UNION {Range(Units(m)) : m \in Range(a)}
    /\ \A k, l \in DOMAIN s :
         k < l /\ Stray \notin {s[k], s[l]} => Precedes(a, s[k], s[l])

InOrder == Carries(wire \o outputBuffer_, accepted)

(* The asserts on the life of a connection hold: it is in the map when it   *)
(* is removed, it is closed and destroyed once and in a live state, and its *)
(* channel has been disabled before it is removed.                          *)
LifecycleAsserts == status \notin {"not_in_map", "bad_state", "bad_remove"}

(* While the connection is up no FIN is sent in front of output that was    *)
(* accepted before.                                                         *)
FinAfterOutput ==
    [][fin' /\ ~fin => outputBuffer_ = <<>> \/ channel \in {"disabled", "removed"}]_vars

(* The assert of updateFdChannel holds: nobody enables a disabled channel.  *)
ChannelAsserts == status # "channel_disabled"

(* "if the state_ is kDisConnecting, the actual shutdown is called after    *)
(* all the data is sent": once shutdown() has done its part and no output   *)
(* waits, the FIN has been sent.                                            *)
FinWhenDrained ==
    status = "running" /\ phase = "poll" /\ state_ = "kDisConnecting"
        /\ channel = "on" /\ outputBuffer_ = <<>> /\ ioQueue = <<>>
        => fin

(* A connection whose peer has gone is taken out of the map and its channel *)
(* out of the multiplexer, unless the process ends.                         *)
CloseCompletes ==
    peer # "open" ~> (channel = "removed" /\ ~inMap) \/ status # "running"
=============================================================================
