----------------------------- MODULE ChatClient -----------------------------
(***************************************************************************)
(* net/Connector.cpp, net/TcpClient.cpp and                                *)
(* apps/chat/clientConsoleVersion/chat_client.cpp: processes that connect  *)
(* to a server, try again while there is none, and send from a second      *)
(* thread the lines typed by the user.                                     *)
(*                                                                         *)
(* A stream carries messages, once and in order, until one of its ends     *)
(* closes it, with what waits in that end's outputBuffer_ counted as on    *)
(* its way (Codec and TcpConnection show how packets are cut and put       *)
(* together again).  A send that meets EAGAIN puts a stray byte in front   *)
(* of its packet: nothing behind it is ever read as what was sent, so a    *)
(* stream with a stray byte takes no more messages here.  Intervals are in *)
(* half seconds.                                                           *)
(***************************************************************************)
EXTENDS Integers, Sequences, FiniteSets

CONSTANTS Clients,            \* client processes
          kMaxRetryInterval,  \* Connector::restart: 60 in the code
          MaxLines,           \* bound: lines typed into each client
          MaxStrays           \* bound: streams that have a stray byte at a time

ASSUME ChatClientAssumption ==
    kMaxRetryInterval \in Nat \ {0} /\ MaxLines \in [Clients -> Nat] /\ MaxStrays \in Nat

VARIABLES
    client,            \* [Clients -> the members of the process's objects]
    listening,         \* external: a server listens
    backlog,           \* external: connections made and not yet accepted
    up, down,          \* external: what is on its way to and from the server
    severed,           \* external: clients whose connection the server's end
                       \* of it has left
    strays,            \* external: the streams, <<"up", c>> or <<"down", c>>,
                       \* that have a stray byte behind their messages
    received           \* history: what OnMessage was given, per client

clientVars == <<client, received>>
network == <<listening, backlog, up, down, severed, strays>>

Closed == <<"closed">>          \* read() returns 0, or fails after a reset

NewClient ==
    [process |-> "new",         \* then "running" and "ended"
     next_retryInterval_ |-> 1, retryTimer |-> FALSE, stop_ |-> FALSE,
     conn |-> "none",           \* the TcpConnection: "kConnected"; "closing"
                                \* after handleClose; "kDisConnected"
     tcpConnectionPtr_ |-> FALSE, m_connection |-> FALSE,
     pendingFuncs_ |-> <<>>,
     latch |-> 1, lines |-> 0,  \* input()
     sending |-> FALSE]         \* ... is past the assert of send()

ClientInit ==
    /\ client = [c \in Clients |-> NewClient]
    /\ listening = FALSE /\ backlog = <<>>
    /\ up = [c \in Clients |-> <<>>] /\ down = [c \in Clients |-> <<>>]
    /\ severed = {} /\ strays = {} /\ received = [c \in Clients |-> <<>>]

Running(c) == client[c].process = "running"

(* A process ends, and its objects with it: its socket is closed, and what  *)
(* is on its way to the server may be lost from any message on, as after a  *)
(* reset or with outputBuffer_, a stray byte last                           *)
Cut(stream, n) == Append(SubSeq(stream, 1, n), Closed)

EndClient(c) ==
    /\ client' = [client EXCEPT ![c] = [NewClient EXCEPT !.process = "ended"]]
    /\ down' = [down EXCEPT ![c] = <<>>]
    /\ IF client[c].conn = "none" THEN UNCHANGED <<up, strays>>
       ELSE \E n \in 0..Len(up[c]) :
               /\ up' = [up EXCEPT ![c] = Cut(up[c], n)]
               /\ \/ strays' = strays \ {<<"up", c>>}
                  \/ n = Len(up[c]) /\ UNCHANGED strays
-----------------------------------------------------------------------------
(* Connector and TcpClient, in the client's loop.  OnRawConnection makes    *)
(* the connection, and ChatClient::OnNewConnection lets the input thread go *)
OnRawConnection(r) ==
    [r EXCEPT !.conn = "kConnected", !.tcpConnectionPtr_ = TRUE,
              !.m_connection = TRUE, !.latch = 0]

(* connect() has failed                                                     *)
Mutant_RetryAfterFailure(r) == r
RetryAfterFailure(r) == [r EXCEPT !.retryTimer = TRUE]

Connector_start(c, r) ==
    IF r.stop_
    THEN client' = [client EXCEPT ![c] = r] /\ UNCHANGED backlog
    ELSE IF listening
    THEN /\ client' = [client EXCEPT ![c] = OnRawConnection(r)]
         /\ backlog' = Append(backlog, c)
    ELSE client' = [client EXCEPT ![c] = RetryAfterFailure(r)] /\ UNCHANGED backlog

Start(c) ==
    /\ client[c].process = "new"
    /\ Connector_start(c, [client[c] EXCEPT !.process = "running"])
    /\ UNCHANGED <<listening, up, down, severed, strays, received>>

NextInterval(i) == IF 2 * i > kMaxRetryInterval THEN kMaxRetryInterval ELSE 2 * i

restart(c) ==
    /\ Running(c) /\ client[c].retryTimer
    /\ Connector_start(c, [client[c] EXCEPT !.retryTimer = FALSE,
            !.next_retryInterval_ = NextInterval(client[c].next_retryInterval_)])
    /\ UNCHANGED <<listening, up, down, severed, strays, received>>

(* Nothing but a program that has a Connector of its own calls this, and it *)
(* has no effect once there is a connection                                 *)
Connector_stop(c) ==
    /\ Running(c) /\ client[c].conn = "none" /\ ~client[c].stop_
    /\ client' = [client EXCEPT ![c].stop_ = TRUE]
    /\ UNCHANGED <<network, received>>
-----------------------------------------------------------------------------
(* input(): a line has been read.  ChatClient::send asserts that there is a *)
(* connection and uses it afterwards; the loop may reset it at any time.    *)
TypeLine(c) ==
    /\ Running(c) /\ client[c].latch = 0
    /\ ~client[c].sending /\ client[c].lines < MaxLines[c]
    /\ IF client[c].m_connection
       THEN /\ client' = [client EXCEPT ![c].sending = TRUE,
                                        ![c].lines = client[c].lines + 1]
            /\ UNCHANGED <<up, down, strays>>
       ELSE EndClient(c)
    /\ UNCHANGED <<listening, backlog, severed, received>>

(* ProtobufCodec::send and TcpConnection::send, in the input thread         *)
SendLine(c) ==
    /\ Running(c) /\ client[c].sending
    /\ IF client[c].m_connection
       THEN /\ client' = [client EXCEPT ![c].sending = FALSE,
                  ![c].pendingFuncs_ = Append(client[c].pendingFuncs_,
                                              <<"send", <<c, client[c].lines>>>>)]
            /\ UNCHANGED <<up, down, strays>>
       ELSE EndClient(c)
    /\ UNCHANGED <<listening, backlog, severed, received>>

Mutant_PopFunctor(c) == [client[c] EXCEPT !.pendingFuncs_ = <<>>]
PopFunctor(c) == [client[c] EXCEPT !.pendingFuncs_ = Tail(client[c].pendingFuncs_)]

(* Any of these streams may be sent to on EAGAIN: nWrote is -1, and the     *)
(* byte in front of the packet is queued with it                            *)
WithStrays(streams) ==
    {s \in SUBSET (strays \cup streams) : strays \subseteq s /\ Cardinality(s) <= MaxStrays}

(* sendInLoop writes while state_ is kConnected, and queues what write()    *)
(* leaves.  When the other end has gone, write() drops the message; or it   *)
(* fails, or leaves a part of it for a channel that handleClose has         *)
(* disabled (the assert of Poller.cpp:76), and that ends the process.       *)
RunSendFunctor(c) ==
    /\ Running(c) /\ client[c].pendingFuncs_ # <<>>
    /\ Head(client[c].pendingFuncs_)[1] = "send"
    /\ \/ /\ client' = [client EXCEPT ![c] = PopFunctor(c)]
          /\ IF client[c].conn = "kDisConnected" \/ c \in severed THEN UNCHANGED <<up, strays>>
             ELSE /\ strays' \in WithStrays({<<"up", c>>})
                  /\ up' = IF <<"up", c>> \in strays' THEN up
                           ELSE [up EXCEPT ![c] = Append(up[c], Head(client[c].pendingFuncs_)[2])]
          /\ UNCHANGED down
       \/ /\ client[c].conn # "kDisConnected" /\ c \in severed
          /\ EndClient(c)
    /\ UNCHANGED <<listening, backlog, severed, received>>

(* destoryedConnection with ChatClient::OnDisConnection                     *)
RunDestroyFunctor(c) ==
    /\ Running(c) /\ client[c].pendingFuncs_ # <<>>
    /\ Head(client[c].pendingFuncs_)[1] = "destroy"
    /\ client' = [client EXCEPT
          ![c] = [PopFunctor(c) EXCEPT !.conn = "kDisConnected", !.m_connection = FALSE]]
    /\ UNCHANGED <<network, received>>

(* handleRead: OnMessage, or handleClose with TcpClient::removeConnection   *)
ClientRead(c) ==
    /\ Running(c) /\ client[c].conn = "kConnected" /\ down[c] # <<>>
    /\ down' = [down EXCEPT ![c] = Tail(down[c])]
    /\ IF Head(down[c]) = Closed
       THEN /\ client' = [client EXCEPT ![c].conn = "closing",
                  ![c].tcpConnectionPtr_ = FALSE,
                  ![c].pendingFuncs_ = Append(client[c].pendingFuncs_, <<"destroy">>)]
            /\ UNCHANGED received
       ELSE /\ received' = [received EXCEPT ![c] = Append(received[c], Head(down[c]))]
            /\ UNCHANGED client
    /\ UNCHANGED <<listening, backlog, up, severed, strays>>

(* ProtobufCodec::OnRawBytes from a stray byte on: the length read is the   *)
(* packet's without its last byte, and a type name is looked up one byte    *)
(* too early.  Nobody has that type, and the process ends on the message    *)
(* that is not there.                                                       *)
Misread(c) ==
    /\ Running(c) /\ client[c].conn = "kConnected"
    /\ <<"down", c>> \in strays /\ down[c] \in {<<>>, <<Closed>>}
    /\ EndClient(c)
    /\ UNCHANGED <<listening, backlog, severed, received>>

Kill(c) ==
    /\ Running(c)
    /\ EndClient(c)
    /\ UNCHANGED <<listening, backlog, severed, received>>

ClientStep(c) ==
    \/ Start(c) \/ restart(c) \/ Connector_stop(c)
    \/ TypeLine(c) \/ SendLine(c)
    \/ RunSendFunctor(c) \/ RunDestroyFunctor(c) \/ ClientRead(c)
    \/ Misread(c) \/ Kill(c)
=============================================================================
