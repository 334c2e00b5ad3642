------------------------------ MODULE ChatRoom ------------------------------
(***************************************************************************)
(* apps/chat/server/chat_server.cpp on top of net/TcpServer.cpp: the room  *)
(* itself, one process with a single loop, together with its clients.      *)
(* Every message received is sent to everybody in m_connections.           *)
(*                                                                         *)
(* The server may end at any time, and be started again.  A connection is  *)
(* named after its client, which connects once in its life.                *)
(***************************************************************************)
EXTENDS ChatClient

(* No client is named like the author of what no client has written         *)
ASSUME GarbledAssumption == \A c \in Clients : <<"garbled", c>> \notin Clients

VARIABLES
    server,    \* "down", "up"; "aborted" if an assert has failed
    conn,      \* [Clients -> the server's TcpConnection], as in ChatClient
    m_connections,
    pendingFuncs_,     \* of the server's loop: connections to be destroyed
    log,       \* history: the messages given to OnMessage
    joined,    \* history: Len(log) when the connection was made, per client
    misread    \* clients whose stream is not parsed any more

serverVars == <<server, conn, m_connections, pendingFuncs_, log, joined, misread>>
vars == <<clientVars, network, serverVars>>

Init ==
    /\ ClientInit
    /\ server = "down" /\ conn = [c \in Clients |-> "none"]
    /\ m_connections = {} /\ pendingFuncs_ = <<>>
    /\ log = <<>> /\ joined = [c \in Clients |-> 0] /\ misread = {}

(* The server's end of connections C goes away, and with it, from any       *)
(* message on, what it has sent, the stray bytes of set s last.  (A stream  *)
(* never holds more than the log.)                                          *)
Leave(C, sent, s) ==
    /\ severed' = severed \cup C
    /\ \E kept \in [C -> 0..(Len(log) + 1)] :
          /\ \A c \in C : kept[c] <= Len(sent[c])
          /\ down' = [c \in Clients |-> IF c \in C THEN Cut(sent[c], kept[c]) ELSE sent[c]]
          /\ strays' \in {t \in SUBSET s :
                 /\ s \ t \subseteq {"down"} \X C
                 /\ \A c \in C : <<"down", c>> \in t => kept[c] = Len(sent[c])}

StartServer ==
    /\ server = "down"
    /\ server' = "up" /\ listening' = TRUE
    /\ UNCHANGED <<clientVars, backlog, up, down, severed, strays, conn, m_connections,
                   pendingFuncs_, log, joined, misread>>

(* The process ends, and with it all of its objects and connections, also   *)
(* those that it has not accepted yet                                       *)
EndServer ==
    /\ server' = "down" /\ listening' = FALSE /\ backlog' = <<>>
    /\ m_connections' = {} /\ pendingFuncs_' = <<>>
    /\ conn' = [c \in Clients |-> "none"]
    /\ UNCHANGED joined

Connected == {c \in Clients : client[c].conn # "none"} \ severed

KillServer ==
    /\ server = "up"
    /\ EndServer
    /\ Leave(Connected, down, strays)
    /\ UNCHANGED <<clientVars, up, log, misread>>
-----------------------------------------------------------------------------
(* Accept, and OnNewConnection                                              *)
OnNewConnection ==
    /\ server = "up" /\ backlog # <<>>
    /\ backlog' = Tail(backlog)
    /\ conn' = [conn EXCEPT ![Head(backlog)] = "kConnected"]
    /\ server' = IF Head(backlog) \in m_connections THEN "aborted" ELSE server
    /\ m_connections' = m_connections \cup {Head(backlog)}
    /\ joined' = [joined EXCEPT ![Head(backlog)] = Len(log)]
    /\ UNCHANGED <<clientVars, listening, up, down, severed, strays, pendingFuncs_, log,
                   misread>>

(* who gets a message that came from sender                                 *)
Mutant_Receivers(sender) == m_connections \ {sender}
Receivers(sender) == m_connections

(* sendInLoop to the connection of a process that has ended: write() may    *)
(* still take the message; or it fails, or leaves a part of it for a        *)
(* channel that is disabled, and that ends the server                       *)
Gone(c) == client[c].process = "ended"

(* m is sent to S, and the streams of set s have a stray byte afterwards    *)
Broadcast(m, S, s) ==
    [c \in Clients |-> IF c \in S /\ <<"down", c>> \notin s THEN Append(down[c], m)
                       ELSE down[c]]

(* OnMessage: all of them are sent to before the next event is handled      *)
OnMessage(sender, m) ==
    LET S == {c \in Receivers(sender) : ~Gone(c)}
    IN  /\ strays' \in WithStrays({"down"} \X S)
        /\ down' = Broadcast(m, S, strays')
        /\ UNCHANGED <<listening, backlog, severed, server, conn, m_connections,
                       pendingFuncs_, joined>>

(* OnMessage does not come to its end: some have been sent to, in the order *)
(* of an unordered set, when the server ends                                *)
OnMessageFails(sender, m) ==
    /\ \E c \in Receivers(sender) : Gone(c)
    /\ EndServer
    /\ \E S \in SUBSET {c \in Receivers(sender) : ~Gone(c)} :
          \E s \in WithStrays({"down"} \X S) : Leave(Connected, Broadcast(m, S, s), s)

ReadMessage(c) ==
    /\ server = "up" /\ conn[c] = "kConnected"
    /\ up[c] # <<>> /\ Head(up[c]) # Closed
    /\ up' = [up EXCEPT ![c] = Tail(up[c])]
    /\ log' = Append(log, Head(up[c]))
    /\ OnMessage(c, Head(up[c])) \/ OnMessageFails(c, Head(up[c]))
    /\ UNCHANGED <<clientVars, misread>>

(* OnRawBytes from a stray byte on, as in ChatClient; when the rest of the  *)
(* packet is still to come, the type name may be what an earlier packet has *)
(* left in the buffer, and a message that nobody has sent is handled.  What *)
(* is read next as a length is too long, and nothing is parsed any more.    *)
Garbled(c) == <<<<"garbled", c>>, 0>>

ReadStray(c) ==
    /\ server = "up" /\ conn[c] = "kConnected" /\ c \notin misread
    /\ <<"up", c>> \in strays /\ up[c] \in {<<>>, <<Closed>>}
    /\ misread' = misread \cup {c}
    /\ \/ EndServer /\ Leave(Connected, down, strays) /\ UNCHANGED log
       \/ /\ log' = Append(log, Garbled(c))
          /\ OnMessage(c, Garbled(c)) \/ OnMessageFails(c, Garbled(c))
    /\ UNCHANGED <<clientVars, up>>

(* handleClose, and removeConnectionInLoop in the same loop                 *)
ReadClose(c) ==
    /\ server = "up" /\ conn[c] = "kConnected"
    /\ up[c] # <<>> /\ Head(up[c]) = Closed
    /\ conn' = [conn EXCEPT ![c] = "closing"]
    /\ pendingFuncs_' = Append(pendingFuncs_, c)
    /\ UNCHANGED <<clientVars, network, server, m_connections, log, joined, misread>>

(* destoryedConnection and OnDisConnection                                  *)
Mutant_Erased(c) == m_connections
Erased(c) == m_connections \ {c}

OnDisConnection ==
    /\ server = "up" /\ pendingFuncs_ # <<>>
    /\ LET c == Head(pendingFuncs_)
       IN  /\ pendingFuncs_' = Tail(pendingFuncs_)
           /\ conn' = [conn EXCEPT ![c] = "kDisConnected"]
           /\ server' = IF c \in m_connections THEN server ELSE "aborted"
           /\ m_connections' = Erased(c)
    /\ UNCHANGED <<clientVars, network, log, joined, misread>>

ServerRead(c) == ReadMessage(c) \/ ReadClose(c)

Next ==
    \/ \E c \in Clients : ClientStep(c) /\ UNCHANGED serverVars
    \/ StartServer \/ KillServer
    \/ OnNewConnection \/ OnDisConnection
    \/ \E c \in Clients : ServerRead(c) \/ ReadStray(c)

(* Both loops go on handling what is there, timers expire, and the input    *)
(* thread finishes its call.  Nobody has to type, to start or to end.       *)
Fairness ==
    /\ WF_vars(OnNewConnection) /\ WF_vars(OnDisConnection)
    /\ \A c \in Clients :
          /\ WF_vars(ServerRead(c))
          /\ WF_vars(restart(c) /\ UNCHANGED serverVars)
          /\ WF_vars(SendLine(c) /\ UNCHANGED serverVars)
          /\ WF_vars((RunSendFunctor(c) \/ RunDestroyFunctor(c)) /\ UNCHANGED serverVars)
          /\ WF_vars(ClientRead(c) /\ UNCHANGED serverVars)

Spec == Init /\ [][Next]_vars /\ Fairness
-----------------------------------------------------------------------------
Messages(stream) ==
    IF stream # <<>> /\ stream[Len(stream)] = Closed
    THEN SubSeq(stream, 1, Len(stream) - 1) ELSE stream

(* Everybody in the room sees the same conversation: what a client has      *)
(* received is a run of the messages in the order in which the server       *)
(* handled them, from the moment it joined and without a gap; what is on    *)
(* its way continues the run, up to the last message while both ends are    *)
(* there and no stray byte is in between; behind one, nothing is received   *)
(* at all.  Lines of one client come in the order in which they were typed. *)
SameConversation ==
    /\ \A c \in Clients :
          LET seen == received[c] \o Messages(down[c])
          IN  /\ joined[c] + Len(seen) <= Len(log)
              /\ seen = SubSeq(log, joined[c] + 1, joined[c] + Len(seen))
              /\ conn[c] = "kConnected" /\ ~Gone(c) /\ <<"down", c>> \notin strays
                   => joined[c] + Len(seen) = Len(log)
    /\ \A i, j \in 1..Len(log) : i < j /\ log[i][1] = log[j][1] => log[i][2] < log[j][2]

(* The list of connections follows the connections, although broadcasts and *)
(* joins come between the close of a connection and OnDisConnection, and no *)
(* assert on it fails.                                                      *)
RosterIsRight ==
    /\ server # "aborted"
    /\ m_connections = {c \in Clients : conn[c] \in {"kConnected", "closing"}}

Breaks(c) == client[c].process = "ended" \/ server = "down"

(* A line handed to a client's loop reaches everybody who is in the room    *)
(* then, unless one of the three processes ends or a stray byte comes into  *)
(* one of the two streams.                                                  *)
EveryLineArrives ==
    \A c, d \in Clients : \A n \in 1..MaxLines[c] :
        (/\ {c, d} \subseteq m_connections
         /\ <<"send", <<c, n>>>> \in {client[c].pendingFuncs_[i] : i \in DOMAIN client[c].pendingFuncs_})
          ~> (\/ Breaks(c) \/ Breaks(d)
              \/ <<"up", c>> \in strays \/ <<"down", d>> \in strays
              \/ \E i \in DOMAIN received[d] : received[d][i] = <<c, n>>)

(* A client that was started before the server gets in once there is one.   *)
EveryClientJoins ==
    \A c \in Clients :
        (client[c].process = "running" /\ client[c].conn = "none" /\ server = "up")
          ~> (c \in m_connections \/ Breaks(c) \/ client[c].stop_)
=============================================================================
