------------------------------ MODULE TcpServer ------------------------------
(***************************************************************************)
(* net/TcpServer.cpp with Acceptor, EventLoopPool, EventLoopThread, Thread *)
(* and CountDownLatch: start-up of the I/O threads through two latches,    *)
(* accepting, the choice of a loop, the connections' way through map, loop *)
(* and timer until their fd is closed, and the server's destruction.       *)
(*                                                                         *)
(* Loop 0 is the main loop, loop i that of the i-th thread.  EventLoop,    *)
(* the multiplexers, TimerQueue and what TcpConnection does with bytes are *)
(* as their own modules show: a loop runs its functors in order, handles   *)
(* the events of registered channels and ends after quit().  Connections   *)
(* are named 1, 2, ... as totalCreatedTcpConnections_ counts them.         *)
(***************************************************************************)
EXTENDS Naturals, Sequences, FiniteSets

CONSTANTS ThreadNums,       \* the values setThreadNum() is given
          Fds,              \* descriptors left for connections
          MaxConns          \* bound: connections made by peers

ASSUME TcpServerAssumption ==
    ThreadNums \subseteq Nat /\ IsFiniteSet(ThreadNums) /\ ThreadNums # {}
    /\ IsFiniteSet(Fds) /\ MaxConns \in Nat

VARIABLES
    threadNum_,        \* of the pool
    main,              \* where the main thread is
    asleep,            \* the main thread is inside a latch's cv wait
    thread,            \* where each I/O thread is
    threadLatch,       \* Thread::_countdownlatch
    loopLatch,         \* EventLoopThread::latch_
    EventLoopPtr_,     \* EventLoopThread's pointer is set
    loops_, next_,     \* of the pool
    exit_,             \* quit() was called on an I/O loop
    arrived,           \* connections made by peers
    conn,              \* the connections, by name: [fd, loop, state_]
    tcp_connections_,  \* names in the map
    functors,          \* per loop: <<operation, name>>
    registered,        \* names whose channel is in its loop's multiplexer
    disabled,          \* names whose channel has no events left
    timers,            \* names a check timer holds
    gone               \* names whose peer has closed

startVars == <<asleep, thread, threadLatch, loopLatch, EventLoopPtr_, loops_, exit_>>
connVars == <<conn, tcp_connections_, functors, registered, disabled, timers>>
vars == <<threadNum_, main, startVars, next_, arrived, connVars, gone>>

MaxThreads == CHOOSE n \in ThreadNums : \A m \in ThreadNums : m <= n
IoLoops == 1..threadNum_
Names == DOMAIN conn
Current == Len(loops_) + 1          \* the thread that start() is making
OpenFds == {conn[n].fd : n \in {m \in Names : conn[m].state_ # "freed"}}
-----------------------------------------------------------------------------
Init ==
    /\ threadNum_ \in ThreadNums
    /\ main = "start" /\ asleep = FALSE
    /\ thread = [i \in 1..MaxThreads |-> "none"]
    /\ threadLatch = [i \in 1..MaxThreads |-> 1]
    /\ loopLatch = [i \in 1..MaxThreads |-> 1]
    /\ EventLoopPtr_ = [i \in 1..MaxThreads |-> FALSE]
    /\ exit_ = [i \in 1..MaxThreads |-> FALSE]
    /\ loops_ = <<>> /\ next_ = 0
    /\ arrived = 0 /\ conn = <<>> /\ tcp_connections_ = {}
    /\ functors = [l \in 0..MaxThreads |-> <<>>]
    /\ registered = {} /\ disabled = {} /\ timers = {} /\ gone = {}
-----------------------------------------------------------------------------
(* EventLoopPool::start, EventLoopThread::StartLoop, Thread::start          *)
CreateThread ==
    /\ main = "start" /\ Len(loops_) < threadNum_
    /\ thread' = [thread EXCEPT ![Current] = "startThread"]
    /\ main' = "threadLatch"
    /\ UNCHANGED <<threadNum_, asleep, threadLatch, loopLatch, EventLoopPtr_, loops_,
                   exit_, next_, arrived, connVars, gone>>

(* CountDownLatch::wait                                                     *)
LatchWait(latch) ==
    /\ latch[Current] > 0 /\ ~asleep
    /\ asleep' = TRUE
    /\ UNCHANGED <<threadNum_, main, thread, threadLatch, loopLatch, EventLoopPtr_,
                   loops_, exit_, next_, arrived, connVars, gone>>

WaitForThread ==
    /\ main = "threadLatch" /\ ~asleep
    /\ \/ LatchWait(threadLatch)
       \/ /\ threadLatch[Current] = 0
          /\ main' = "loopLatch"
          /\ UNCHANGED <<threadNum_, startVars, next_, arrived, connVars, gone>>

(* assert(EventLoopPtr_) and loops_.push_back                               *)
Mutant_LoopIsReady == TRUE
LoopIsReady == loopLatch[Current] = 0

WaitForLoop ==
    /\ main = "loopLatch" /\ ~asleep
    /\ \/ ~LoopIsReady /\ LatchWait(loopLatch)
       \/ /\ LoopIsReady
          /\ loops_' = Append(loops_, IF EventLoopPtr_[Current] THEN Current ELSE 0)
          /\ main' = "start"
          /\ UNCHANGED <<threadNum_, asleep, thread, threadLatch, loopLatch,
                         EventLoopPtr_, exit_, next_, arrived, connVars, gone>>

(* TcpServer::start: the pool is started, now listen                        *)
StartListen ==
    /\ main = "start" /\ Len(loops_) = threadNum_
    /\ main' = "looping"
    /\ UNCHANGED <<threadNum_, startVars, next_, arrived, connVars, gone>>

(* CountDownLatch::countdown: at zero the waiting thread is woken           *)
Mutant_StillAsleep(count) == asleep
StillAsleep(count) == asleep /\ count > 0

ThreadCountdown(i) ==
    /\ thread[i] = "startThread"
    /\ threadLatch' = [threadLatch EXCEPT ![i] = 0]
    /\ asleep' = StillAsleep(threadLatch'[i])
    /\ thread' = [thread EXCEPT ![i] = "create"]
    /\ UNCHANGED <<threadNum_, main, loopLatch, EventLoopPtr_, loops_, exit_, next_,
                   arrived, connVars, gone>>

(* EventLoopThread::createEventLoopAndLaunch                                *)
CreateEventLoop(i) ==
    /\ thread[i] = "create"
    /\ EventLoopPtr_' = [EventLoopPtr_ EXCEPT ![i] = TRUE]
    /\ thread' = [thread EXCEPT ![i] = "launch"]
    /\ UNCHANGED <<threadNum_, main, asleep, threadLatch, loopLatch, loops_, exit_,
                   next_, arrived, connVars, gone>>

LaunchLoop(i) ==
    /\ thread[i] = "launch"
    /\ loopLatch' = [loopLatch EXCEPT ![i] = 0]
    /\ asleep' = StillAsleep(loopLatch'[i])
    /\ thread' = [thread EXCEPT ![i] = "looping"]
    /\ UNCHANGED <<threadNum_, main, threadLatch, EventLoopPtr_, loops_, exit_, next_,
                   arrived, connVars, gone>>
-----------------------------------------------------------------------------
Looping(l) == IF l = 0 THEN main = "looping" ELSE thread[l] = "looping" /\ main # "exited"

Pended(fs, l, op, n) == [fs EXCEPT ![l] = Append(@, <<op, n>>)]
Popped(fs, l) == [fs EXCEPT ![l] = Tail(@)]

(* EventLoopPool::getNextLoop                                               *)
NextIndex == IF next_ + 1 >= threadNum_ THEN 0 ELSE next_ + 1
getNextLoop == IF threadNum_ = 0 THEN 0 ELSE loops_[next_ + 1]

(* Acceptor::handleRead and TcpServer::onNewConnection.  runInLoop calls    *)
(* connectionEstablished at once when the main loop is the only one.        *)
OnNewConnection(fd) ==
    LET n == Len(conn) + 1
        l == getNextLoop
    IN  /\ main = "looping" /\ Len(conn) < arrived /\ fd \notin OpenFds
        /\ next_' = IF threadNum_ = 0 THEN next_ ELSE NextIndex
        /\ conn' = Append(conn, [fd |-> fd, loop |-> l,
                                 state_ |-> IF l = 0 THEN "kConnected" ELSE "kConnecting"])
        /\ registered' = IF l = 0 THEN registered \union {n} ELSE registered
        /\ functors' = IF l = 0 THEN functors ELSE Pended(functors, l, "established", n)
        /\ main' = "insert"
        /\ UNCHANGED <<threadNum_, startVars, arrived, tcp_connections_, disabled,
                       timers, gone>>

(* the name under which the connection is kept                              *)
InsertIntoMap ==
    /\ main = "insert"
    /\ tcp_connections_' = tcp_connections_ \union {Len(conn)}
    /\ main' = "looping"
    /\ UNCHANGED <<threadNum_, startVars, next_, arrived, conn, functors, registered,
                   disabled, timers, gone>>

(* Accept4 exits the process when no descriptor is left                     *)
AcceptFails ==
    /\ main = "looping" /\ Len(conn) < arrived /\ Fds \subseteq OpenFds
    /\ main' = "exited"
    /\ UNCHANGED <<threadNum_, startVars, next_, arrived, connVars, gone>>

connectionEstablished(l, n) ==
    /\ conn' = [conn EXCEPT ![n].state_ = "kConnected"]
    /\ registered' = registered \union {n}
    /\ functors' = Popped(functors, l)
    /\ UNCHANGED <<tcp_connections_, disabled, timers>>

(* the functor queues after removeConnectionInLoop                          *)
Mutant_removeConnectionInLoop(fs, n) == fs
removeConnectionInLoop(fs, n) == Pended(fs, conn[n].loop, "destoryed", n)

(* TcpConnection::destoryedConnection: the check timer holds the connection *)
Mutant_ChannelsLeft(n) == registered
ChannelsLeft(n) == registered \ {n}

destoryedConnection(l, n) ==
    /\ conn' = [conn EXCEPT ![n].state_ = "kDisConnected"]
    /\ registered' = ChannelsLeft(n)
    /\ timers' = timers \union {n}
    /\ functors' = Popped(functors, l)
    /\ UNCHANGED <<tcp_connections_, disabled>>

RunFunctor(l) ==
    /\ Looping(l) /\ functors[l] # <<>>
    /\ LET op == Head(functors[l])[1]
           n == Head(functors[l])[2]
       IN  \/ op = "established" /\ connectionEstablished(l, n)
           \/ op = "destoryed" /\ destoryedConnection(l, n)
           \/ /\ op = "remove"
              /\ tcp_connections_' = tcp_connections_ \ {n}
              /\ functors' = removeConnectionInLoop(Popped(functors, l), n)
              /\ UNCHANGED <<conn, registered, disabled, timers>>
    /\ UNCHANGED <<threadNum_, main, startVars, next_, arrived, gone>>

(* TcpConnection::handleClose and TcpServer::removeConnection, whose        *)
(* runInLoop calls removeConnectionInLoop at once in the main thread        *)
HandleClose(n) ==
    LET l == conn[n].loop
    IN  /\ Looping(l) /\ n \in registered \ disabled /\ n \in gone
        /\ disabled' = disabled \union {n}
        /\ IF l = 0
           THEN /\ tcp_connections_' = tcp_connections_ \ {n}
                /\ functors' = removeConnectionInLoop(functors, n)
           ELSE /\ functors' = Pended(functors, 0, "remove", n)
                /\ UNCHANGED tcp_connections_
        /\ UNCHANGED <<threadNum_, main, startVars, next_, arrived, conn, registered,
                       timers, gone>>

(* The check timer has expired and drops the last reference: ~TcpConnection *)
(* and ~FdChannel, which closes the fd.                                     *)
TimerExpires(n) ==
    /\ Looping(conn[n].loop) /\ n \in timers
    /\ timers' = timers \ {n}
    /\ conn' = [conn EXCEPT ![n].state_ = "freed"]
    /\ UNCHANGED <<threadNum_, main, startVars, next_, arrived, tcp_connections_,
                   functors, registered, disabled, gone>>
-----------------------------------------------------------------------------
(* The main loop is ended and the server destroyed: the pool's threads are  *)
(* told to quit and joined one after the other, in order.                   *)
EndOfServer ==
    /\ main = "looping"
    /\ main' = "quit"
    /\ UNCHANGED <<threadNum_, startVars, next_, arrived, connVars, gone>>

Joined == {i \in IoLoops : thread[i] = "ended"}

Mutant_Quitting(i) == exit_
Quitting(i) == [exit_ EXCEPT ![i] = TRUE]

QuitThread ==
    /\ main = "quit" /\ Joined # IoLoops
    /\ exit_' = Quitting(Cardinality(Joined) + 1)
    /\ main' = "join"
    /\ UNCHANGED <<threadNum_, asleep, thread, threadLatch, loopLatch, EventLoopPtr_,
                   loops_, next_, arrived, connVars, gone>>

JoinThread ==
    /\ main = "join" /\ {i \in IoLoops : exit_[i]} \subseteq Joined
    /\ main' = "quit"
    /\ UNCHANGED <<threadNum_, startVars, next_, arrived, connVars, gone>>

(* while(!exit_) ends                                                       *)
LoopEnds(i) ==
    /\ thread[i] = "looping" /\ exit_[i] /\ main # "exited"
    /\ thread' = [thread EXCEPT ![i] = "ended"]
    /\ UNCHANGED <<threadNum_, main, asleep, threadLatch, loopLatch, EventLoopPtr_,
                   loops_, exit_, next_, arrived, connVars, gone>>

(* Then the I/O loops and the map go; what the ended main loop still holds  *)
(* in its functors and timers stays.                                        *)
HeldByMainLoop ==
    {n \in Names : \/ n \in timers /\ conn[n].loop = 0
                   \/ \E i \in DOMAIN functors[0] : functors[0][i][2] = n}

Destroyed ==
    /\ main = "quit" /\ Joined = IoLoops
    /\ main' = "destroyed"
    /\ conn' = [n \in Names |-> IF n \in HeldByMainLoop THEN conn[n]
                                ELSE [conn[n] EXCEPT !.state_ = "freed"]]
    /\ tcp_connections_' = {}
    /\ registered' = {n \in registered : conn[n].loop = 0}
    /\ timers' = {n \in timers : conn[n].loop = 0}
    /\ functors' = [l \in 0..MaxThreads |-> IF l = 0 THEN functors[0] ELSE <<>>]
    /\ UNCHANGED <<threadNum_, startVars, next_, arrived, disabled, gone>>
-----------------------------------------------------------------------------
Ending == main \in {"exited", "quit", "join", "destroyed"}

(* the socket listens since Open_listenfd, before start()                   *)
PeerConnects ==
    /\ ~Ending /\ arrived < MaxConns
    /\ arrived' = arrived + 1
    /\ UNCHANGED <<threadNum_, main, startVars, next_, connVars, gone>>

PeerCloses(n) ==
    /\ n \notin gone
    /\ gone' = gone \union {n}
    /\ UNCHANGED <<threadNum_, main, startVars, next_, arrived, connVars>>

Accept == (\E fd \in Fds : OnNewConnection(fd)) \/ AcceptFails
MainStart == CreateThread \/ WaitForThread \/ WaitForLoop \/ StartListen
MainEnd == QuitThread \/ JoinThread \/ Destroyed
ConnStep(n) == n \in Names /\ (HandleClose(n) \/ TimerExpires(n))
ThreadStep(i) == ThreadCountdown(i) \/ CreateEventLoop(i) \/ LaunchLoop(i) \/ LoopEnds(i)

Next ==
    \/ MainStart \/ Accept \/ InsertIntoMap \/ EndOfServer \/ MainEnd
    \/ \E i \in 1..MaxThreads : ThreadStep(i)
    \/ \E l \in 0..MaxThreads : RunFunctor(l)
    \/ \E n \in 1..MaxConns : ConnStep(n)
    \/ \E n \in Names : PeerCloses(n)
    \/ PeerConnects

(* Threads run, a loop handles its events, functors and timers in every     *)
(* round, and the main thread does what it does without waiting for peers.  *)
Fairness ==
    /\ WF_vars(MainStart) /\ WF_vars(MainEnd) /\ WF_vars(InsertIntoMap) /\ WF_vars(Accept)
    /\ \A i \in 1..MaxThreads : WF_vars(ThreadStep(i))
    /\ \A l \in 0..MaxThreads : WF_vars(RunFunctor(l))
    /\ \A n \in 1..MaxConns : WF_vars(ConnStep(n))

Spec == Init /\ [][Next]_vars /\ Fairness
-----------------------------------------------------------------------------
(* Every loop the pool hands out was made by its thread before: assert in   *)
(* EventLoopThread::StartLoop.                                              *)
LoopsReady ==
    \A i \in DOMAIN loops_ : loops_[i] = i /\ EventLoopPtr_[i] /\ loopLatch[i] = 0

(* As long as there is a server, a registered channel's fd is open and      *)
(* belongs to that connection only, although descriptors are reused: what   *)
(* the multiplexers' asserts need.                                          *)
ChannelsOwnFds ==
    main # "destroyed" => \A n \in registered :
        /\ conn[n].state_ # "freed"
        /\ \A m \in Names \ {n} :
              conn[m].fd = conn[n].fd => conn[m].state_ = "freed"

Pending(n) == \E l \in 0..MaxThreads : \E i \in DOMAIN functors[l] : functors[l][i][2] = n

(* While its channel is registered something keeps a connection alive: the  *)
(* map, a pended functor or the stack of onNewConnection.                   *)
KeptAlive ==
    main # "destroyed" => \A n \in registered :
        n \in tcp_connections_ \/ Pending(n) \/ (main = "insert" /\ n = Len(conn))

(* start() returns: the threads and latches come up.                        *)
StartReturns == <>(main = "looping")

(* A connection whose peer has closed is freed and its fd closed.           *)
EveryCloseFrees ==
    \A n \in 1..MaxConns :
        (n \in gone) ~> (Ending \/ (n \in Names /\ conn[n].state_ = "freed"))

(* The destructor joins all threads.                                        *)
DestructorReturns == (main = "quit") ~> (main = "destroyed")
=============================================================================
