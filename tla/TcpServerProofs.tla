--------------------------- MODULE TcpServerProofs ---------------------------
(***************************************************************************)
(* Proofs about TcpServer, for any numbers of threads, descriptors and     *)
(* connections: the latches, and the way of a connection from the accept   *)
(* through the map, two functor queues and a timer to its closed fd.       *)
(***************************************************************************)
EXTENDS TcpServer, Integers, SequenceTheorems, FiniteSetTheorems,
        WellFoundedInduction, TLAPS

Operations == {"established", "remove", "destoryed"}
States == {"kConnecting", "kConnected", "kDisConnected", "freed"}
Queues == [0..MaxThreads -> Seq(Operations \X Nat)]
Connection == [fd : Fds, loop : 0..MaxThreads, state_ : States]

TypeOK ==
    /\ threadNum_ \in ThreadNums
    /\ main \in {"start", "threadLatch", "loopLatch", "looping", "insert", "exited",
                 "quit", "join", "destroyed"}
    /\ asleep \in BOOLEAN
    /\ thread \in [1..MaxThreads ->
                     {"none", "startThread", "create", "launch", "looping", "ended"}]
    /\ threadLatch \in [1..MaxThreads -> {0, 1}]
    /\ loopLatch \in [1..MaxThreads -> {0, 1}]
    /\ EventLoopPtr_ \in [1..MaxThreads -> BOOLEAN]
    /\ exit_ \in [1..MaxThreads -> BOOLEAN]
    /\ loops_ \in Seq(0..MaxThreads) /\ next_ \in Nat /\ arrived \in Nat
    /\ conn \in Seq(Connection)
    /\ functors \in Queues

(* Start-up: a latch is counted down after the pointer behind it was set,   *)
(* and round robin stays within the loops that are there.                   *)
StartInv ==
    /\ Len(loops_) <= threadNum_
    /\ main \in {"threadLatch", "loopLatch"} => Len(loops_) < threadNum_
    /\ main \in {"looping", "insert"} => Len(loops_) = threadNum_
    /\ next_ = 0 \/ next_ < threadNum_
    /\ \A i \in 1..MaxThreads :
         thread[i] = "launch" \/ loopLatch[i] = 0 => EventLoopPtr_[i]
    /\ LoopsReady

(* What is true of a connection while an operation on it waits in loop l.   *)
Expected(l, op, n) ==
    /\ n \in Names
    /\ op = "established" => /\ l = conn[n].loop /\ l # 0
                             /\ conn[n].state_ = "kConnecting" /\ n \notin disabled
    /\ op = "remove" => /\ l = 0 /\ conn[n].loop # 0
                        /\ n \in registered /\ n \in disabled
    /\ op = "destoryed" => /\ l = conn[n].loop
                           /\ n \in registered /\ n \in disabled

FunctorsExpected ==
    \A l \in 0..MaxThreads : \A i \in DOMAIN functors[l] :
        Expected(l, functors[l][i][1], functors[l][i][2])

(* No two operations on the same connection wait at a time.                 *)
NoneTwice(fs) ==
    \A k, l \in 0..MaxThreads : \A i \in DOMAIN fs[k], j \in DOMAIN fs[l] :
        fs[k][i][2] = fs[l][j][2] => k = l /\ i = j

OnePending == NoneTwice(functors)

(* The stages of a connection's life.                                       *)
StagesInv ==
    /\ registered \subseteq Names /\ disabled \subseteq Names
    /\ timers \subseteq Names
    /\ main = "insert" => conn # <<>>
    /\ \A n \in registered : conn[n].state_ = "kConnected"
    /\ \A n \in timers : conn[n].state_ = "kDisConnected"
    /\ \A n \in registered \intersect disabled : Pending(n)
    /\ \A n \in Names \ disabled :
         n \in tcp_connections_ \/ (main = "insert" /\ n = Len(conn))
    /\ \A m, n \in Names :
         m # n /\ conn[m].fd = conn[n].fd => "freed" \in {conn[m].state_, conn[n].state_}

IInv ==
    /\ TypeOK /\ StartInv
    /\ main # "destroyed" => FunctorsExpected /\ OnePending /\ StagesInv
-----------------------------------------------------------------------------
(* A finite set of integers has a largest element: among the sets of the    *)
(* elements above each of its elements one is minimal, and it is empty.     *)
LEMMA LargestExists ==
    ASSUME NEW S, IsFiniteSet(S), S \subseteq Int, S # {}
    PROVE  \E n \in S : \A m \in S : m <= n
<1> DEFINE Above(n) == {m \in S : m > n}
           All == {Above(n) : n \in S}
<1>1. IsWellFoundedOn(StrictSubsetOrdering(S), SUBSET S)
  BY FS_FiniteSubsetsOfFinite, FS_StrictSubsetOrderingWellFounded
<1>2. All \subseteq SUBSET S /\ All # {}
  OBVIOUS
<1>3. PICK A \in All : \A B \in All : <<B, A>> \notin StrictSubsetOrdering(S)
  <2> HIDE DEF All
  <2> QED BY <1>1, <1>2, WFMin
<1>4. PICK n \in S : A = Above(n)
  OBVIOUS
<1>5. ASSUME NEW m \in S, m > n PROVE FALSE
  <2>1. \A k \in S : k \in Int
    OBVIOUS
  <2>2. \A k \in S : k > m => k > n
    BY <1>5, <2>1
  <2>3. ~(m > m)
    BY <2>1
  <2>4. Above(m) \subseteq Above(n) /\ m \in Above(n) /\ m \notin Above(m)
    BY <1>5, <2>2, <2>3
  <2>5. <<Above(m), A>> \in StrictSubsetOrdering(S)
    BY <1>4, <2>4 DEF StrictSubsetOrdering
  <2> QED BY <1>3, <2>5
<1> QED BY <1>5

(* The largest number of threads is one of ThreadNums.                      *)
LEMMA MaxThreadsIsLargest ==
    MaxThreads \in ThreadNums /\ MaxThreads \in Nat /\ \A m \in ThreadNums : m <= MaxThreads
<1>1. \E n \in ThreadNums : \A m \in ThreadNums : m <= n
  <2>1. ThreadNums \subseteq Int /\ IsFiniteSet(ThreadNums) /\ ThreadNums # {}
    BY TcpServerAssumption
  <2> QED BY ONLY <2>1, LargestExists
<1>2. MaxThreads \in ThreadNums /\ \A m \in ThreadNums : m <= MaxThreads
  BY <1>1 DEF MaxThreads
<1> QED BY <1>2, TcpServerAssumption

(* The entries of a queue after its first was taken, or one was added.      *)
LEMMA TailEntries ==
    ASSUME NEW S, NEW s \in Seq(S), s # <<>>
    PROVE  /\ Tail(s) \in Seq(S) /\ 1 \in DOMAIN s /\ Head(s) = s[1]
           /\ \A i \in DOMAIN Tail(s) : /\ i # 0 /\ i + 1 \in DOMAIN s /\ i + 1 # 1
                                         /\ Tail(s)[i] = s[i + 1]
           /\ \A i, j \in DOMAIN Tail(s) : i + 1 = j + 1 => i = j
           /\ \A i \in DOMAIN s \ {1} : \E j \in DOMAIN Tail(s) : Tail(s)[j] = s[i]
<1>1. /\ Tail(s) \in Seq(S) /\ Len(s) \in Nat /\ Len(s) > 0 /\ Len(Tail(s)) = Len(s) - 1
      /\ \A i \in 1..Len(Tail(s)) : Tail(s)[i] = s[i + 1]
      /\ DOMAIN s = 1..Len(s) /\ DOMAIN Tail(s) = 1..Len(Tail(s)) /\ Head(s) = s[1]
  BY HeadTailProperties, LenProperties
<1>2. ASSUME NEW i \in DOMAIN s, i # 1
      PROVE  \E j \in DOMAIN Tail(s) : Tail(s)[j] = s[i]
  <2>1. i - 1 \in DOMAIN Tail(s) /\ (i - 1) + 1 = i
    BY <1>1, <1>2
  <2> QED BY <1>1, <2>1
<1> QED BY <1>1, <1>2

LEMMA AppendEntries ==
    ASSUME NEW S, NEW s \in Seq(S), NEW e \in S
    PROVE  /\ Append(s, e) \in Seq(S)
           /\ Len(s) + 1 \in DOMAIN Append(s, e) /\ Append(s, e)[Len(s) + 1] = e
           /\ Len(s) + 1 \notin DOMAIN s
           /\ \A i \in DOMAIN Append(s, e) : i = Len(s) + 1 \/ i \in DOMAIN s
           /\ \A i \in DOMAIN s : i \in DOMAIN Append(s, e) /\ Append(s, e)[i] = s[i]
<1>1. /\ Append(s, e) \in Seq(S) /\ Len(Append(s, e)) = Len(s) + 1
      /\ Append(s, e)[Len(s) + 1] = e /\ \A i \in 1..Len(s) : Append(s, e)[i] = s[i]
      /\ DOMAIN Append(s, e) = 1..(Len(s) + 1) /\ DOMAIN s = 1..Len(s) /\ Len(s) \in Nat
  BY AppendProperties, LenProperties
<1> QED BY <1>1

(* What the steps need to know of both, whatever the loop.                  *)
IsPopped(gs, fs, l) ==
    /\ gs \in Queues /\ 1 \in DOMAIN fs[l] /\ Head(fs[l]) = fs[l][1]
    /\ \A k \in 0..MaxThreads : \A i \in DOMAIN gs[k] :
         \E j \in DOMAIN fs[k] : gs[k][i] = fs[k][j]
    /\ \A k \in 0..MaxThreads : \A i \in DOMAIN fs[k] :
         (k = l /\ i = 1) \/ \E j \in DOMAIN gs[k] : gs[k][j] = fs[k][i]

IsPended(gs, fs, l, op, n) ==
    /\ gs \in Queues /\ \E i \in DOMAIN gs[l] : gs[l][i][1] = op /\ gs[l][i][2] = n
    /\ \A k \in 0..MaxThreads : \A i \in DOMAIN gs[k] :
         \/ k = l /\ gs[k][i][1] = op /\ gs[k][i][2] = n
         \/ i \in DOMAIN fs[k] /\ gs[k][i] = fs[k][i]
    /\ \A k \in 0..MaxThreads : \A i \in DOMAIN fs[k] :
         i \in DOMAIN gs[k] /\ gs[k][i] = fs[k][i]
    /\ \A i, j \in DOMAIN gs[l] \ DOMAIN fs[l] : i = j

(* What taking the first functor of a loop leaves.                          *)
LEMMA PopFacts ==
    ASSUME NEW fs \in Queues, NEW l \in 0..MaxThreads, fs[l] # <<>>
    PROVE  /\ Popped(fs, l) \in Queues /\ 1 \in DOMAIN fs[l] /\ Head(fs[l]) = fs[l][1]
           /\ \A i \in DOMAIN Popped(fs, l)[l] :
                /\ i + 1 \in DOMAIN fs[l] /\ i + 1 # 1
                /\ Popped(fs, l)[l][i] = fs[l][i + 1]
           /\ \A i, j \in DOMAIN Popped(fs, l)[l] : i + 1 = j + 1 => i = j
           /\ \A i \in DOMAIN fs[l] \ {1} :
                \E j \in DOMAIN Popped(fs, l)[l] : Popped(fs, l)[l][j] = fs[l][i]
           /\ \A k \in 0..MaxThreads : k # l => Popped(fs, l)[k] = fs[k]
<1>1. fs[l] \in Seq(Operations \X Nat)
  BY DEF Queues
<1>2. /\ Popped(fs, l)[l] = Tail(fs[l])
      /\ \A k \in 0..MaxThreads : k # l => Popped(fs, l)[k] = fs[k]
  BY DEF Queues, Popped
<1>3. Popped(fs, l) \in Queues
  BY <1>1, TailEntries DEF Queues, Popped
<1>4. /\ 1 \in DOMAIN fs[l] /\ Head(fs[l]) = fs[l][1]
      /\ \A i \in DOMAIN Tail(fs[l]) : /\ i + 1 \in DOMAIN fs[l] /\ i + 1 # 1
                                        /\ Tail(fs[l])[i] = fs[l][i + 1]
      /\ \A i, j \in DOMAIN Tail(fs[l]) : i + 1 = j + 1 => i = j
      /\ \A i \in DOMAIN fs[l] \ {1} : \E j \in DOMAIN Tail(fs[l]) : Tail(fs[l])[j] = fs[l][i]
  BY <1>1, TailEntries, Zenon
<1> QED BY <1>2, <1>3, <1>4

(* What pending a functor adds.                                             *)
LEMMA PendResult ==
    ASSUME NEW fs \in Queues, NEW l \in 0..MaxThreads, NEW op \in Operations, NEW n \in Nat
    PROVE  IsPended(Pended(fs, l, op, n), fs, l, op, n)
<1> DEFINE gs == Pended(fs, l, op, n)
           e == <<op, n>>
           s == fs[l]
           j == Len(s) + 1
<1>1. s \in Seq(Operations \X Nat) /\ e \in Operations \X Nat
  BY DEF Queues
<1>2. gs[l] = Append(s, e) /\ \A k \in 0..MaxThreads : k # l => gs[k] = fs[k]
  BY DEF Queues, Pended
<1>3. gs \in Queues
  BY <1>1, AppendEntries DEF Queues, Pended
<1> HIDE DEF e, s, gs
<1>4. /\ j \in DOMAIN gs[l] /\ gs[l][j] = e
      /\ \A i \in DOMAIN gs[l] : i = j \/ i \in DOMAIN s
      /\ \A i \in DOMAIN s : i \in DOMAIN gs[l] /\ gs[l][i] = s[i]
  BY ONLY <1>1, <1>2, AppendEntries
<1>5. e[1] = op /\ e[2] = n
  BY DEF e
<1> HIDE DEF j
<1>6. ASSUME NEW k \in 0..MaxThreads, NEW i \in DOMAIN gs[k]
      PROVE  \/ k = l /\ gs[k][i][1] = op /\ gs[k][i][2] = n
             \/ i \in DOMAIN fs[k] /\ gs[k][i] = fs[k][i]
  BY <1>2, <1>4, <1>5 DEF s
<1>7. ASSUME NEW k \in 0..MaxThreads, NEW i \in DOMAIN fs[k]
      PROVE  i \in DOMAIN gs[k] /\ gs[k][i] = fs[k][i]
  BY <1>2, <1>4 DEF s
<1>8. \A i, k \in DOMAIN gs[l] \ DOMAIN fs[l] : i = k
  BY <1>4 DEF s
<1>9. \E i \in DOMAIN gs[l] : gs[l][i][1] = op /\ gs[l][i][2] = n
  BY <1>4, <1>5
<1>10. IsPended(gs, fs, l, op, n)
  BY <1>3, <1>6, <1>7, <1>8, <1>9 DEF IsPended
<1> QED BY <1>10 DEF gs

(* Taking one, or pending one for a connection that has none, keeps each    *)
(* connection down to one.                                                  *)
LEMMA PopKeepsOne ==
    ASSUME NEW fs \in Queues, NEW l \in 0..MaxThreads, fs[l] # <<>>, NoneTwice(fs)
    PROVE  /\ NoneTwice(Popped(fs, l))
           /\ \A k \in 0..MaxThreads : \A i \in DOMAIN Popped(fs, l)[k] :
                Popped(fs, l)[k][i][2] # Head(fs[l])[2]
<1> DEFINE gs == Popped(fs, l)
           Was(k, i) == IF k = l THEN i + 1 ELSE i
<1>1. /\ 1 \in DOMAIN fs[l] /\ Head(fs[l]) = fs[l][1]
      /\ \A i \in DOMAIN gs[l] : /\ i + 1 \in DOMAIN fs[l] /\ i + 1 # 1
                                  /\ gs[l][i] = fs[l][i + 1]
      /\ \A i, j \in DOMAIN gs[l] : i + 1 = j + 1 => i = j
      /\ \A k \in 0..MaxThreads : k # l => gs[k] = fs[k]
  BY PopFacts
<1> HIDE DEF gs
<1>2. ASSUME NEW k \in 0..MaxThreads, NEW i \in DOMAIN gs[k]
      PROVE  /\ Was(k, i) \in DOMAIN fs[k] /\ gs[k][i] = fs[k][Was(k, i)]
             /\ k # l \/ Was(k, i) # 1
  BY <1>1
<1>3. ASSUME NEW k \in 0..MaxThreads, NEW i \in DOMAIN gs[k], NEW j \in DOMAIN gs[k],
             Was(k, i) = Was(k, j)
      PROVE  i = j
  <2>1. CASE k = l
    BY ONLY <1>1, <1>3, <2>1, i \in DOMAIN gs[k], j \in DOMAIN gs[k]
  <2> QED BY <1>3, <2>1
<1> HIDE DEF Was
<1>4. NoneTwice(gs)
  BY ONLY NoneTwice(fs), <1>2, <1>3 DEF NoneTwice
<1>5. \A k \in 0..MaxThreads : \A i \in DOMAIN gs[k] : gs[k][i][2] # Head(fs[l])[2]
  BY ONLY NoneTwice(fs), l \in 0..MaxThreads, <1>1, <1>2 DEF NoneTwice
<1> QED BY <1>4, <1>5 DEF gs

LEMMA PendKeepsOne ==
    ASSUME NEW fs \in Queues, NEW l \in 0..MaxThreads, NEW op \in Operations, NEW n \in Nat,
           NoneTwice(fs),
           \A k \in 0..MaxThreads : \A i \in DOMAIN fs[k] : fs[k][i][2] # n
    PROVE  NoneTwice(Pended(fs, l, op, n))
<1> DEFINE gs == Pended(fs, l, op, n)
<1>1. IsPended(gs, fs, l, op, n)
  BY PendResult
<1> HIDE DEF gs
<1>2. ASSUME NEW k \in 0..MaxThreads, NEW i \in DOMAIN gs[k]
      PROVE  \/ k = l /\ i \in DOMAIN gs[l] \ DOMAIN fs[l] /\ gs[k][i][2] = n
             \/ i \in DOMAIN fs[k] /\ gs[k][i] = fs[k][i] /\ fs[k][i][2] # n
  BY <1>1 DEF IsPended
<1>3. \A i, j \in DOMAIN gs[l] \ DOMAIN fs[l] : i = j
  BY <1>1 DEF IsPended
<1>4. NoneTwice(gs)
  BY ONLY NoneTwice(fs), <1>2, <1>3 DEF NoneTwice
<1> QED BY <1>4 DEF gs

LEMMA PopResult ==
    ASSUME NEW fs \in Queues, NEW l \in 0..MaxThreads, fs[l] # <<>>
    PROVE  IsPopped(Popped(fs, l), fs, l)
<1> DEFINE gs == Popped(fs, l)
<1>1. /\ gs \in Queues /\ 1 \in DOMAIN fs[l] /\ Head(fs[l]) = fs[l][1]
      /\ \A i \in DOMAIN gs[l] : i + 1 \in DOMAIN fs[l] /\ gs[l][i] = fs[l][i + 1]
      /\ \A i \in DOMAIN fs[l] \ {1} : \E j \in DOMAIN gs[l] : gs[l][j] = fs[l][i]
      /\ \A k \in 0..MaxThreads : k # l => gs[k] = fs[k]
  BY PopFacts
<1> HIDE DEF gs
<1>2. ASSUME NEW k \in 0..MaxThreads, NEW i \in DOMAIN gs[k]
      PROVE  \E j \in DOMAIN fs[k] : gs[k][i] = fs[k][j]
  BY <1>1
<1>3. ASSUME NEW k \in 0..MaxThreads, NEW i \in DOMAIN fs[k]
      PROVE  (k = l /\ i = 1) \/ \E j \in DOMAIN gs[k] : gs[k][j] = fs[k][i]
  BY <1>1
<1>4. IsPopped(gs, fs, l)
  BY <1>1, <1>2, <1>3 DEF IsPopped
<1> QED BY <1>4 DEF gs

(* What the connections are after one of them has changed its state.        *)
IsMoved(new, n, st) ==
    /\ new \in Seq(Connection) /\ Len(new) = Len(conn) /\ DOMAIN new = DOMAIN conn
    /\ conn # <<>> => new # <<>>
    /\ \A m \in DOMAIN conn :
         /\ new[m].fd = conn[m].fd /\ new[m].loop = conn[m].loop
         /\ IF m = n THEN new[m].state_ = st ELSE new[m] = conn[m]

LEMMA StateFacts ==
    ASSUME conn \in Seq(Connection), NEW n, NEW st \in States
    PROVE  IsMoved([conn EXCEPT ![n].state_ = st], n, st)
<1> DEFINE new == [conn EXCEPT ![n].state_ = st]
<1>1. DOMAIN conn = 1..Len(conn) /\ Len(conn) \in Nat
  BY LenProperties
<1>2. \A m \in DOMAIN conn : conn[m] \in Connection
  BY ElementOfSeq, <1>1
<1>3. \A m \in DOMAIN conn : new[m] = IF m = n THEN [conn[m] EXCEPT !.state_ = st] ELSE conn[m]
  OBVIOUS
<1>4. ASSUME NEW r \in Connection
      PROVE  /\ [r EXCEPT !.state_ = st] \in Connection
             /\ [r EXCEPT !.state_ = st].fd = r.fd /\ [r EXCEPT !.state_ = st].loop = r.loop
             /\ [r EXCEPT !.state_ = st].state_ = st
  BY DEF Connection
<1>5. \A m \in 1..Len(conn) : new[m] \in Connection
  BY <1>1, <1>2, <1>3, <1>4
<1>6. new = [m \in 1..Len(conn) |-> new[m]] /\ DOMAIN new = DOMAIN conn
  BY <1>1
<1>7. new \in Seq(Connection) /\ Len(new) = Len(conn)
  <2> HIDE DEF new
  <2>1. new \in Seq(Connection)
    BY <1>1, <1>5, <1>6, IsASeq
  <2> QED BY <1>1, <1>6, <2>1, LenProperties
<1>8. \A m \in DOMAIN conn :
        /\ new[m].fd = conn[m].fd /\ new[m].loop = conn[m].loop
        /\ IF m = n THEN new[m].state_ = st ELSE new[m] = conn[m]
  BY <1>2, <1>3, <1>4
<1>9. conn # <<>> => new # <<>>
  <2> HIDE DEF new
  <2> QED BY <1>7, EmptySeq
<1>10. IsMoved(new, n, st)
  <2> HIDE DEF new
  <2> QED BY <1>6, <1>7, <1>8, <1>9 DEF IsMoved
<1> QED BY <1>10 DEF new
-----------------------------------------------------------------------------
LEMMA InitInv == Init => IInv
<1> SUFFICES ASSUME Init PROVE IInv
  OBVIOUS
<1>1. TypeOK
  <2>1. conn \in Seq(Connection) /\ loops_ \in Seq(0..MaxThreads) /\ functors \in Queues
    BY DEF Init, Queues
  <2> QED BY <2>1, MaxThreadsIsLargest, TcpServerAssumption DEF Init, TypeOK
<1>2. StartInv
  BY TcpServerAssumption DEF Init, StartInv, LoopsReady
<1>3. \A l \in 0..MaxThreads : DOMAIN functors[l] = {}
  BY DEF Init
<1>4. FunctorsExpected /\ OnePending
  BY <1>3 DEF FunctorsExpected, OnePending, NoneTwice
<1>5. StagesInv
  BY DEF Init, StagesInv, Names
<1> QED BY <1>1, <1>2, <1>4, <1>5 DEF IInv

(* A step changes a loop's queue, or the connection n, the new one or the   *)
(* one of a functor, or the stage of start-up, and leaves the types as they *)
(* are.                                                                     *)
LEMMA TypeStep == IInv /\ [Next]_vars => TypeOK'
<1> SUFFICES ASSUME IInv, [Next]_vars PROVE TypeOK'
  OBVIOUS
<1> USE DEF TypeOK
<1>1. TypeOK /\ StartInv /\ MaxThreads \in Nat /\ threadNum_ \in 0..MaxThreads
  BY MaxThreadsIsLargest, TcpServerAssumption DEF IInv
<1>2. Len(loops_) \in Nat /\ Current \in Nat /\ Len(conn) \in Nat
  BY <1>1, LenProperties DEF Current
<1>3. CASE MainStart
  <2>1. CASE CreateThread
    BY <1>1, <2>1 DEF CreateThread, connVars
  <2>2. CASE WaitForThread
    BY <1>1, <2>2 DEF WaitForThread, LatchWait, connVars, startVars
  <2>3. CASE WaitForLoop
    <3>1. CASE LatchWait(loopLatch)
      BY <1>1, <3>1, <2>3 DEF WaitForLoop, LatchWait, connVars
    <3>2. Len(loops_) < threadNum_ /\ Current \in 0..MaxThreads
      BY <1>1, <1>2, <2>3 DEF StartInv, WaitForLoop, Current
    <3>3. CASE ~LatchWait(loopLatch)
      <4>1. loops_' \in Seq(0..MaxThreads)
        <5>1. \E e \in 0..MaxThreads : loops_' = Append(loops_, e)
          BY <1>1, <2>3, <3>2, <3>3 DEF WaitForLoop
        <5> QED BY <1>1, <5>1, AppendProperties
      <4> QED BY <1>1, <2>3, <3>3, <4>1 DEF WaitForLoop, connVars
    <3> QED BY <3>1, <3>3
  <2>4. CASE StartListen
    BY <1>1, <2>4 DEF StartListen, connVars, startVars
  <2> QED BY <1>3, <2>1, <2>2, <2>3, <2>4 DEF MainStart
<1>4. ASSUME NEW i \in 1..MaxThreads, ThreadStep(i) PROVE TypeOK'
  BY <1>1, <1>4 DEF ThreadStep, ThreadCountdown, CreateEventLoop, LaunchLoop, LoopEnds,
                    StillAsleep, connVars
<1>5. CASE Accept
  <2>1. CASE AcceptFails
    BY <1>1, <2>1 DEF AcceptFails, connVars, startVars
  <2>2. ASSUME NEW fd \in Fds, OnNewConnection(fd) PROVE TypeOK'
    <3> DEFINE l == getNextLoop
               n == Len(conn) + 1
    <3>1. l \in 0..MaxThreads
      BY <1>1, <1>2, <2>2 DEF getNextLoop, OnNewConnection, StartInv, LoopsReady
    <3>2. next_' \in Nat
      BY <1>1, <2>2 DEF OnNewConnection, NextIndex
    <3>3. conn' \in Seq(Connection)
      BY <1>1, <2>2, <3>1 DEF OnNewConnection, Connection, States
    <3>4. functors' \in Queues
      <4>1. n \in Nat /\ "established" \in Operations
        BY <1>2 DEF Operations
      <4>2. Pended(functors, l, "established", n) \in Queues
        BY <1>1, <3>1, <4>1, PendResult DEF IsPended
      <4> QED BY <1>1, <2>2, <4>2 DEF OnNewConnection
    <3> QED BY <1>1, <2>2, <3>2, <3>3, <3>4 DEF OnNewConnection, startVars
  <2> QED BY <1>5, <2>1, <2>2 DEF Accept
<1>6. CASE InsertIntoMap
  BY <1>1, <1>6 DEF InsertIntoMap, startVars
<1>7. CASE EndOfServer
  BY <1>1, <1>7 DEF EndOfServer, startVars, connVars
<1>8. CASE MainEnd
  <2>1. CASE QuitThread \/ JoinThread
    BY <1>1, <2>1 DEF QuitThread, JoinThread, Quitting, connVars, startVars
  <2>2. CASE Destroyed
    <3>1. conn' \in Seq(Connection)
      <4>1. ASSUME NEW n \in 1..Len(conn) PROVE conn'[n] \in Connection
        <5>1. n \in DOMAIN conn /\ conn[n] \in Connection
          BY <1>1, <1>2, ElementOfSeq
        <5>2. conn'[n] = conn[n] \/ conn'[n] = [conn[n] EXCEPT !.state_ = "freed"]
          BY <2>2, <5>1 DEF Destroyed, Names
        <5> QED BY <5>1, <5>2 DEF Connection, States
      <4>2. conn' = [n \in 1..Len(conn) |-> conn'[n]]
        BY <1>1, <1>2, <2>2 DEF Destroyed, Names
      <4> QED BY <1>2, <4>1, <4>2, IsASeq
    <3>2. functors' \in Queues
      BY <1>1, <2>2 DEF Destroyed, Queues
    <3> QED BY <1>1, <2>2, <3>1, <3>2 DEF Destroyed, startVars
  <2> QED BY <1>8, <2>1, <2>2 DEF MainEnd
<1>9. ASSUME NEW l \in 0..MaxThreads, RunFunctor(l) PROVE TypeOK'
  <2> DEFINE op == Head(functors[l])[1]
             n == Head(functors[l])[2]
  <2>1. functors[l] # <<>> /\ Popped(functors, l) \in Queues /\ n \in Nat
    <3>1. functors[l] # <<>>
      BY <1>9 DEF RunFunctor
    <3>2. Head(functors[l]) \in Operations \X Nat
      BY <1>1, <3>1, HeadTailProperties DEF Queues
    <3> QED BY <1>1, <3>1, <3>2, PopFacts
  <2>2. conn' \in Seq(Connection)
    <3>1. \/ conn' = conn
          \/ conn' = [conn EXCEPT ![n].state_ = "kConnected"]
          \/ conn' = [conn EXCEPT ![n].state_ = "kDisConnected"]
      BY <1>9 DEF RunFunctor, connectionEstablished, destoryedConnection
    <3>2. "kConnected" \in States /\ "kDisConnected" \in States
      BY DEF States
    <3> HIDE DEF n
    <3>3. \A st \in States : [conn EXCEPT ![n].state_ = st] \in Seq(Connection)
      BY <1>1, StateFacts DEF IsMoved
    <3> QED BY <1>1, <3>1, <3>2, <3>3
  <2>3. functors' \in Queues
    <3>1. CASE functors' = Popped(functors, l)
      BY <2>1, <3>1
    <3>2. CASE functors' = removeConnectionInLoop(Popped(functors, l), n)
      <4> DEFINE k == conn[n].loop
      <4>1. functors' = Pended(Popped(functors, l), k, "destoryed", n)
        BY <3>2 DEF removeConnectionInLoop
      <4>2. "destoryed" \in Operations
        BY DEF Operations
      <4> HIDE DEF k, n
      <4>3. CASE k \in 0..MaxThreads
        BY <2>1, <4>1, <4>2, <4>3, PendResult DEF IsPended
      <4>4. CASE k \notin 0..MaxThreads
        BY <2>1, <4>1, <4>4 DEF Pended, Queues
      <4> QED BY <4>3, <4>4
    <3> QED BY <1>9, <3>1, <3>2 DEF RunFunctor, connectionEstablished, destoryedConnection
  <2> QED BY <1>1, <1>9, <2>2, <2>3 DEF RunFunctor, startVars
<1>10. ASSUME NEW n \in Names, HandleClose(n) PROVE TypeOK'
  <2>1. n \in Nat /\ "destoryed" \in Operations /\ "remove" \in Operations
    BY <1>1, <1>2, LenProperties DEF Names, Operations
  <2>2. conn[n] \in Connection
    BY <1>1, <1>2, ElementOfSeq, LenProperties DEF Names
  <2>3. conn[n].loop \in 0..MaxThreads /\ 0 \in 0..MaxThreads
    BY <1>1, <2>2 DEF Connection
  <2>4. \/ functors' = Pended(functors, conn[n].loop, "destoryed", n)
        \/ functors' = Pended(functors, 0, "remove", n)
    BY <1>10 DEF HandleClose, removeConnectionInLoop
  <2>5. functors' \in Queues
    <3>1. \A op \in Operations : Pended(functors, conn[n].loop, op, n) \in Queues
      BY <1>1, <2>1, <2>3, PendResult DEF IsPended
    <3>2. \A op \in Operations : Pended(functors, 0, op, n) \in Queues
      BY <1>1, <2>1, <2>3, PendResult DEF IsPended
    <3> QED BY <2>1, <2>4, <3>1, <3>2
  <2> QED BY <1>1, <1>10, <2>5 DEF HandleClose, startVars
<1>11. ASSUME NEW n \in Names, TimerExpires(n) PROVE TypeOK'
  <2>1. IsMoved([conn EXCEPT ![n].state_ = "freed"], n, "freed")
    BY <1>1, StateFacts DEF States
  <2>2. conn' \in Seq(Connection)
    BY <1>11, <2>1 DEF TimerExpires, IsMoved
  <2> QED BY <1>1, <1>11, <2>2 DEF TimerExpires, startVars
<1>12. CASE PeerConnects \/ (\E n \in Names : PeerCloses(n)) \/ UNCHANGED vars
  BY <1>1, <1>12 DEF PeerConnects, PeerCloses, vars, connVars, startVars
<1> QED
  BY <1>3, <1>4, <1>5, <1>6, <1>7, <1>8, <1>9, <1>10, <1>11, <1>12 DEF Next, ConnStep

(* The latches keep the loops in order.                                     *)
LEMMA StartStep == IInv /\ [Next]_vars => StartInv'
<1> SUFFICES ASSUME IInv, [Next]_vars PROVE StartInv'
  OBVIOUS
<1> USE DEF StartInv, LoopsReady
<1>1. /\ TypeOK /\ StartInv /\ MaxThreads \in Nat
      /\ threadNum_ \in 0..MaxThreads /\ threadNum_ \in Nat
  BY MaxThreadsIsLargest, TcpServerAssumption DEF IInv, TypeOK
<1>2. Len(loops_) \in Nat /\ Current = Len(loops_) + 1 /\ DOMAIN loops_ = 1..Len(loops_)
  BY <1>1, LenProperties DEF Current, TypeOK
<1>3. CASE MainStart
  <2>1. CASE CreateThread
    <3>1. \A i \in 1..MaxThreads : thread'[i] = "launch" => thread[i] = "launch"
      BY <1>1, <2>1 DEF CreateThread, TypeOK
    <3> QED BY <1>1, <1>2, <2>1, <3>1 DEF CreateThread
  <2>2. CASE WaitForThread
    BY <1>1, <2>2 DEF WaitForThread, LatchWait, startVars
  <2>3. CASE WaitForLoop
    <3>1. CASE LatchWait(loopLatch)
      BY <1>1, <2>3, <3>1 DEF WaitForLoop, LatchWait
    <3>2. CASE ~LatchWait(loopLatch)
      <4>1. /\ Len(loops_) < threadNum_ /\ Current \in 1..MaxThreads
            /\ loopLatch[Current] = 0 /\ EventLoopPtr_[Current]
        BY <1>1, <1>2, <2>3, <3>2 DEF WaitForLoop, LoopIsReady
      <4>2. /\ loops_' = Append(loops_, Current) /\ main' = "start"
            /\ UNCHANGED <<threadNum_, thread, loopLatch, EventLoopPtr_, next_>>
        BY <2>3, <3>2, <4>1 DEF WaitForLoop
      <4>3. loops_ \in Seq(0..MaxThreads) /\ Current \in 0..MaxThreads
        BY <1>1, <4>1 DEF TypeOK
      <4>4. /\ Len(loops_') = Len(loops_) + 1 /\ loops_'[Current] = Current
            /\ DOMAIN loops_' = 1..Current
            /\ \A i \in 1..Len(loops_) : loops_'[i] = loops_[i]
        BY <1>2, <4>2, <4>3, AppendProperties, LenProperties
      <4>5. ASSUME NEW i \in DOMAIN loops_'
            PROVE  loops_'[i] = i /\ EventLoopPtr_'[i] /\ loopLatch'[i] = 0
        <5>1. i = Current \/ i \in DOMAIN loops_
          BY <1>2, <4>4, <4>5
        <5> QED BY <1>1, <1>2, <4>1, <4>2, <4>4, <5>1
      <4>6. Len(loops_') <= threadNum_
        <5>1. \A a, b \in Nat : a < b => a + 1 <= b
          OBVIOUS
        <5> QED BY <1>1, <1>2, <4>1, <4>4, <5>1, Zenon
      <4> QED BY <1>1, <4>2, <4>5, <4>6
    <3> QED BY <3>1, <3>2
  <2>4. CASE StartListen
    BY <1>1, <2>4 DEF StartListen, startVars
  <2> QED BY <1>3, <2>1, <2>2, <2>3, <2>4 DEF MainStart
<1>4. ASSUME NEW i \in 1..MaxThreads, ThreadStep(i) PROVE StartInv'
  <2>1. CASE ThreadCountdown(i)
    BY <1>1, <2>1 DEF ThreadCountdown, TypeOK
  <2>2. CASE CreateEventLoop(i)
    BY <1>1, <2>2 DEF CreateEventLoop, TypeOK
  <2>3. CASE LaunchLoop(i)
    BY <1>1, <2>3 DEF LaunchLoop, TypeOK
  <2>4. CASE LoopEnds(i)
    BY <1>1, <2>4 DEF LoopEnds, TypeOK
  <2> QED BY <1>4, <2>1, <2>2, <2>3, <2>4 DEF ThreadStep
<1>5. ASSUME NEW fd \in Fds, OnNewConnection(fd) PROVE StartInv'
  <2>1. next_' = 0 \/ next_' < threadNum_
    BY <1>1, <1>5 DEF OnNewConnection, NextIndex, TypeOK
  <2> QED BY <1>1, <1>5, <2>1 DEF OnNewConnection, startVars
<1>6. CASE AcceptFails \/ InsertIntoMap \/ EndOfServer
  BY <1>1, <1>6 DEF AcceptFails, InsertIntoMap, EndOfServer, startVars
<1>7. CASE MainEnd
  BY <1>1, <1>7 DEF MainEnd, QuitThread, JoinThread, Destroyed, startVars
<1>8. ASSUME NEW l \in 0..MaxThreads, RunFunctor(l) PROVE StartInv'
  BY <1>1, <1>8 DEF RunFunctor, startVars
<1>9. ASSUME NEW n \in Names, HandleClose(n) \/ TimerExpires(n) PROVE StartInv'
  BY <1>1, <1>9 DEF HandleClose, TimerExpires, startVars
<1>10. CASE PeerConnects \/ (\E n \in Names : PeerCloses(n)) \/ UNCHANGED vars
  BY <1>1, <1>10 DEF PeerConnects, PeerCloses, vars, startVars
<1> QED
  BY <1>3, <1>4, <1>5, <1>6, <1>7, <1>8, <1>9, <1>10 DEF Next, Accept, ConnStep
-----------------------------------------------------------------------------
ConnInv == FunctorsExpected /\ OnePending /\ StagesInv

(* Most steps have nothing to do with connections.                          *)
LEMMA OtherSteps ==
    ASSUME ConnInv, UNCHANGED connVars, main' = "insert" <=> main = "insert"
    PROVE  ConnInv'
  BY DEF ConnInv, connVars, FunctorsExpected, Expected, OnePending, NoneTwice, StagesInv,
         Names, Pending

(* A connection is taken: its loop is told, in a queue of its own or at     *)
(* once, and the map knows it a step later.                                 *)
LEMMA NewConnectionStep ==
    ASSUME TypeOK, StartInv, ConnInv, NEW fd \in Fds, OnNewConnection(fd)
    PROVE  ConnInv'
<1> DEFINE n == Len(conn) + 1
           l == getNextLoop
           r == [fd |-> fd, loop |-> l,
                 state_ |-> IF l = 0 THEN "kConnected" ELSE "kConnecting"]
<1>1. l \in 0..MaxThreads /\ MaxThreads \in Nat
  BY MaxThreadsIsLargest, TcpServerAssumption, LenProperties
  DEF getNextLoop, OnNewConnection, StartInv, LoopsReady, TypeOK
<1>2. /\ conn' = Append(conn, r) /\ fd \notin OpenFds /\ main = "looping" /\ main' = "insert"
      /\ registered' = (IF l = 0 THEN registered \union {n} ELSE registered)
      /\ functors' = (IF l = 0 THEN functors ELSE Pended(functors, l, "established", n))
      /\ UNCHANGED <<tcp_connections_, disabled, timers>>
  BY <1>1 DEF OnNewConnection
<1>3. r \in Connection
  BY <1>1 DEF Connection, States
<1>4. /\ Len(conn) \in Nat /\ Names = 1..Len(conn) /\ n \notin Names /\ n \in Nat
      /\ Names' = 1..n /\ Names' = Names \union {n} /\ conn'[n] = r /\ Len(conn') = n
      /\ \A m \in Names : conn'[m] = conn[m]
  BY <1>2, <1>3, AppendProperties, LenProperties DEF TypeOK, Names
<1>5. \A m \in Names : conn[m].fd = fd => conn[m].state_ = "freed"
  BY <1>2 DEF OpenFds
<1> HIDE DEF n, l
<1>6. r.fd = fd /\ r.loop = l /\ r.state_ = (IF l = 0 THEN "kConnected" ELSE "kConnecting")
  OBVIOUS
<1> HIDE DEF r
<1>7. /\ functors \in Queues /\ "established" \in Operations
      /\ \A k \in 0..MaxThreads : \A i \in DOMAIN functors[k] : functors[k][i][2] # n
  BY <1>4 DEF TypeOK, ConnInv, FunctorsExpected, Expected, Operations
<1>8. FunctorsExpected'
  <2> SUFFICES ASSUME NEW k \in 0..MaxThreads, NEW i \in DOMAIN functors'[k]
               PROVE  Expected(k, functors[k][i][1], functors[k][i][2])'
    BY DEF FunctorsExpected
  <2>1. ASSUME i \in DOMAIN functors[k], functors'[k][i] = functors[k][i]
        PROVE  Expected(k, functors[k][i][1], functors[k][i][2])'
    <3>1. Expected(k, functors[k][i][1], functors[k][i][2])
      BY <2>1 DEF ConnInv, FunctorsExpected
    <3> QED BY <1>2, <1>4, <2>1, <3>1 DEF Expected
  <2>2. CASE l = 0
    BY <1>2, <2>1, <2>2
  <2>3. CASE l # 0
    <3>1. functors' = Pended(functors, l, "established", n)
      BY <1>2, <2>3
    <3>2. CASE i \in DOMAIN functors[k] /\ functors'[k][i] = functors[k][i]
      BY <2>1, <3>2
    <3>3. CASE /\ k = l
               /\ functors'[k][i][1] = "established" /\ functors'[k][i][2] = n
      <4>1. n \notin disabled
        BY <1>4 DEF ConnInv, StagesInv
      <4> QED BY <1>2, <1>4, <1>6, <2>3, <3>3, <4>1 DEF Expected
    <3>4. IsPended(functors', functors, l, "established", n)
      BY ONLY <1>1, <1>4, <1>7, <3>1, PendResult
    <3> QED BY <3>2, <3>3, <3>4 DEF IsPended
  <2> QED BY <2>2, <2>3
<1>9. OnePending'
  <2>1. CASE l = 0
    BY <1>2, <2>1 DEF ConnInv, OnePending, NoneTwice
  <2>2. CASE l # 0
    BY <1>1, <1>2, <1>4, <1>7, <2>2, PendKeepsOne DEF ConnInv, OnePending
  <2> QED BY <2>1, <2>2
<1>10. StagesInv'
  <2>1. \A m \in Names : Pending(m) => Pending(m)'
    <3>1. CASE l = 0
      BY <1>2, <3>1 DEF Pending
    <3>2. CASE l # 0
      <4>1. functors' = Pended(functors, l, "established", n)
        BY <1>2, <3>2
      <4>2. IsPended(functors', functors, l, "established", n)
        BY ONLY <1>1, <1>4, <1>7, <4>1, PendResult
      <4> QED BY <4>2 DEF Pending, IsPended
    <3> QED BY <3>1, <3>2
  <2>2. \A m \in registered' : conn'[m].state_ = "kConnected"
    BY <1>2, <1>4, <1>6 DEF ConnInv, StagesInv
  <2>3. \A m \in registered' \intersect disabled' : Pending(m)'
    BY <1>2, <1>4, <2>1 DEF ConnInv, StagesInv
  <2>4. conn' # <<>>
    BY <1>4
  <2>5. \A m \in Names' \ disabled' : m \in tcp_connections_' \/ m = Len(conn')
    BY <1>2, <1>4 DEF ConnInv, StagesInv
  <2>6. \A m, k \in Names' :
          m # k /\ conn'[m].fd = conn'[k].fd => "freed" \in {conn'[m].state_, conn'[k].state_}
    BY <1>4, <1>5, <1>6 DEF ConnInv, StagesInv
  <2> QED BY <1>2, <1>4, <2>2, <2>3, <2>4, <2>5, <2>6 DEF ConnInv, StagesInv
<1> QED BY <1>8, <1>9, <1>10 DEF ConnInv

LEMMA InsertStep ==
    ASSUME ConnInv, InsertIntoMap PROVE ConnInv'
<1>1. /\ tcp_connections_' = tcp_connections_ \union {Len(conn)} /\ main' = "looping"
      /\ UNCHANGED <<conn, functors, registered, disabled, timers>>
  BY DEF InsertIntoMap
<1>2. FunctorsExpected' /\ OnePending'
  BY <1>1 DEF ConnInv, FunctorsExpected, Expected, OnePending, NoneTwice, Names
<1>3. StagesInv'
  BY <1>1 DEF ConnInv, StagesInv, Names, Pending
<1> QED BY <1>2, <1>3 DEF ConnInv

(* The first functor of a loop is what was expected of it, and no other is  *)
(* about the same connection.                                               *)
LEMMA PoppedInv ==
    ASSUME TypeOK, ConnInv, NEW l \in 0..MaxThreads, functors[l] # <<>>,
           NEW op, NEW n, Head(functors[l])[1] = op, Head(functors[l])[2] = n,
           NEW gs, gs = Popped(functors, l)
    PROVE  /\ gs \in Queues /\ NoneTwice(gs) /\ Expected(l, op, n) /\ n \in Nat
           /\ \A k \in 0..MaxThreads : \A i \in DOMAIN gs[k] :
                gs[k][i][2] # n /\ Expected(k, gs[k][i][1], gs[k][i][2])
           /\ \A m \in Names \ {n} : Pending(m) =>
                \E k \in 0..MaxThreads : \E i \in DOMAIN gs[k] : gs[k][i][2] = m
<1>1. functors \in Queues /\ FunctorsExpected /\ NoneTwice(functors)
  BY DEF TypeOK, ConnInv, OnePending
<1>2. IsPopped(gs, functors, l)
  BY <1>1, PopResult
<1>3. Expected(l, op, n)
  BY <1>1, <1>2 DEF IsPopped, FunctorsExpected
<1>4. n \in Nat
  BY <1>3, LenProperties DEF Expected, Names, TypeOK
<1>5. \A k \in 0..MaxThreads : \A i \in DOMAIN gs[k] : gs[k][i][2] # n
  BY <1>1, PopKeepsOne
<1>6. ASSUME NEW k \in 0..MaxThreads, NEW i \in DOMAIN gs[k]
      PROVE  Expected(k, gs[k][i][1], gs[k][i][2])
  <2>1. PICK j \in DOMAIN functors[k] : gs[k][i] = functors[k][j]
    BY <1>2 DEF IsPopped
  <2> QED BY <1>1, <2>1 DEF FunctorsExpected
<1>7. ASSUME NEW m \in Names \ {n}, Pending(m)
      PROVE  \E k \in 0..MaxThreads : \E i \in DOMAIN gs[k] : gs[k][i][2] = m
  <2>1. PICK k \in 0..MaxThreads : \E i \in DOMAIN functors[k] : functors[k][i][2] = m
    BY <1>7 DEF Pending
  <2>2. PICK i \in DOMAIN functors[k] : functors[k][i][2] = m
    BY <2>1
  <2>3. ~(k = l /\ i = 1)
    BY <1>2, <1>7, <2>2 DEF IsPopped
  <2> QED BY <1>2, <2>2, <2>3 DEF IsPopped
<1>8. NoneTwice(gs)
  BY <1>1, PopKeepsOne
<1> QED BY <1>2, <1>3, <1>4, <1>5, <1>6, <1>7, <1>8 DEF IsPopped

LEMMA FunctorStep ==
    ASSUME TypeOK, ConnInv, NEW l \in 0..MaxThreads, RunFunctor(l)
    PROVE  ConnInv'
<1>0. PICK op, n : Head(functors[l])[1] = op /\ Head(functors[l])[2] = n
  OBVIOUS
<1> DEFINE gs == Popped(functors, l)
<1>1. functors[l] # <<>> /\ main' = main /\ MaxThreads \in Nat
  BY MaxThreadsIsLargest DEF RunFunctor
<1>2. /\ gs \in Queues /\ NoneTwice(gs) /\ Expected(l, op, n) /\ n \in Nat
      /\ \A k \in 0..MaxThreads : \A i \in DOMAIN gs[k] :
           gs[k][i][2] # n /\ Expected(k, gs[k][i][1], gs[k][i][2])
      /\ \A m \in Names \ {n} : Pending(m) =>
           \E k \in 0..MaxThreads : \E i \in DOMAIN gs[k] : gs[k][i][2] = m
  BY <1>0, <1>1, PoppedInv
<1>3. \/ op = "established" /\ connectionEstablished(l, n)
      \/ op = "destoryed" /\ destoryedConnection(l, n)
      \/ /\ op = "remove"
         /\ tcp_connections_' = tcp_connections_ \ {n}
         /\ functors' = removeConnectionInLoop(gs, n)
         /\ UNCHANGED <<conn, registered, disabled, timers>>
  BY <1>0 DEF RunFunctor
<1> HIDE DEF gs
<1>4. StagesInv /\ n \in Names
  BY <1>2 DEF ConnInv, Expected
<1>5. CASE op = "established" /\ functors' = gs /\ connectionEstablished(l, n)
  <2>1. IsMoved(conn', n, "kConnected")
    <3>1. conn' = [conn EXCEPT ![n].state_ = "kConnected"] /\ "kConnected" \in States
      BY <1>5 DEF connectionEstablished, States
    <3>2. conn \in Seq(Connection)
      BY DEF TypeOK
    <3> QED BY ONLY <3>1, <3>2, StateFacts
  <2>2. /\ registered' = registered \union {n}
        /\ UNCHANGED <<tcp_connections_, disabled, timers>>
    BY <1>5 DEF connectionEstablished
  <2>3. n \notin disabled /\ conn[n].state_ = "kConnecting"
    BY <1>2, <1>5 DEF Expected
  <2>4. FunctorsExpected'
    <3> SUFFICES ASSUME NEW k \in 0..MaxThreads, NEW i \in DOMAIN functors'[k]
                 PROVE  Expected(k, functors[k][i][1], functors[k][i][2])'
      BY DEF FunctorsExpected
    <3>1. /\ functors'[k][i][2] # n
          /\ Expected(k, functors'[k][i][1], functors'[k][i][2])
      BY <1>2, <1>5
    <3> QED BY <2>1, <2>2, <3>1 DEF Expected, IsMoved, Names
  <2>5. OnePending'
    BY <1>2, <1>5 DEF OnePending
  <2>6. \A m \in registered' \intersect disabled' : Pending(m)'
    BY <1>2, <1>4, <1>5, <2>2, <2>3 DEF StagesInv, Pending
  <2>7. StagesInv'
    <3>1. /\ Names' = Names /\ Len(conn') = Len(conn)
          /\ conn # <<>> => conn' # <<>>
          /\ \A m \in Names : conn'[m].fd = conn[m].fd /\ (m # n => conn'[m] = conn[m])
          /\ conn'[n].state_ = "kConnected"
      BY <1>4, <2>1 DEF IsMoved, Names
    <3>2. \A m \in registered' : conn'[m].state_ = "kConnected"
      BY <1>4, <2>2, <2>3, <3>1 DEF StagesInv
    <3>3. \A m \in timers' : conn'[m].state_ = "kDisConnected"
      BY <1>4, <2>2, <2>3, <3>1 DEF StagesInv
    <3>4. \A m \in Names' \ disabled' :
            m \in tcp_connections_' \/ (main' = "insert" /\ m = Len(conn'))
      BY <1>1, <1>4, <2>2, <3>1 DEF StagesInv
    <3>5. \A m, k \in Names' : m # k /\ conn'[m].fd = conn'[k].fd =>
                                "freed" \in {conn'[m].state_, conn'[k].state_}
      BY <1>4, <2>3, <3>1 DEF StagesInv
    <3> QED BY <1>1, <1>4, <2>2, <2>6, <3>1, <3>2, <3>3, <3>4, <3>5 DEF StagesInv
  <2> QED BY <2>4, <2>5, <2>7 DEF ConnInv
<1>6. CASE op = "destoryed" /\ functors' = gs /\ destoryedConnection(l, n)
  <2>1. IsMoved(conn', n, "kDisConnected")
    <3>1. conn' = [conn EXCEPT ![n].state_ = "kDisConnected"] /\ "kDisConnected" \in States
      BY <1>6 DEF destoryedConnection, States
    <3>2. conn \in Seq(Connection)
      BY DEF TypeOK
    <3> QED BY ONLY <3>1, <3>2, StateFacts
  <2>2. /\ registered' = registered \ {n} /\ timers' = timers \union {n}
        /\ UNCHANGED <<tcp_connections_, disabled>>
    BY <1>6 DEF destoryedConnection, ChannelsLeft
  <2>3. n \in disabled /\ conn[n].state_ = "kConnected"
    BY <1>2, <1>4, <1>6 DEF Expected, StagesInv
  <2>4. FunctorsExpected'
    <3> SUFFICES ASSUME NEW k \in 0..MaxThreads, NEW i \in DOMAIN functors'[k]
                 PROVE  Expected(k, functors[k][i][1], functors[k][i][2])'
      BY DEF FunctorsExpected
    <3>1. /\ functors'[k][i][2] # n
          /\ Expected(k, functors'[k][i][1], functors'[k][i][2])
      BY <1>2, <1>6
    <3> QED BY <2>1, <2>2, <3>1 DEF Expected, IsMoved, Names
  <2>5. OnePending'
    BY <1>2, <1>6 DEF OnePending
  <2>6. \A m \in registered' \intersect disabled' : Pending(m)'
    BY <1>2, <1>4, <1>6, <2>2, <2>3 DEF StagesInv, Pending
  <2>7. StagesInv'
    <3>1. /\ Names' = Names /\ Len(conn') = Len(conn)
          /\ conn # <<>> => conn' # <<>>
          /\ \A m \in Names : conn'[m].fd = conn[m].fd /\ (m # n => conn'[m] = conn[m])
          /\ conn'[n].state_ = "kDisConnected"
      BY <1>4, <2>1 DEF IsMoved, Names
    <3>2. \A m \in registered' : conn'[m].state_ = "kConnected"
      BY <1>4, <2>2, <2>3, <3>1 DEF StagesInv
    <3>3. \A m \in timers' : conn'[m].state_ = "kDisConnected"
      BY <1>4, <2>2, <2>3, <3>1 DEF StagesInv
    <3>4. \A m \in Names' \ disabled' :
            m \in tcp_connections_' \/ (main' = "insert" /\ m = Len(conn'))
      BY <1>1, <1>4, <2>2, <3>1 DEF StagesInv
    <3>5. \A m, k \in Names' : m # k /\ conn'[m].fd = conn'[k].fd =>
                                "freed" \in {conn'[m].state_, conn'[k].state_}
      BY <1>4, <2>3, <3>1 DEF StagesInv
    <3> QED BY <1>1, <1>4, <2>2, <2>6, <3>1, <3>2, <3>3, <3>4, <3>5 DEF StagesInv
  <2> QED BY <2>4, <2>5, <2>7 DEF ConnInv
<1>7. CASE /\ op = "remove" /\ tcp_connections_' = tcp_connections_ \ {n}
           /\ functors' = removeConnectionInLoop(gs, n)
           /\ UNCHANGED <<conn, registered, disabled, timers>>
  <2> DEFINE t == conn[n].loop
  <2>1. t \in 0..MaxThreads /\ "destoryed" \in Operations
    <3>1. conn[n] \in Connection
      BY <1>4, ElementOfSeq, LenProperties DEF TypeOK, Names
    <3> QED BY <3>1 DEF Connection, Operations
  <2>2. functors' = Pended(gs, t, "destoryed", n)
    BY <1>7 DEF removeConnectionInLoop
  <2> HIDE DEF t
  <2>3. IsPended(functors', gs, t, "destoryed", n)
    BY ONLY <1>2, <2>1, <2>2, PendResult
  <2>4. n \in registered /\ n \in disabled
    BY <1>2, <1>7 DEF Expected
  <2>5. FunctorsExpected'
    <3> SUFFICES ASSUME NEW k \in 0..MaxThreads, NEW i \in DOMAIN functors'[k]
                 PROVE  Expected(k, functors[k][i][1], functors[k][i][2])'
      BY DEF FunctorsExpected
    <3>1. CASE i \in DOMAIN gs[k] /\ functors'[k][i] = gs[k][i]
      <4>1. Expected(k, gs[k][i][1], gs[k][i][2])
        BY <1>2, <3>1
      <4> QED BY <1>7, <3>1, <4>1 DEF Expected, Names
    <3>2. CASE k = t /\ functors'[k][i][1] = "destoryed" /\ functors'[k][i][2] = n
      BY <1>4, <1>7, <2>4, <3>2 DEF Expected, Names, t
    <3> QED BY <2>3, <3>1, <3>2 DEF IsPended
  <2>6. OnePending'
    BY <1>2, <2>1, <2>2, PendKeepsOne DEF OnePending
  <2>7. \A m \in registered' \intersect disabled' : Pending(m)'
    <3>1. Pending(n)'
      <4>1. \E i \in DOMAIN functors'[t] : functors'[t][i][2] = n
        BY <2>3 DEF IsPended
      <4> QED BY <2>1, <4>1 DEF Pending
    <3>2. \A k \in 0..MaxThreads : \A i \in DOMAIN gs[k] :
            i \in DOMAIN functors'[k] /\ functors'[k][i] = gs[k][i]
      BY <2>3 DEF IsPended
    <3>3. ASSUME NEW m \in Names \ {n}, Pending(m) PROVE Pending(m)'
      BY <1>2, <3>2, <3>3 DEF Pending
    <3>4. registered \subseteq Names /\ \A m \in registered \intersect disabled : Pending(m)
      BY <1>4 DEF StagesInv
    <3>5. registered' = registered /\ disabled' = disabled
      BY <1>7
    <3> QED BY ONLY <3>1, <3>3, <3>4, <3>5
  <2>8. StagesInv'
    BY <1>1, <1>4, <1>7, <2>4, <2>7 DEF StagesInv, Names
  <2> QED BY <2>5, <2>6, <2>8 DEF ConnInv
<1> QED BY <1>3, <1>5, <1>6, <1>7 DEF connectionEstablished, destoryedConnection, gs

(* The peer has gone: the channel is disabled once, and from then on an     *)
(* operation waits until the channel is removed.                            *)
LEMMA CloseStep ==
    ASSUME TypeOK, ConnInv, NEW n \in Names, HandleClose(n)
    PROVE  ConnInv'
<1> DEFINE t == conn[n].loop
           k == IF t = 0 THEN t ELSE 0
           op == IF t = 0 THEN "destoryed" ELSE "remove"
<1>1. /\ n \in registered /\ n \notin disabled /\ main' = main
      /\ disabled' = disabled \union {n}
      /\ t = 0 => tcp_connections_' = tcp_connections_ \ {n}
      /\ t # 0 => tcp_connections_' = tcp_connections_
      /\ UNCHANGED <<conn, registered, timers>>
      /\ functors' = Pended(functors, k, op, n)
  BY DEF HandleClose, removeConnectionInLoop
<1>2. k = 0 /\ k \in 0..MaxThreads /\ op \in Operations /\ n \in Nat
  BY MaxThreadsIsLargest, LenProperties DEF Operations, Names, TypeOK
<1>3. functors \in Queues /\ StagesInv /\ FunctorsExpected /\ NoneTwice(functors)
  BY DEF TypeOK, ConnInv, OnePending
<1>4. (op = "destoryed" /\ t = 0) \/ (op = "remove" /\ t # 0)
  OBVIOUS
<1> HIDE DEF k, op
<1>5. IsPended(functors', functors, k, op, n)
  BY ONLY <1>1, <1>2, <1>3, PendResult
<1>6. \A l \in 0..MaxThreads : \A i \in DOMAIN functors[l] : functors[l][i][2] # n
  <2> SUFFICES ASSUME NEW l \in 0..MaxThreads, NEW i \in DOMAIN functors[l],
                      functors[l][i][2] = n
               PROVE  FALSE
    OBVIOUS
  <2>1. Expected(l, functors[l][i][1], n)
    BY <1>3 DEF FunctorsExpected
  <2>2. functors[l][i][1] \in Operations
    <3>1. functors[l] \in Seq(Operations \X Nat)
      BY <1>3 DEF Queues
    <3>2. functors[l][i] \in Operations \X Nat
      BY <3>1, ElementOfSeq, LenProperties
    <3> QED BY <3>2
  <2>3. conn[n].state_ = "kConnected"
    BY <1>1, <1>3 DEF StagesInv
  <2> QED BY <1>1, <2>1, <2>2, <2>3 DEF Expected, Operations
<1>7. FunctorsExpected'
  <2> SUFFICES ASSUME NEW l \in 0..MaxThreads, NEW i \in DOMAIN functors'[l]
               PROVE  Expected(l, functors[l][i][1], functors[l][i][2])'
    BY DEF FunctorsExpected
  <2>1. CASE i \in DOMAIN functors[l] /\ functors'[l][i] = functors[l][i]
    <3>1. Expected(l, functors[l][i][1], functors[l][i][2]) /\ functors[l][i][2] # n
      BY <1>3, <1>6, <2>1 DEF FunctorsExpected
    <3> QED BY <1>1, <2>1, <3>1 DEF Expected, Names
  <2>2. CASE l = k /\ functors'[l][i][1] = op /\ functors'[l][i][2] = n
    BY <1>1, <1>2, <1>4, <2>2 DEF Expected, Names
  <2> QED BY <1>5, <2>1, <2>2 DEF IsPended
<1>8. OnePending'
  BY <1>1, <1>2, <1>3, <1>6, PendKeepsOne DEF OnePending
<1>9. \A m \in registered' \intersect disabled' : Pending(m)'
  <2>1. Pending(n)'
    BY <1>2, <1>5 DEF IsPended, Pending
  <2>2. ASSUME NEW m, Pending(m) PROVE Pending(m)'
    BY <1>5, <2>2 DEF IsPended, Pending
  <2> QED BY <1>1, <1>3, <2>1, <2>2 DEF StagesInv
<1>10. StagesInv'
  BY <1>1, <1>3, <1>9 DEF StagesInv, Names
<1> QED BY <1>7, <1>8, <1>10 DEF ConnInv

(* Only a connection without a channel and without an operation is freed.   *)
LEMMA TimerStep ==
    ASSUME TypeOK, ConnInv, NEW n \in Names, TimerExpires(n)
    PROVE  ConnInv'
<1>1. n \in timers /\ timers' = timers \ {n} /\ main' = main
      /\ UNCHANGED <<tcp_connections_, functors, registered, disabled>>
  BY DEF TimerExpires
<1>2. IsMoved(conn', n, "freed")
  <2>1. conn' = [conn EXCEPT ![n].state_ = "freed"] /\ "freed" \in States
    BY DEF TimerExpires, States
  <2>2. conn \in Seq(Connection)
    BY DEF TypeOK
  <2> QED BY ONLY <2>1, <2>2, StateFacts
<1>3. StagesInv /\ conn[n].state_ = "kDisConnected" /\ n \notin registered
  BY <1>1 DEF ConnInv, StagesInv
<1>4. /\ Names' = Names /\ Len(conn') = Len(conn)
      /\ conn # <<>> => conn' # <<>>
      /\ \A m \in Names : /\ conn'[m].fd = conn[m].fd /\ conn'[m].loop = conn[m].loop
                          /\ m # n => conn'[m] = conn[m]
      /\ conn'[n].state_ = "freed"
  BY <1>2 DEF IsMoved, Names
<1>5. FunctorsExpected'
  <2> SUFFICES ASSUME NEW k \in 0..MaxThreads, NEW i \in DOMAIN functors[k]
               PROVE  Expected(k, functors[k][i][1], functors[k][i][2])'
    BY <1>1 DEF FunctorsExpected
  <2>1. Expected(k, functors[k][i][1], functors[k][i][2])
    BY DEF ConnInv, FunctorsExpected
  <2> QED BY <1>1, <1>3, <1>4, <2>1 DEF Expected
<1>6. OnePending' /\ \A m \in registered' \intersect disabled' : Pending(m)'
  BY <1>1, <1>3 DEF ConnInv, OnePending, StagesInv, Pending
<1>7. StagesInv'
  <2>1. \A m \in registered' : conn'[m].state_ = "kConnected"
    BY <1>1, <1>3, <1>4 DEF StagesInv
  <2>2. \A m \in timers' : conn'[m].state_ = "kDisConnected"
    BY <1>1, <1>3, <1>4 DEF StagesInv
  <2>3. \A m \in Names' \ disabled' :
          m \in tcp_connections_' \/ (main' = "insert" /\ m = Len(conn'))
    BY <1>1, <1>3, <1>4 DEF StagesInv
  <2>4. \A m, k \in Names' : m # k /\ conn'[m].fd = conn'[k].fd =>
                              "freed" \in {conn'[m].state_, conn'[k].state_}
    BY <1>3, <1>4 DEF StagesInv
  <2> QED BY <1>1, <1>3, <1>4, <1>6, <2>1, <2>2, <2>3, <2>4 DEF StagesInv
<1> QED BY <1>5, <1>6, <1>7 DEF ConnInv
-----------------------------------------------------------------------------
LEMMA ConnStepInv ==
    IInv /\ [Next]_vars => (main' # "destroyed" => main # "destroyed" /\ ConnInv')
<1> SUFFICES ASSUME IInv, [Next]_vars, main' # "destroyed"
             PROVE  main # "destroyed" /\ ConnInv'
  OBVIOUS
<1>1. TypeOK /\ StartInv /\ (main # "destroyed" => ConnInv)
  BY DEF IInv, ConnInv
<1>2. CASE MainStart \/ AcceptFails \/ EndOfServer \/ MainEnd
  BY <1>1, <1>2, OtherSteps
  DEF MainStart, CreateThread, WaitForThread, LatchWait, WaitForLoop, StartListen,
      AcceptFails, EndOfServer, MainEnd, QuitThread, JoinThread, Destroyed
<1>3. ASSUME NEW i \in 1..MaxThreads, ThreadStep(i)
      PROVE  main # "destroyed" /\ ConnInv'
  BY <1>1, <1>3, OtherSteps
  DEF ThreadStep, ThreadCountdown, CreateEventLoop, LaunchLoop, LoopEnds
<1>4. CASE PeerConnects \/ (\E n \in Names : PeerCloses(n)) \/ UNCHANGED vars
  BY <1>1, <1>4, OtherSteps DEF PeerConnects, PeerCloses, vars
<1>5. ASSUME NEW fd \in Fds, OnNewConnection(fd) PROVE main # "destroyed" /\ ConnInv'
  BY <1>1, <1>5, NewConnectionStep DEF OnNewConnection
<1>6. CASE InsertIntoMap
  BY <1>1, <1>6, InsertStep DEF InsertIntoMap
<1>7. ASSUME NEW l \in 0..MaxThreads, RunFunctor(l) PROVE main # "destroyed" /\ ConnInv'
  BY <1>1, <1>7, FunctorStep DEF RunFunctor
<1>8. ASSUME NEW n \in Names, HandleClose(n) PROVE main # "destroyed" /\ ConnInv'
  BY <1>1, <1>8, CloseStep DEF HandleClose
<1>9. ASSUME NEW n \in Names, TimerExpires(n) PROVE main # "destroyed" /\ ConnInv'
  BY <1>1, <1>9, TimerStep DEF TimerExpires
<1> QED
  BY <1>2, <1>3, <1>4, <1>5, <1>6, <1>7, <1>8, <1>9 DEF Next, Accept, ConnStep

THEOREM Invariance == Spec => []IInv
<1>1. IInv /\ [Next]_vars => IInv'
  BY TypeStep, StartStep, ConnStepInv DEF IInv, ConnInv
<1> QED BY InitInv, <1>1, PTL DEF Spec

(* The two latches order start-up: the pool never hands out a loop whose    *)
(* thread has not made it.                                                  *)
THEOREM LoopsAreReady == Spec => []LoopsReady
<1>1. IInv => LoopsReady
  BY DEF IInv, StartInv
<1> QED BY Invariance, <1>1, PTL

(* A registered channel's fd is its own as long as there is a server,       *)
(* however descriptors are reused and whichever thread closes first.        *)
THEOREM ChannelsOwnTheirFds == Spec => []ChannelsOwnFds
<1>1. IInv => ChannelsOwnFds
  BY DEF IInv, StagesInv, ChannelsOwnFds
<1> QED BY Invariance, <1>1, PTL

(* A connection is kept alive for as long as its channel is registered: the *)
(* map, a pended functor or the stack of onNewConnection holds it.          *)
THEOREM ConnectionsAreKeptAlive == Spec => []KeptAlive
<1>1. IInv => KeptAlive
  BY DEF IInv, StagesInv, KeptAlive
<1> QED BY Invariance, <1>1, PTL
=============================================================================
