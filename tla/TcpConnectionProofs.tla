------------------------ MODULE TcpConnectionProofs -------------------------
(***************************************************************************)
(* Proofs about TcpConnection, for any number of threads and of calls of   *)
(* send(): the life of a connection, and that its channel waits for        *)
(* writability exactly when output waits, so that no FIN overtakes output. *)
(***************************************************************************)
EXTENDS TcpConnection, SequenceTheorems, TLAPS

Unit == Nat \X Nat
Functor == {"established", "destroyed", "shutdown", "send"} \X Nat

TypeOK ==
    /\ sameLoop \in BOOLEAN
    /\ state_ \in {"kConnecting", "kConnected", "kDisConnecting", "kDisConnected"}
    /\ channel \in {"new", "on", "disabled", "removed"}
    /\ reading \in BOOLEAN /\ writing \in BOOLEAN
    /\ outputBuffer_ \in Seq(Unit) /\ wire \in Seq(Unit)
    /\ ioQueue \in Seq(Functor) /\ mainQueue \in Seq({"remove"})
    /\ inMap \in BOOLEAN /\ mainPc \in {"accept", "insert", "idle"}
    /\ phase \in {"poll", "events", "callback"}
    /\ tail \in {"none", "drained", "enableReading", "remove"}
    /\ revents \subseteq {"read", "write"} /\ checked \subseteq Threads
    /\ peer \in {"open", "fin", "reset"} /\ fin \in BOOLEAN
    /\ sends \in Nat /\ accepted \in Seq(Nat)
    /\ status \in {"running", "channel_disabled", "write_error", "shutdown_error",
                   "not_in_map", "bad_state", "bad_remove"}

(* Where the two loops are.  A server with a single loop inserts the        *)
(* connection before that loop does anything else with it.                  *)
Places ==
    /\ phase # "callback" => tail = "none"
    /\ phase = "poll" \/ tail \in {"enableReading", "remove"} => revents = {}
    /\ sameLoop /\ mainPc = "insert" => phase = "poll" \/ tail = "enableReading"
    /\ mainPc = "idle" /\ (channel \in {"new", "on"} \/ mainQueue # <<>>) => inMap
    /\ "read" \in revents => channel = "on"

(* The stages of a connection's life, told apart by its channel, by what    *)
(* the loop is in the middle of, and by the functors still to be run.       *)
IsLive == state_ \in {"kConnected", "kDisConnecting"}
Holds(q, f) == \E i \in DOMAIN q : q[i] = f
HoldsOnce(q, f) == Holds(q, f) /\ \A i, j \in DOMAIN q : q[i] = f /\ q[j] = f => i = j
NothingPended == ~Holds(ioQueue, Established) /\ ~Holds(ioQueue, Destroyed) /\ mainQueue = <<>>
InHandler == tail \in {"none", "drained"}

Waiting ==
    /\ channel = "new" /\ state_ = "kConnecting" /\ checked = {} /\ phase = "poll"
    /\ ioQueue = (IF mainPc = "accept" THEN <<>> ELSE <<Established>>)
    /\ mainQueue = <<>>
    /\ mainPc # "accept" => ~sameLoop

Establishing ==
    /\ channel \in {"new", "on"} /\ IsLive /\ tail = "enableReading"
    /\ phase = "callback" /\ mainPc # "accept" /\ NothingPended

Up == channel = "on" /\ IsLive /\ InHandler /\ mainPc # "accept" /\ NothingPended

Closing ==
    /\ channel = "disabled" /\ IsLive /\ InHandler /\ mainPc # "accept"
    /\ ~Holds(ioQueue, Established)
    /\ \/ mainQueue = <<"remove">> /\ ~Holds(ioQueue, Destroyed)
       \/ mainQueue = <<>> /\ HoldsOnce(ioQueue, Destroyed) /\ mainPc = "idle"

Destroying ==
    /\ channel = "disabled" /\ state_ \in {"kDisConnected", "kDisConnecting"}
    /\ tail = "remove" /\ phase = "callback" /\ mainPc # "accept" /\ NothingPended

Removed ==
    /\ channel = "removed" /\ state_ \in {"kDisConnected", "kDisConnecting"}
    /\ InHandler /\ mainPc # "accept" /\ NothingPended

Stages == Waiting \/ Establishing \/ Up \/ Closing \/ Destroying \/ Removed

IInv ==
    /\ TypeOK /\ WritingIffOutput /\ LifecycleAsserts
    /\ status = "running" => Places /\ Stages
-----------------------------------------------------------------------------
LEMMA UnitsFacts ==
    ASSUME NEW m \in Nat, NEW n \in {-1, 0, 1, 2}
    PROVE  /\ SubSeq(Units(m), 1, n) \in Seq(Unit)
           /\ Remainder(m, n) \in Seq(Unit)
           /\ Remainder(m, n) = <<>> <=> n = 2
<1> DEFINE u == Units(m)
<1>1. u \in Seq(Unit) /\ Len(u) = 2 /\ <<Stray>> \in Seq(Unit)
  BY DEF Units, Unit, Stray
<1>2. \A i \in 1..2 : u[i] \in Unit
  BY <1>1, ElementOfSeq
<1> HIDE DEF u
<1>3. SubSeq(u, 1, n) \in Seq(Unit)
  <2>1. 1 \in Int /\ n \in Int /\ \A i \in 1..n : u[i] \in Unit
    BY <1>2
  <2> QED BY ONLY <2>1, SubSeqProperties
<1>4. ASSUME n # -1
      PROVE  SubSeq(u, n + 1, 2) \in Seq(Unit) /\ (SubSeq(u, n + 1, 2) = <<>> <=> n = 2)
  <2>1. n + 1 \in Int /\ 2 \in Int /\ \A i \in (n + 1)..2 : u[i] \in Unit
    BY <1>2, <1>4
  <2>2. /\ SubSeq(u, n + 1, 2) \in Seq(Unit)
        /\ Len(SubSeq(u, n + 1, 2)) = IF n + 1 <= 2 THEN 2 - (n + 1) + 1 ELSE 0
    BY ONLY <2>1, SubSeqProperties
  <2>3. Len(SubSeq(u, n + 1, 2)) = 0 <=> n = 2
    BY <1>4, <2>2
  <2> QED BY <2>2, <2>3, EmptySeq
<1>5. <<Stray>> \o u \in Seq(Unit) /\ <<Stray>> \o u # <<>>
  BY <1>1, ConcatProperties
<1> QED BY <1>3, <1>4, <1>5 DEF Remainder, u

LEMMA QueueFacts ==
    ASSUME NEW q \in Seq(Functor), NEW f \in Functor
    PROVE  /\ Append(q, f) \in Seq(Functor)
           /\ \A g : Holds(Append(q, f), g) <=> Holds(q, g) \/ g = f
           /\ \A g : HoldsOnce(q, g) /\ f # g => HoldsOnce(Append(q, f), g)
           /\ ~Holds(q, f) => HoldsOnce(Append(q, f), f)
<1> DEFINE t == Append(q, f)
           n == Len(q) + 1
<1>1. /\ t \in Seq(Functor) /\ n \in DOMAIN t /\ t[n] = f /\ n \notin DOMAIN q
      /\ \A i \in DOMAIN t : i = n \/ (i \in DOMAIN q /\ t[i] = q[i])
      /\ \A i \in DOMAIN q : i \in DOMAIN t /\ t[i] = q[i]
  BY AppendProperties, LenProperties
<1> HIDE DEF t, n
<1>2. \A g : Holds(t, g) <=> Holds(q, g) \/ g = f
  BY <1>1 DEF Holds
<1>3. \A g : HoldsOnce(q, g) /\ f # g => HoldsOnce(t, g)
  BY <1>1, <1>2 DEF HoldsOnce
<1>4. ~Holds(q, f) => HoldsOnce(t, f)
  BY <1>1, <1>2 DEF HoldsOnce, Holds
<1> QED BY <1>1, <1>2, <1>3, <1>4 DEF t

LEMMA QueueTail ==
    ASSUME NEW q \in Seq(Functor), q # <<>>
    PROVE  /\ Tail(q) \in Seq(Functor) /\ Head(q) \in Functor /\ Holds(q, Head(q))
           /\ \A g : Holds(Tail(q), g) => Holds(q, g)
           /\ \A g : HoldsOnce(q, g) => IF Head(q) = g THEN ~Holds(Tail(q), g)
                                                        ELSE HoldsOnce(Tail(q), g)
<1> DEFINE t == Tail(q)
<1>1. /\ t \in Seq(Functor) /\ Len(t) = Len(q) - 1 /\ Len(q) \in Nat /\ Len(t) \in Nat
      /\ Head(q) = q[1] /\ q[1] \in Functor /\ \A i \in 1..Len(t) : t[i] = q[i + 1]
      /\ DOMAIN t = 1..Len(t) /\ DOMAIN q = 1..Len(q)
  BY HeadTailProperties, LenProperties, ElementOfSeq
<1> HIDE DEF t
<1>2. /\ 1 \in DOMAIN q
      /\ \A i \in DOMAIN t : i + 1 \in DOMAIN q /\ t[i] = q[i + 1] /\ i + 1 # 1
      /\ \A j \in DOMAIN q : j = 1 \/ (j - 1 \in DOMAIN t /\ t[j - 1] = q[j])
      /\ \A i, j \in DOMAIN t : i + 1 = j + 1 => i = j
  BY <1>1
<1>3. Holds(q, Head(q)) /\ \A g : Holds(t, g) => Holds(q, g)
  BY <1>1, <1>2 DEF Holds
<1>4. ASSUME NEW g, HoldsOnce(q, g), Head(q) = g PROVE ~Holds(t, g)
  BY <1>1, <1>2, <1>4 DEF Holds, HoldsOnce
<1>5. ASSUME NEW g, HoldsOnce(q, g), Head(q) # g PROVE HoldsOnce(t, g)
  BY <1>1, <1>2, <1>5 DEF Holds, HoldsOnce
<1> QED BY <1>1, <1>3, <1>4, <1>5 DEF t

LEMMA FunctorFacts ==
    /\ {Established, Destroyed, ShutdownFunctor} \subseteq Functor
    /\ \A m \in Nat : /\ SendFunctor(m) \in Functor
                      /\ SendFunctor(m) # Established /\ SendFunctor(m) # Destroyed
    /\ Established # Destroyed /\ ShutdownFunctor # Established /\ ShutdownFunctor # Destroyed
    /\ \A f \in Functor : f[2] \in Nat
    /\ Established[1] # "send" /\ Destroyed[1] # "send"
  BY DEF Functor, Established, Destroyed, ShutdownFunctor, SendFunctor

LEMMA QueueOfOne ==
    /\ Holds(<<Established>>, Established) /\ ~Holds(<<Established>>, Destroyed)
    /\ \A g : ~Holds(<<>>, g)
    /\ Tail(<<Established>>) = <<>> /\ Head(<<Established>>) = Established
  BY FunctorFacts DEF Holds

LEMMA InitInv == Init => IInv
<1> SUFFICES ASSUME Init PROVE IInv
  OBVIOUS
<1> USE DEF Init
<1>1. TypeOK
  BY EmptySeq DEF TypeOK
<1>2. WritingIffOutput /\ LifecycleAsserts /\ Places /\ Waiting
  BY DEF WritingIffOutput, LifecycleAsserts, Places, Waiting
<1> QED BY <1>1, <1>2 DEF IInv, Stages
-----------------------------------------------------------------------------
(* What sendInLoop may do, apart from the output itself: nothing unless     *)
(* state_ is kConnected, and it registers the channel at most.              *)
IsSent ==
    /\ writing' \in BOOLEAN /\ reading' = reading
    /\ outputBuffer_' \in Seq(Unit) /\ wire' \in Seq(Unit) /\ accepted' \in Seq(Nat)
    /\ status' \in {"running", "write_error", "channel_disabled"}
    /\ phase' = phase \/ (state_ = "kConnected" /\ phase' = "callback")
    /\ \/ channel' = channel
       \/ state_ = "kConnected" /\ channel \in {"new", "removed"} /\ channel' = "on"

LEMMA SendInLoopFacts ==
    ASSUME TypeOK, WritingIffOutput, status = "running", NEW m \in Nat, sendInLoop(m)
    PROVE  IsSent /\ WritingIffOutput'
<1> USE DEF TypeOK
<1>1. CASE state_ # "kConnected"
  BY <1>1 DEF sendInLoop, IsSent, WritingIffOutput, chan, output
<1>2. CASE Ends("write_error") /\ UNCHANGED <<chan, output, accepted, phase>>
  BY <1>2 DEF Ends, IsSent, WritingIffOutput, chan, output
<1>3. CASE state_ = "kConnected" /\ ~(Ends("write_error") /\ UNCHANGED <<chan, output, accepted, phase>>)
  <2>1. PICK n \in IF MayWriteNow THEN {-1, 1, 2} ELSE {0} :
          /\ wire' = wire \o SubSeq(Units(m), 1, n)
          /\ outputBuffer_' = outputBuffer_ \o Remainder(m, n)
          /\ accepted' = Append(accepted, m)
          /\ IF n < 2 /\ NeedsWriting THEN enableWriting ELSE UNCHANGED <<chan, status>>
          /\ phase' = IF n = 2 THEN "callback" ELSE phase
    BY <1>3, Zenon DEF sendInLoop
  <2>2. n \in {-1, 0, 1, 2} /\ (n = 2 => MayWriteNow)
    BY <2>1
  <2>3. /\ SubSeq(Units(m), 1, n) \in Seq(Unit) /\ Remainder(m, n) \in Seq(Unit)
        /\ Remainder(m, n) = <<>> <=> n = 2
    BY <2>2, UnitsFacts
  <2>4. /\ wire' \in Seq(Unit) /\ outputBuffer_' \in Seq(Unit) /\ accepted' \in Seq(Nat)
        /\ n # 2 => outputBuffer_' # <<>>
        /\ n = 2 => outputBuffer_' = <<>> /\ outputBuffer_ = <<>>
    <3>1. wire' \in Seq(Unit) /\ outputBuffer_' \in Seq(Unit) /\ accepted' \in Seq(Nat)
      BY <2>1, <2>3, ConcatProperties, AppendProperties
    <3>2. n # 2 => outputBuffer_' # <<>>
      BY <2>1, <2>3, ConcatEmptySeq
    <3>3. n = 2 => outputBuffer_' = <<>> /\ outputBuffer_ = <<>>
      BY <2>1, <2>2, <2>3, ConcatEmptySeq DEF MayWriteNow
    <3> QED BY <3>1, <3>2, <3>3
  <2>5. CASE n < 2 /\ NeedsWriting
    <3>1. /\ writing' = TRUE /\ reading' = reading
          /\ channel' = IF channel \in {"new", "removed"} THEN "on" ELSE channel
          /\ status' = IF channel = "disabled" THEN "channel_disabled" ELSE status
      BY <2>1, <2>5 DEF enableWriting, Ends
    <3>2. outputBuffer_' # <<>>
      BY <2>4, <2>5
    <3>3. WritingIffOutput'
      BY <3>1, <3>2 DEF WritingIffOutput
    <3> QED BY <1>3, <2>1, <2>4, <2>5, <3>1, <3>3 DEF IsSent
  <2>6. CASE ~(n < 2 /\ NeedsWriting)
    <3>1. UNCHANGED <<channel, reading, writing, status>>
      BY <2>1, <2>6 DEF chan
    <3>2. n = 2 \/ writing
      BY <2>2, <2>6 DEF NeedsWriting
    <3>3. WritingIffOutput'
      BY <2>4, <3>1, <3>2 DEF WritingIffOutput
    <3> QED BY <1>3, <2>1, <2>4, <3>1, <3>3 DEF IsSent
  <2> QED BY <2>5, <2>6
<1> QED BY <1>1, <1>2, <1>3
-----------------------------------------------------------------------------
LEMMA WriteFacts ==
    ASSUME NEW n \in 0..Len(outputBuffer_), outputBuffer_ \in Seq(Unit)
    PROVE  /\ SubSeq(outputBuffer_, 1, n) \in Seq(Unit)
           /\ SubSeq(outputBuffer_, n + 1, Len(outputBuffer_)) \in Seq(Unit)
           /\ n < Len(outputBuffer_) <=> SubSeq(outputBuffer_, n + 1, Len(outputBuffer_)) # <<>>
<1> DEFINE b == outputBuffer_
<1>1. Len(b) \in Nat /\ n \in Nat /\ \A i \in 1..Len(b) : b[i] \in Unit
  BY LenProperties, ElementOfSeq
<1> HIDE DEF b
<1>2. SubSeq(b, 1, n) \in Seq(Unit)
  <2>1. 1 \in Int /\ n \in Int /\ \A i \in 1..n : b[i] \in Unit
    BY <1>1 DEF b
  <2> QED BY ONLY <2>1, SubSeqProperties
<1>3. /\ SubSeq(b, n + 1, Len(b)) \in Seq(Unit)
      /\ Len(SubSeq(b, n + 1, Len(b))) = IF n + 1 <= Len(b) THEN Len(b) - (n + 1) + 1 ELSE 0
  <2>1. n + 1 \in Int /\ Len(b) \in Int /\ \A i \in (n + 1)..Len(b) : b[i] \in Unit
    BY <1>1
  <2> QED BY ONLY <2>1, SubSeqProperties
<1>4. n < Len(b) <=> Len(SubSeq(b, n + 1, Len(b))) # 0
  BY <1>1, <1>3
<1> QED BY <1>2, <1>3, <1>4, EmptySeq DEF b

LEMMA TypeStep == TypeOK /\ WritingIffOutput /\ [Next]_vars => TypeOK'
<1> SUFFICES ASSUME TypeOK, WritingIffOutput, [Next]_vars PROVE TypeOK'
  OBVIOUS
<1>1. CASE UNCHANGED vars
  BY <1>1 DEF TypeOK, vars
<1> SUFFICES ASSUME Next PROVE TypeOK'
  BY <1>1
<1> USE DEF TypeOK, chan, output, server, loop
<1>2. status = "running" /\ sameLoop' = sameLoop
  BY DEF Next
<1>3. \A f \in Functor : Append(ioQueue, f) \in Seq(Functor)
  BY QueueFacts
<1>4. ioQueue # <<>> => /\ Tail(ioQueue) \in Seq(Functor) /\ Head(ioQueue) \in Functor
                        /\ Head(ioQueue)[2] \in Nat
  BY QueueTail, FunctorFacts
<1>5. removeConnectionInLoop => /\ inMap' \in BOOLEAN /\ ioQueue' \in Seq(Functor)
                                /\ status' \in {status, "not_in_map"}
  BY <1>3, FunctorFacts DEF removeConnectionInLoop
<1>6. shutdownInLoop => fin' \in BOOLEAN /\ status' \in {status, "shutdown_error"}
  BY DEF shutdownInLoop, Shutdown, Ends
<1>7. CASE OnNewConnection
  <2>1. UNCHANGED <<chan, output, mainQueue, inMap, revents, checked, peer, fin, sends, accepted, status>>
    BY <1>7, Zenon DEF OnNewConnection
  <2>2. mainPc' = "insert" /\ ioQueue' \in Seq(Functor)
    BY <1>3, <1>7, FunctorFacts DEF OnNewConnection
  <2>3. /\ state_' \in {state_, "kConnected"} /\ phase' \in {phase, "callback"}
        /\ tail' \in {tail, "enableReading"}
    BY <1>7, Zenon DEF OnNewConnection
  <2> QED BY <1>2, <2>1, <2>2, <2>3
<1>8. CASE InsertIntoMap
  BY <1>2, <1>8 DEF InsertIntoMap
<1>9. CASE RunMainFunctor
  <2>1. mainQueue' \in Seq({"remove"})
    BY <1>9, HeadTailProperties DEF RunMainFunctor
  <2> QED BY <1>2, <1>5, <1>9, <2>1 DEF RunMainFunctor
<1>10. ASSUME NEW t \in Threads, SendFromThread(t) \/ ShutdownCheck(t) \/ ShutdownFromThread(t)
       PROVE  TypeOK'
  <2>1. CASE SendFromThread(t)
    <3>1. SendFunctor(sends + 1) \in Functor /\ sends + 1 \in Nat
      BY FunctorFacts
    <3>2. ioQueue' \in Seq(Functor) /\ sends' \in Nat
      BY <1>3, <2>1, <3>1 DEF SendFromThread
    <3> QED BY <1>2, <2>1, <3>2 DEF SendFromThread
  <2>2. CASE ShutdownCheck(t)
    BY <1>2, <2>2 DEF ShutdownCheck
  <2>3. CASE ShutdownFromThread(t)
    <3>1. ioQueue' \in Seq(Functor)
      BY <1>3, <2>3, FunctorFacts DEF ShutdownFromThread
    <3> QED BY <1>2, <2>3, <3>1 DEF ShutdownFromThread
  <2> QED BY <1>10, <2>1, <2>2, <2>3
<1>11. CASE SendInCallback
  <2>1. IsSent
    BY <1>2, <1>11, SendInLoopFacts DEF SendInCallback
  <2> QED BY <1>2, <1>11, <2>1 DEF SendInCallback, IsSent
<1>12. CASE ShutdownInCallback
  BY <1>2, <1>6, <1>12 DEF ShutdownInCallback
<1>13. CASE RunFunctor
  <2>1. ioQueue' \in Seq(Functor)
    BY <1>4, <1>13 DEF RunFunctor
  <2>2. CASE RunSend
    <3>1. IsSent
      BY <1>2, <1>4, <1>13, <2>2, SendInLoopFacts DEF RunFunctor, RunSend
    <3> QED BY <1>2, <1>13, <2>1, <2>2, <3>1 DEF RunFunctor, RunSend, IsSent
  <2>3. CASE RunShutdown
    BY <1>2, <1>6, <1>13, <2>1, <2>3 DEF RunFunctor, RunShutdown
  <2>4. CASE connectionEstablished \/ destoryedConnection
    BY <1>2, <1>13, <2>1, <2>4 DEF RunFunctor, connectionEstablished, destoryedConnection
  <2> QED BY <1>13, <2>2, <2>3, <2>4 DEF RunFunctor
<1>14. CASE Poll \/ HandleReadData \/ EndOfEvents
  <2>1. /\ UNCHANGED <<state_, chan, output, ioQueue, server, checked, peer, fin, sends, accepted, status>>
        /\ phase' \in {"poll", "events", "callback"} /\ tail' \in {tail, "none"}
    BY <1>14, Zenon DEF Poll, HandleReadData, EndOfEvents
  <2>2. revents' \subseteq {"read", "write"}
    BY <1>14 DEF Poll, HandleReadData, EndOfEvents
  <2> QED BY <1>2, <2>1, <2>2
<1>15. CASE HandleClose
  <2>1. mainQueue' \in Seq({"remove"})
    <3>1. Append(mainQueue, "remove") \in Seq({"remove"})
      BY AppendProperties
    <3>2. mainQueue' = mainQueue \/ mainQueue' = Append(mainQueue, "remove")
      BY <1>15 DEF HandleClose
    <3> QED BY <3>1, <3>2
  <2> QED BY <1>2, <1>5, <1>15, <2>1 DEF HandleClose, AfterDisableAll, Ends
<1>16. CASE HandleWrite
  <2>1. CASE UNCHANGED <<writing, output, phase, tail>>
    BY <1>2, <1>16, <2>1 DEF HandleWrite, Ends
  <2>2. CASE ~UNCHANGED <<writing, output, phase, tail>>
    <3>1. PICK n \in 0..Len(outputBuffer_) :
            /\ wire' = wire \o SubSeq(outputBuffer_, 1, n)
            /\ outputBuffer_' = SubSeq(outputBuffer_, n + 1, Len(outputBuffer_))
            /\ writing' = (n < Len(outputBuffer_))
            /\ IF writing' THEN UNCHANGED <<phase, tail>>
                           ELSE phase' = "callback" /\ tail' = "drained"
      BY <1>16, <2>2, Zenon DEF HandleWrite
    <3>2. wire' \in Seq(Unit) /\ outputBuffer_' \in Seq(Unit) /\ writing' \in BOOLEAN
      BY <3>1, WriteFacts, ConcatProperties
    <3>3. phase' \in {phase, "callback"} /\ tail' \in {tail, "drained"}
      BY <3>1, Zenon
    <3>4. status' = status
      BY <1>16, <2>2 DEF HandleWrite
    <3> QED BY <1>2, <1>16, <3>2, <3>3, <3>4 DEF HandleWrite
  <2> QED BY <2>1, <2>2
<1>17. CASE CallbackReturns
  <2>1. /\ UNCHANGED <<state_, writing, output, ioQueue, server, revents, checked, peer, sends, accepted>>
        /\ tail' = "none"
    BY <1>17, Zenon DEF CallbackReturns
  <2>2. CASE ThenEnableReading
    BY <1>2, <2>1, <2>2 DEF ThenEnableReading
  <2>3. CASE ThenRemove
    BY <1>2, <2>1, <2>3 DEF ThenRemove, Ends
  <2>4. CASE ThenHandleEvents
    <3>1. fin' \in BOOLEAN /\ status' \in {status, "shutdown_error"}
      BY <1>6, <2>4 DEF ThenHandleEvents
    <3> QED BY <1>2, <2>1, <2>4, <3>1 DEF ThenHandleEvents
  <2> QED BY <1>17, <2>2, <2>3, <2>4 DEF CallbackReturns
<1>18. ASSUME NEW how \in {"fin", "reset"}, PeerLeaves(how) PROVE TypeOK'
  BY <1>2, <1>18 DEF PeerLeaves
<1> QED BY <1>7, <1>8, <1>9, <1>10, <1>11, <1>12, <1>13, <1>14, <1>15, <1>16, <1>17, <1>18
        DEF Next, ServerStep, LoopStep

(* Output: every action that touches the output or the channel keeps the    *)
(* two in step.                                                             *)
LEMMA WritingStep == IInv /\ [Next]_vars => WritingIffOutput'
<1> SUFFICES ASSUME IInv, [Next]_vars PROVE WritingIffOutput'
  OBVIOUS
<1>0. TypeOK /\ WritingIffOutput
  BY DEF IInv
<1>1. ASSUME UNCHANGED <<channel, writing, outputBuffer_>>, status = "running" \/ status' = status
      PROVE  WritingIffOutput'
  BY <1>0, <1>1 DEF WritingIffOutput
<1>2. CASE UNCHANGED vars
  BY <1>1, <1>2 DEF vars
<1> SUFFICES ASSUME Next PROVE WritingIffOutput'
  BY <1>2
<1>3. status = "running"
  BY DEF Next
<1>4. CASE OnNewConnection \/ InsertIntoMap \/ RunMainFunctor \/ Poll \/ HandleReadData
             \/ ShutdownInCallback \/ EndOfEvents
  BY <1>1, <1>3, <1>4 DEF OnNewConnection, InsertIntoMap, RunMainFunctor, Poll, HandleReadData,
       ShutdownInCallback, EndOfEvents, chan, output
<1>5. ASSUME NEW t, SendFromThread(t) \/ ShutdownCheck(t) \/ ShutdownFromThread(t) \/ PeerLeaves(t)
      PROVE  WritingIffOutput'
  BY <1>1, <1>3, <1>5 DEF SendFromThread, ShutdownCheck, ShutdownFromThread, PeerLeaves, chan, output
<1>6. CASE SendInCallback
  <2>1. sends + 1 \in Nat
    BY <1>0 DEF TypeOK
  <2> QED BY <1>0, <1>3, <1>6, <2>1, SendInLoopFacts DEF SendInCallback
<1>7. CASE RunFunctor
  <2>1. CASE RunSend
    <3>1. Head(ioQueue)[2] \in Nat
      BY <1>0, <1>7, QueueTail, FunctorFacts DEF RunFunctor, TypeOK
    <3> QED BY <1>0, <1>3, <2>1, <3>1, SendInLoopFacts DEF RunSend
  <2>2. CASE RunShutdown \/ connectionEstablished \/ destoryedConnection
    BY <1>1, <1>3, <2>2 DEF RunShutdown, connectionEstablished, destoryedConnection, chan, output
  <2> QED BY <1>7, <2>1, <2>2 DEF RunFunctor
<1>8. CASE HandleClose
  BY <1>8 DEF HandleClose, AfterDisableAll, WritingIffOutput
<1>9. CASE HandleWrite
  <2>1. CASE UNCHANGED <<writing, output, phase, tail>>
    BY <1>1, <1>3, <1>9, <2>1 DEF HandleWrite, output
  <2>2. CASE ~UNCHANGED <<writing, output, phase, tail>>
    <3>1. PICK n \in 0..Len(outputBuffer_) :
            /\ outputBuffer_' = SubSeq(outputBuffer_, n + 1, Len(outputBuffer_))
            /\ writing' = (n < Len(outputBuffer_))
      BY <1>9, <2>2, Zenon DEF HandleWrite
    <3>2. n < Len(outputBuffer_) <=> outputBuffer_' # <<>>
      BY <1>0, <3>1, WriteFacts DEF TypeOK
    <3> QED BY <3>1, <3>2, Zenon DEF WritingIffOutput
  <2> QED BY <2>1, <2>2
<1>10. CASE CallbackReturns
  <2>1. UNCHANGED <<writing, outputBuffer_>>
    BY <1>10 DEF CallbackReturns, output
  <2>2. CASE ThenEnableReading
    <3>1. channel \in {"new", "on"}
      BY <1>3, <2>2 DEF ThenEnableReading, IInv, Stages, Waiting, Establishing, Up, Closing,
                        Destroying, Removed, InHandler, Places
    <3>2. channel' = "on" /\ status' = status
      BY <2>2 DEF ThenEnableReading
    <3> QED BY <1>0, <2>1, <3>1, <3>2 DEF WritingIffOutput
  <2>3. CASE ThenRemove
    BY <2>1, <2>3 DEF ThenRemove, WritingIffOutput
  <2>4. CASE ThenHandleEvents
    BY <1>1, <1>3, <2>1, <2>4 DEF ThenHandleEvents
  <2> QED BY <1>10, <2>2, <2>3, <2>4 DEF CallbackReturns
<1> QED BY <1>4, <1>5, <1>6, <1>7, <1>8, <1>9, <1>10 DEF Next, ServerStep, LoopStep
-----------------------------------------------------------------------------
(* The life of the connection, action by action.                            *)
LifeGoesOn == LifecycleAsserts' /\ (status' = "running" => Places' /\ Stages')

LEMMA LifeStep == IInv /\ [Next]_vars => LifeGoesOn
<1> SUFFICES ASSUME IInv, [Next]_vars PROVE LifeGoesOn
  OBVIOUS
<1>1. CASE UNCHANGED vars
  BY <1>1 DEF vars, IInv, LifeGoesOn, LifecycleAsserts, Places, Stages, Waiting, Establishing, Up,
              Closing, Destroying, Removed, NothingPended, IsLive, InHandler
<1> SUFFICES ASSUME Next PROVE LifeGoesOn
  BY <1>1
<1>2. /\ TypeOK /\ WritingIffOutput /\ LifecycleAsserts /\ Places /\ Stages
      /\ status = "running" /\ sameLoop' = sameLoop
  BY DEF IInv, Next
<1> USE DEF chan, output, server, loop
<1>3. (* steps that change neither the places nor the functors that matter  *)
      ASSUME UNCHANGED <<channel, mainQueue, mainPc, sameLoop>>,
             tail' = tail, phase' = phase \/ (state_ = "kConnected" /\ phase' = "callback" /\ ~Waiting),
             IsLive => IsLive',
             state_ \in {"kDisConnected", "kDisConnecting"} => state_' \in {"kDisConnected", "kDisConnecting"},
             Waiting => UNCHANGED <<state_, checked, ioQueue>>,
             Holds(ioQueue, Established)' => Holds(ioQueue, Established),
             Holds(ioQueue, Destroyed)' => Holds(ioQueue, Destroyed),
             HoldsOnce(ioQueue, Destroyed) => HoldsOnce(ioQueue, Destroyed)'
      PROVE  Stages'
  <2>1. CASE Waiting
    BY <1>3, <2>1 DEF Stages, Waiting
  <2>2. CASE Establishing
    BY <1>3, <2>2 DEF Stages, Establishing, NothingPended
  <2>3. CASE Up
    BY <1>3, <2>3 DEF Stages, Up, NothingPended, InHandler
  <2>4. CASE Closing
    BY <1>3, <2>4 DEF Stages, Closing, InHandler
  <2>5. CASE Destroying
    BY <1>3, <2>5 DEF Stages, Destroying, NothingPended
  <2>6. CASE Removed
    BY <1>3, <2>6 DEF Stages, Removed, NothingPended, InHandler
  <2> QED BY <1>2, <2>1, <2>2, <2>3, <2>4, <2>5, <2>6 DEF Stages
<1>4. CASE OnNewConnection
  <2>1. /\ mainPc = "accept" /\ mainPc' = "insert"
        /\ UNCHANGED <<channel, mainQueue, inMap, revents, checked, status>>
    BY <1>4, Zenon DEF OnNewConnection
  <2>2. Waiting
    BY <1>2, <2>1 DEF Stages, Waiting, Establishing, Up, Closing, Destroying, Removed
  <2>3. phase = "poll" /\ tail = "none" /\ revents = {} /\ ioQueue = <<>> /\ mainQueue = <<>>
    BY <1>2, <2>1, <2>2 DEF Waiting, Places
  <2>4. CASE sameLoop
    <3>1. state_' = "kConnected" /\ phase' = "callback" /\ tail' = "enableReading" /\ ioQueue' = ioQueue
      BY <1>4, <2>4 DEF OnNewConnection
    <3>2. Establishing'
      BY <2>1, <2>2, <2>3, <3>1, QueueOfOne DEF Waiting, Establishing, IsLive, NothingPended
    <3> QED BY <1>2, <2>1, <2>3, <3>1, <3>2 DEF LifeGoesOn, LifecycleAsserts, Places, Stages
  <2>5. CASE ~sameLoop
    <3>1. UNCHANGED <<state_, phase, tail>> /\ ioQueue' = <<Established>>
      BY <1>4, <2>3, <2>5 DEF OnNewConnection
    <3>2. Waiting'
      BY <1>2, <2>1, <2>2, <2>5, <3>1 DEF Waiting
    <3> QED BY <1>2, <2>1, <2>3, <2>5, <3>1, <3>2 DEF LifeGoesOn, LifecycleAsserts, Places, Stages
  <2> QED BY <2>4, <2>5
<1>5. CASE InsertIntoMap
  <2>1. /\ mainPc = "insert" /\ mainPc' = "idle" /\ inMap' = TRUE
        /\ UNCHANGED <<state_, channel, ioQueue, mainQueue, phase, tail, revents, checked, status>>
    BY <1>5, Zenon DEF InsertIntoMap
  <2>2. Stages'
    BY <1>2, <2>1 DEF Stages, Waiting, Establishing, Up, Closing, Destroying, Removed, NothingPended,
                      IsLive, InHandler
  <2>3. Places'
    BY <1>2, <2>1 DEF Places
  <2> QED BY <1>2, <2>1, <2>2, <2>3 DEF LifeGoesOn, LifecycleAsserts
<1>6. CASE RunMainFunctor
  <2>1. /\ mainQueue # <<>> /\ mainPc = "idle" /\ mainQueue' = Tail(mainQueue) /\ removeConnectionInLoop
        /\ UNCHANGED <<state_, channel, mainPc, phase, tail, revents, checked>>
    BY <1>6, Zenon DEF RunMainFunctor, MainLoopIsFree
  <2>2. /\ Closing /\ mainQueue = <<"remove">> /\ ~Holds(ioQueue, Destroyed)
    BY <1>2, <2>1 DEF Stages, Waiting, Establishing, Up, Closing, Destroying, Removed, NothingPended
  <2>3. inMap /\ mainQueue' = <<>>
    BY <1>2, <2>1, <2>2 DEF Places
  <2>4. ioQueue' = Append(ioQueue, Destroyed) /\ status' = status
    BY <2>1, <2>3 DEF removeConnectionInLoop
  <2>5. HoldsOnce(ioQueue, Destroyed)' /\ ~Holds(ioQueue, Established)'
    BY <1>2, <2>2, <2>4, QueueFacts, FunctorFacts DEF TypeOK, Closing
  <2>6. Closing'
    BY <2>1, <2>2, <2>3, <2>5 DEF Closing, IsLive, InHandler
  <2>7. Places'
    BY <1>2, <2>1, <2>2, <2>3 DEF Places, Closing
  <2> QED BY <1>2, <2>4, <2>6, <2>7 DEF LifeGoesOn, LifecycleAsserts, Stages
<1>7. ASSUME NEW f \in Functor, f # Established, f # Destroyed, ioQueue' = Append(ioQueue, f)
      PROVE  /\ Holds(ioQueue, Established)' => Holds(ioQueue, Established)
             /\ Holds(ioQueue, Destroyed)' => Holds(ioQueue, Destroyed)
             /\ HoldsOnce(ioQueue, Destroyed) => HoldsOnce(ioQueue, Destroyed)'
  BY <1>2, <1>7, QueueFacts DEF TypeOK
<1>8. ASSUME NEW t \in Threads, SendFromThread(t) \/ ShutdownCheck(t) \/ ShutdownFromThread(t)
      PROVE  LifeGoesOn
  <2>1. UNCHANGED <<channel, mainQueue, mainPc, phase, tail, revents, inMap, status>>
    BY <1>8, Zenon DEF SendFromThread, ShutdownCheck, ShutdownFromThread
  <2>2. Places'
    BY <1>2, <2>1 DEF Places
  <2>3. ~Waiting
    BY <1>8 DEF Waiting, SendFromThread, ShutdownCheck, ShutdownFromThread
  <2>4. CASE SendFromThread(t)
    <3>1. ioQueue' = Append(ioQueue, SendFunctor(sends + 1)) /\ state_' = state_ /\ sends + 1 \in Nat
      BY <1>2, <2>4 DEF SendFromThread, TypeOK
    <3>2. Stages'
      BY <1>2, <1>3, <1>7, <2>1, <2>3, <3>1, FunctorFacts DEF IsLive
    <3> QED BY <1>2, <2>1, <2>2, <3>2 DEF LifeGoesOn, LifecycleAsserts
  <2>5. CASE ShutdownCheck(t)
    <3>1. ioQueue' = ioQueue /\ state_' = state_
      BY <2>5 DEF ShutdownCheck
    <3>2. Stages'
      BY <1>2, <1>3, <2>1, <2>3, <3>1 DEF IsLive, Holds, HoldsOnce
    <3> QED BY <1>2, <2>1, <2>2, <3>2 DEF LifeGoesOn, LifecycleAsserts
  <2>6. CASE ShutdownFromThread(t)
    <3>1. ioQueue' = Append(ioQueue, ShutdownFunctor) /\ state_' = "kDisConnecting"
      BY <2>6 DEF ShutdownFromThread
    <3>2. Stages'
      BY <1>2, <1>3, <1>7, <2>1, <2>3, <3>1, FunctorFacts DEF IsLive
    <3> QED BY <1>2, <2>1, <2>2, <3>2 DEF LifeGoesOn, LifecycleAsserts
  <2> QED BY <1>8, <2>4, <2>5, <2>6
<1>9. (* sendInLoop, from a callback or from a functor that was taken out    *)
      ASSUME IsSent, ~Waiting, UNCHANGED <<state_, mainQueue, mainPc, tail, revents, inMap>>,
             phase # "events", phase = "poll" => (sameLoop => mainPc = "idle"),
             ~Holds(ioQueue, Established)' \/ Holds(ioQueue, Established),
             ~Holds(ioQueue, Destroyed)' \/ Holds(ioQueue, Destroyed),
             HoldsOnce(ioQueue, Destroyed) => HoldsOnce(ioQueue, Destroyed)'
      PROVE  LifeGoesOn
  <2>1. channel' = channel \/ (state_ = "kConnected" /\ channel = "new" /\ channel' = "on" /\ Establishing)
    BY <1>2, <1>9 DEF IsSent, Stages, Waiting, Establishing, Up, Closing, Destroying, Removed
  <2>2. Stages'
    <3>1. CASE channel' = channel
      BY <1>2, <1>3, <1>9, <3>1 DEF IsSent, IsLive
    <3>2. CASE channel' = "on" /\ Establishing
      BY <1>9, <3>2 DEF IsSent, Stages, Establishing, IsLive, NothingPended
    <3> QED BY <2>1, <3>1, <3>2
  <2>3. Places'
    BY <1>2, <1>9, <2>1 DEF Places, IsSent, Establishing
  <2>4. LifecycleAsserts'
    BY <1>9 DEF IsSent, LifecycleAsserts
  <2> QED BY <2>2, <2>3, <2>4 DEF LifeGoesOn
<1>10. CASE SendInCallback
  <2>1. IsSent
    <3>1. sends + 1 \in Nat
      BY <1>2 DEF TypeOK
    <3> QED BY <1>2, <1>10, <3>1, SendInLoopFacts DEF SendInCallback
  <2>2. /\ UNCHANGED <<state_, ioQueue, mainQueue, mainPc, tail, revents, inMap>> /\ phase = "callback"
    BY <1>10, Zenon DEF SendInCallback
  <2>3. ~Waiting
    BY <2>2 DEF Waiting
  <2> QED BY <1>9, <2>1, <2>2, <2>3 DEF Holds, HoldsOnce
<1>11. shutdownInLoop => status' \in {"running", "shutdown_error"}
  BY <1>2 DEF shutdownInLoop, Shutdown, Ends
<1>12. CASE ShutdownInCallback
  <2>1. /\ UNCHANGED <<channel, ioQueue, mainQueue, mainPc, phase, tail, revents, inMap>>
        /\ phase = "callback" /\ state_' = "kDisConnecting" /\ shutdownInLoop
    BY <1>12, Zenon DEF ShutdownInCallback
  <2>2. Stages'
    BY <1>2, <1>3, <2>1 DEF IsLive, Waiting, Holds, HoldsOnce
  <2>3. Places'
    BY <1>2, <2>1 DEF Places
  <2> QED BY <1>11, <2>1, <2>2, <2>3 DEF LifeGoesOn, LifecycleAsserts
<1>13. CASE RunFunctor
  <2> DEFINE f == Head(ioQueue)
  <2>1. /\ phase = "poll" /\ (sameLoop => mainPc = "idle") /\ ioQueue # <<>> /\ ioQueue' = Tail(ioQueue)
        /\ UNCHANGED <<mainQueue, inMap, mainPc, revents, checked>>
    BY <1>13 DEF RunFunctor, MyLoopIsFree
  <2>2. /\ f \in Functor /\ Holds(ioQueue, f)
        /\ \A g : Holds(ioQueue, g)' => Holds(ioQueue, g)
        /\ \A g : HoldsOnce(ioQueue, g) => IF f = g THEN ~Holds(ioQueue, g)' ELSE HoldsOnce(ioQueue, g)'
    BY <1>2, <2>1, QueueTail DEF TypeOK
  <2>3. f = Established <=> Waiting
    <3>1. Waiting => ioQueue = <<Established>>
      BY <2>1 DEF Waiting
    <3>2. ~Waiting => ~Holds(ioQueue, Established)
      BY <1>2 DEF Stages, Establishing, Up, Closing, Destroying, Removed, NothingPended
    <3> QED BY <2>2, <3>1, <3>2, QueueOfOne
  <2>4. tail = "none" /\ revents = {}
    BY <1>2, <2>1 DEF Places
  <2>5. f = Destroyed => Closing /\ mainQueue = <<>> /\ HoldsOnce(ioQueue, Destroyed) /\ mainPc = "idle"
    BY <1>2, <2>2, <2>3, FunctorFacts DEF Stages, Establishing, Up, Closing, Destroying, Removed,
                                          NothingPended
  <2>6. CASE RunSend
    <3>1. f[1] = "send" /\ f[2] \in Nat /\ sendInLoop(f[2]) /\ UNCHANGED <<state_, tail, fin>>
      BY <2>2, <2>6, FunctorFacts DEF RunSend
    <3>2. IsSent
      BY <1>2, <3>1, SendInLoopFacts
    <3>3. f # Established /\ f # Destroyed
      BY <3>1, FunctorFacts
    <3> QED BY <1>9, <2>1, <2>2, <2>3, <3>1, <3>2, <3>3
  <2>7. CASE RunShutdown
    <3>1. f = ShutdownFunctor /\ shutdownInLoop /\ UNCHANGED <<state_, channel, phase, tail>>
      BY <2>7 DEF RunShutdown
    <3>2. f # Established /\ f # Destroyed
      BY <3>1, FunctorFacts
    <3>3. Stages'
      BY <1>2, <1>3, <2>1, <2>2, <2>3, <3>1, <3>2 DEF IsLive
    <3>4. Places'
      BY <1>2, <2>1, <3>1 DEF Places
    <3> QED BY <1>11, <3>1, <3>3, <3>4 DEF LifeGoesOn, LifecycleAsserts
  <2>8. CASE connectionEstablished
    <3>1. /\ f = Established /\ state_' = "kConnected" /\ phase' = "callback" /\ tail' = "enableReading"
          /\ UNCHANGED <<channel, status>>
      BY <2>8, Zenon DEF connectionEstablished
    <3>2. Waiting /\ ioQueue' = <<>> /\ mainPc # "accept"
      BY <2>1, <2>3, <3>1, QueueOfOne DEF Waiting
    <3>3. Establishing'
      BY <2>1, <3>1, <3>2, QueueOfOne DEF Waiting, Establishing, IsLive, NothingPended
    <3>4. Places'
      BY <1>2, <2>1, <2>4, <3>1 DEF Places
    <3> QED BY <1>2, <3>1, <3>3, <3>4 DEF LifeGoesOn, LifecycleAsserts, Stages
  <2>9. CASE destoryedConnection
    <3>1. /\ f = Destroyed /\ state_' = "kDisConnected" /\ phase' = "callback" /\ tail' = "remove"
          /\ channel' = channel
          /\ status' = IF state_ \in {"kDisConnecting", "kConnected"} THEN status ELSE "bad_state"
      BY <2>9, Zenon DEF destoryedConnection
    <3>2. Destroying' /\ status' = status
      BY <2>1, <2>2, <2>5, <3>1 DEF Closing, Destroying, IsLive, NothingPended
    <3>3. Places'
      BY <1>2, <2>1, <2>4, <3>1 DEF Places
    <3> QED BY <1>2, <3>2, <3>3 DEF LifeGoesOn, LifecycleAsserts, Stages
  <2> QED BY <1>13, <2>6, <2>7, <2>8, <2>9 DEF RunFunctor
<1>14. (* events are taken from poll and handled one after the other         *)
       ASSUME ~Waiting, InHandler, InHandler',
              UNCHANGED <<channel, state_, ioQueue, mainQueue, mainPc, checked>>
       PROVE  Stages'
  BY <1>2, <1>14 DEF Stages, Establishing, Up, Closing, Destroying, Removed, NothingPended,
                     IsLive, InHandler
<1>15. CASE Poll
  <2>1. /\ phase = "poll" /\ (sameLoop => mainPc = "idle") /\ channel = "on" /\ phase' = "events"
        /\ UNCHANGED <<channel, state_, ioQueue, mainQueue, mainPc, checked, tail, inMap, status>>
    BY <1>15, Zenon DEF Poll, MyLoopIsFree
  <2>2. tail = "none" /\ ~Waiting
    BY <1>2, <2>1 DEF Places, Waiting
  <2>3. Stages'
    BY <1>14, <2>1, <2>2 DEF InHandler
  <2>4. Places'
    BY <1>2, <2>1, <2>2 DEF Places
  <2> QED BY <1>2, <2>1, <2>3, <2>4 DEF LifeGoesOn, LifecycleAsserts
<1>16. CASE HandleReadData
  <2>1. /\ phase = "events" /\ phase' = "callback" /\ tail' = "none" /\ revents' = revents \ {"read"}
        /\ UNCHANGED <<channel, state_, ioQueue, mainQueue, mainPc, checked, inMap, status>>
    BY <1>16, Zenon DEF HandleReadData
  <2>2. tail = "none" /\ ~Waiting
    BY <1>2, <2>1 DEF Places, Waiting
  <2>3. Stages'
    BY <1>14, <2>1, <2>2 DEF InHandler
  <2>4. Places'
    BY <1>2, <2>1, <2>2 DEF Places
  <2> QED BY <1>2, <2>1, <2>3, <2>4 DEF LifeGoesOn, LifecycleAsserts
<1>17. CASE EndOfEvents
  <2>1. /\ phase = "events" /\ revents = {} /\ phase' = "poll"
        /\ UNCHANGED <<channel, state_, ioQueue, mainQueue, mainPc, checked, inMap, tail, revents, status>>
    BY <1>17, Zenon DEF EndOfEvents
  <2>2. tail = "none" /\ ~Waiting
    BY <1>2, <2>1 DEF Places, Waiting
  <2>3. Stages'
    BY <1>14, <2>1, <2>2 DEF InHandler
  <2>4. Places'
    BY <1>2, <2>1, <2>2 DEF Places
  <2> QED BY <1>2, <2>1, <2>3, <2>4 DEF LifeGoesOn, LifecycleAsserts
<1>18. CASE HandleClose
  <2>1. /\ phase = "events" /\ "read" \in revents /\ revents' = revents \ {"read"} /\ channel' = "disabled"
        /\ UNCHANGED <<state_, phase, tail, checked>>
    BY <1>18, Zenon DEF HandleClose, AfterDisableAll
  <2>2. Up
    BY <1>2, <2>1 DEF Places, Stages, Waiting, Establishing, Up, Closing, Destroying, Removed
  <2>3. tail = "none" /\ (sameLoop => mainPc = "idle") /\ (mainPc = "idle" => inMap)
    <3>1. mainPc \in {"accept", "insert", "idle"}
      BY <1>2 DEF TypeOK
    <3> QED BY <1>2, <2>1, <2>2, <3>1 DEF Places, Up
  <2>4. CASE sameLoop
    <3>1. removeConnectionInLoop /\ UNCHANGED <<mainQueue, mainPc>>
      BY <1>18, <2>2, <2>4 DEF HandleClose, Up, IsLive
    <3>2. ioQueue' = Append(ioQueue, Destroyed) /\ status' = status
      BY <2>3, <2>4, <3>1 DEF removeConnectionInLoop
    <3>3. HoldsOnce(ioQueue, Destroyed)' /\ ~Holds(ioQueue, Established)'
      BY <1>2, <2>2, <3>2, QueueFacts, FunctorFacts DEF TypeOK, Up, NothingPended
    <3>4. Closing'
      BY <2>1, <2>2, <2>3, <2>4, <3>1, <3>3 DEF Up, Closing, IsLive, InHandler, NothingPended
    <3>5. Places'
      BY <1>2, <2>1, <2>2, <2>3, <2>4, <3>1 DEF Places, Up, NothingPended
    <3> QED BY <1>2, <3>2, <3>4, <3>5 DEF LifeGoesOn, LifecycleAsserts, Stages
  <2>5. CASE ~sameLoop
    <3>1. mainQueue' = Append(mainQueue, "remove") /\ UNCHANGED <<inMap, mainPc, ioQueue, status>>
      BY <1>18, <2>2, <2>5 DEF HandleClose, Up, IsLive
    <3>2. mainQueue' = <<"remove">>
      BY <2>2, <3>1 DEF Up, NothingPended
    <3>3. Closing'
      BY <2>1, <2>2, <2>3, <3>1, <3>2 DEF Up, Closing, IsLive, InHandler, NothingPended
    <3>4. Places'
      BY <1>2, <2>1, <2>3, <2>5, <3>1 DEF Places
    <3> QED BY <1>2, <3>1, <3>3, <3>4 DEF LifeGoesOn, LifecycleAsserts, Stages
  <2> QED BY <2>4, <2>5
<1>19. CASE HandleWrite
  <2>1. /\ phase = "events" /\ revents = {"write"} /\ revents' = {}
        /\ UNCHANGED <<channel, state_, ioQueue, mainQueue, mainPc, checked, inMap>>
    BY <1>19, Zenon DEF HandleWrite
  <2>2. tail = "none" /\ ~Waiting
    BY <1>2, <2>1 DEF Places, Waiting
  <2>3. /\ status' \in {"running", "write_error"}
        /\ UNCHANGED <<phase, tail>> \/ (phase' = "callback" /\ tail' = "drained")
    BY <1>2, <1>19, Zenon DEF HandleWrite, Ends
  <2>4. Stages'
    BY <1>14, <2>1, <2>2, <2>3 DEF InHandler
  <2>5. Places'
    BY <1>2, <2>1, <2>2, <2>3 DEF Places
  <2> QED BY <2>3, <2>4, <2>5 DEF LifeGoesOn, LifecycleAsserts
<1>20. CASE CallbackReturns
  <2>1. /\ phase = "callback" /\ tail' = "none"
        /\ UNCHANGED <<state_, ioQueue, mainQueue, inMap, mainPc, revents, checked>>
    BY <1>20, Zenon DEF CallbackReturns
  <2>2. ~Waiting
    BY <2>1 DEF Waiting
  <2>3. CASE ThenEnableReading
    <3>1. tail = "enableReading" /\ channel' = "on" /\ phase' = "poll" /\ status' = status
      BY <2>3 DEF ThenEnableReading
    <3>2. Establishing
      BY <1>2, <2>2, <3>1 DEF Stages, Up, Closing, Destroying, Removed, InHandler
    <3>3. Up'
      BY <2>1, <3>1, <3>2 DEF Establishing, Up, IsLive, InHandler, NothingPended
    <3>4. Places'
      BY <1>2, <2>1, <3>1, <3>2 DEF Places, Establishing
    <3> QED BY <1>2, <3>1, <3>3, <3>4 DEF LifeGoesOn, LifecycleAsserts, Stages
  <2>4. CASE ThenRemove
    <3>1. tail = "remove" /\ channel' = "removed" /\ phase' = "poll"
      BY <2>4 DEF ThenRemove
    <3>2. Destroying
      BY <1>2, <2>2, <3>1 DEF Stages, Establishing, Up, Closing, Removed, InHandler
    <3>3. status' = status
      BY <2>4, <3>2 DEF ThenRemove, Destroying
    <3>4. Removed'
      BY <2>1, <3>1, <3>2 DEF Destroying, Removed, InHandler, NothingPended
    <3>5. Places'
      BY <1>2, <2>1, <3>1, <3>2 DEF Places, Destroying, NothingPended
    <3> QED BY <1>2, <3>3, <3>4, <3>5 DEF LifeGoesOn, LifecycleAsserts, Stages
  <2>5. CASE ThenHandleEvents
    <3>1. InHandler /\ phase' = "events" /\ channel' = channel /\ status' \in {"running", "shutdown_error"}
      BY <1>2, <1>11, <2>5 DEF ThenHandleEvents, InHandler
    <3>2. Stages'
      BY <1>14, <2>1, <2>2, <3>1 DEF InHandler
    <3>3. Places'
      BY <1>2, <2>1, <3>1 DEF Places, InHandler
    <3> QED BY <3>1, <3>2, <3>3 DEF LifeGoesOn, LifecycleAsserts
  <2> QED BY <1>20, <2>3, <2>4, <2>5 DEF CallbackReturns
<1>21. ASSUME NEW how \in {"fin", "reset"}, PeerLeaves(how) PROVE LifeGoesOn
  <2>1. UNCHANGED <<channel, state_, ioQueue, mainQueue, mainPc, phase, tail, revents, checked, inMap, status>>
    BY <1>21, Zenon DEF PeerLeaves
  <2>2. Stages'
    BY <1>2, <1>3, <2>1 DEF IsLive, Holds, HoldsOnce
  <2>3. Places'
    BY <1>2, <2>1 DEF Places
  <2> QED BY <1>2, <2>1, <2>2, <2>3 DEF LifeGoesOn, LifecycleAsserts
<1> QED BY <1>4, <1>5, <1>6, <1>8, <1>10, <1>12, <1>13, <1>15, <1>16, <1>17, <1>18, <1>19, <1>20, <1>21
        DEF Next, ServerStep, LoopStep
-----------------------------------------------------------------------------
(* The invariant behind the theorems below: it is inductive.                *)
THEOREM Invariance == Spec => []IInv
<1>1. IInv /\ [Next]_vars => IInv'
  BY TypeStep, WritingStep, LifeStep DEF IInv, LifeGoesOn
<1> QED BY InitInv, <1>1, PTL DEF Spec

(* sendInLoop and handleWrite: the channel waits for writability exactly    *)
(* when output waits, until handleClose disables it.                        *)
THEOREM OutputIsWatched == Spec => []WritingIffOutput
<1>1. IInv => WritingIffOutput
  BY DEF IInv
<1> QED BY <1>1, Invariance, PTL

(* The asserts of handleClose, removeConnectionInLoop, destoryedConnection  *)
(* and removeFdChannel on the life of a connection hold, with one loop or   *)
(* with two.                                                                *)
THEOREM LifecycleIsRight == Spec => []LifecycleAsserts
<1>1. IInv => LifecycleAsserts
  BY DEF IInv
<1> QED BY <1>1, Invariance, PTL

(* shutdownInLoop: no FIN is sent in front of accepted output.              *)
THEOREM FinComesLast == Spec => FinAfterOutput
<1> DEFINE After == fin' /\ ~fin => outputBuffer_ = <<>> \/ channel \in {"disabled", "removed"}
<1>1. IInv /\ [Next]_vars => [After]_vars
  <2> SUFFICES ASSUME IInv, Next, fin' # fin
               PROVE  outputBuffer_ = <<>> \/ channel \in {"disabled", "removed"}
    OBVIOUS
  <2>1. shutdownInLoop /\ status = "running"
    BY DEF Next, ServerStep, LoopStep, OnNewConnection, InsertIntoMap, RunMainFunctor, Poll,
           HandleReadData, SendInCallback, ShutdownInCallback, SendFromThread, ShutdownCheck,
           ShutdownFromThread, PeerLeaves, RunFunctor, RunSend, RunShutdown,
           connectionEstablished, destoryedConnection, HandleClose, HandleWrite, EndOfEvents,
           CallbackReturns, ThenEnableReading, ThenRemove, ThenHandleEvents
  <2>2. ~writing
    BY <2>1 DEF shutdownInLoop
  <2> QED BY <2>1, <2>2 DEF IInv, WritingIffOutput
<1> QED BY <1>1, Invariance, PTL DEF Spec, FinAfterOutput
-----------------------------------------------------------------------------
(* Order.  A message whose send is pended is new: it has been accepted      *)
(* neither before nor by another pended send.                               *)
NewSends ==
    /\ Range(accepted) \subseteq 1..sends
    /\ \A m \in Nat : Holds(ioQueue, SendFunctor(m)) =>
         m \in 1..sends /\ m \notin Range(accepted) /\ HoldsOnce(ioQueue, SendFunctor(m))

(* A message as sendInLoop leaves it, with a stray unit in front or not.    *)
IsMessage(s, m) ==
    /\ s \in Seq(Unit)
    /\ Range(s) \ {Stray} = Range(Units(m))
    /\ \A k, l \in DOMAIN s :
         k < l /\ Stray \notin {s[k], s[l]} => s[k] = <<m, 1>> /\ s[l] = <<m, 2>>

LEMMA MessageFacts ==
    ASSUME NEW m \in Nat
    PROVE  IsMessage(Units(m), m) /\ IsMessage(<<Stray>> \o Units(m), m)
<1>1. /\ Units(m) \in Seq(Unit) /\ DOMAIN Units(m) = {1, 2}
      /\ Units(m)[1] = <<m, 1>> /\ Units(m)[2] = <<m, 2>>
  BY DEF Units, Unit
<1>2. Range(Units(m)) = {<<m, 1>>, <<m, 2>>}
  BY <1>1 DEF Range
<1>3. <<m, 1>> # Stray /\ <<m, 2>> # Stray
  BY DEF Stray
<1>4. IsMessage(Units(m), m)
  BY <1>1, <1>2, <1>3 DEF IsMessage
<1> DEFINE s == <<Stray>> \o Units(m)
<1>5. /\ s \in Seq(Unit) /\ DOMAIN s = {1, 2, 3}
      /\ s[1] = Stray /\ s[2] = <<m, 1>> /\ s[3] = <<m, 2>>
  <2> DEFINE p == <<Stray>>
             u == Units(m)
  <2>1. p \in Seq(Unit) /\ Len(p) = 1 /\ p[1] = Stray /\ u \in Seq(Unit) /\ Len(u) = 2
    BY DEF Stray, Unit, Units
  <2> HIDE DEF p, u
  <2>2. /\ p \o u \in Seq(Unit) /\ Len(p \o u) = 3
        /\ \A i \in 1..3 : (p \o u)[i] = IF i <= 1 THEN p[i] ELSE u[i - 1]
    <3>1. /\ p \o u \in Seq(Unit) /\ Len(p \o u) = Len(p) + Len(u)
          /\ \A i \in 1..(Len(p) + Len(u)) :
               (p \o u)[i] = IF i <= Len(p) THEN p[i] ELSE u[i - Len(p)]
      BY ONLY <2>1, ConcatProperties
    <3>2. Len(p) + Len(u) = 3
      BY <2>1
    <3>3. ASSUME NEW i \in 1..3 PROVE (p \o u)[i] = IF i <= 1 THEN p[i] ELSE u[i - 1]
      <4>1. i \in 1..(Len(p) + Len(u))
        BY <3>2
      <4>2. (p \o u)[i] = IF i <= Len(p) THEN p[i] ELSE u[i - Len(p)]
        BY ONLY <3>1, <4>1
      <4> QED BY ONLY <2>1, <4>2
    <3> QED BY ONLY <3>1, <3>2, <3>3
  <2>3. s = p \o u /\ u = Units(m)
    BY DEF p, u
  <2> HIDE DEF s
  <2>4. DOMAIN s = {1, 2, 3}
    BY <2>2, <2>3, LenProperties
  <2> QED BY <1>1, <2>1, <2>2, <2>3, <2>4
<1> HIDE DEF s
<1>6. Range(s) = {Stray, <<m, 1>>, <<m, 2>>}
  BY <1>5 DEF Range
<1>7. IsMessage(s, m)
  BY <1>2, <1>3, <1>5, <1>6 DEF IsMessage
<1> QED BY <1>4, <1>7 DEF s

LEMMA RangeOfConcat ==
    ASSUME NEW S, NEW s \in Seq(S), NEW t \in Seq(S)
    PROVE  /\ Range(s \o t) = Range(s) \union Range(t)
           /\ \A k, l \in DOMAIN (s \o t) : k < l =>
                \/ k \in DOMAIN s /\ l \in DOMAIN s /\ (s \o t)[k] = s[k] /\ (s \o t)[l] = s[l]
                \/ (s \o t)[k] \in Range(s) /\ (s \o t)[l] \in Range(t)
                \/ \E i, j \in DOMAIN t : i < j /\ (s \o t)[k] = t[i] /\ (s \o t)[l] = t[j]
<1> DEFINE w == s \o t
<1>1. /\ Len(s) \in Nat /\ Len(t) \in Nat /\ DOMAIN s = 1..Len(s) /\ DOMAIN t = 1..Len(t)
      /\ DOMAIN w = 1..(Len(s) + Len(t))
      /\ \A i \in 1..(Len(s) + Len(t)) : w[i] = IF i <= Len(s) THEN s[i] ELSE t[i - Len(s)]
  BY ConcatProperties, LenProperties
<1> HIDE DEF w
<1>2. \A k \in DOMAIN w : \/ k \in DOMAIN s /\ w[k] = s[k]
                          \/ k - Len(s) \in DOMAIN t /\ w[k] = t[k - Len(s)] /\ ~(k <= Len(s))
  BY <1>1
<1>3. /\ \A k \in DOMAIN s : k \in DOMAIN w /\ w[k] = s[k]
      /\ \A k \in DOMAIN t : k + Len(s) \in DOMAIN w /\ w[k + Len(s)] = t[k]
  BY <1>1
<1>4. Range(w) = Range(s) \union Range(t)
  <2>1. Range(w) \subseteq Range(s) \union Range(t)
    BY <1>2 DEF Range
  <2>2. Range(s) \subseteq Range(w) /\ Range(t) \subseteq Range(w)
    BY <1>3 DEF Range
  <2> QED BY <2>1, <2>2
<1>5. ASSUME NEW k \in DOMAIN w, NEW l \in DOMAIN w, k < l
      PROVE  \/ k \in DOMAIN s /\ l \in DOMAIN s /\ w[k] = s[k] /\ w[l] = s[l]
             \/ w[k] \in Range(s) /\ w[l] \in Range(t)
             \/ \E i, j \in DOMAIN t : i < j /\ w[k] = t[i] /\ w[l] = t[j]
  <2>1. CASE k \in DOMAIN s /\ l \in DOMAIN s
    BY <1>3, <2>1
  <2>2. CASE k \in DOMAIN s /\ l \notin DOMAIN s
    BY <1>2, <1>3, <2>2 DEF Range
  <2>3. CASE k \notin DOMAIN s
    <3>1. l \notin DOMAIN s
      BY <1>1, <1>5, <2>3
    <3>2. k - Len(s) < l - Len(s)
      BY <1>1, <1>5
    <3> QED BY <1>2, <2>3, <3>1, <3>2
  <2> QED BY <2>1, <2>2, <2>3
<1> QED BY <1>4, <1>5 DEF w

(* One more message behind those that are there already.                    *)
LEMMA CarriesOneMore ==
    ASSUME NEW s \in Seq(Unit), NEW a \in Seq(Nat), NEW m \in Nat, NEW t,
           Carries(s, a), IsMessage(t, m), m \notin Range(a)
    PROVE  Carries(s \o t, Append(a, m))
<1> DEFINE b == Append(a, m)
           w == s \o t
           n == Len(a) + 1
<1>1. /\ n \in DOMAIN b /\ b[n] = m
      /\ \A i \in DOMAIN b : i = n \/ (i \in DOMAIN a /\ b[i] = a[i])
      /\ \A i \in DOMAIN a : i \in DOMAIN b /\ b[i] = a[i] /\ i < n
      /\ Range(b) = Range(a) \union {m}
  <2>1. /\ n \in DOMAIN b /\ b[n] = m
        /\ \A i \in DOMAIN b : i = n \/ (i \in DOMAIN a /\ b[i] = a[i])
        /\ \A i \in DOMAIN a : i \in DOMAIN b /\ b[i] = a[i] /\ i < n
    BY AppendProperties, LenProperties
  <2> HIDE DEF b, n
  <2> QED BY <2>1 DEF Range
<1>2. t \in Seq(Unit) /\ Range(t) \ {Stray} = Range(Units(m))
  BY DEF IsMessage
<1>3. /\ Range(w) = Range(s) \union Range(t)
      /\ \A k, l \in DOMAIN w : k < l =>
           \/ k \in DOMAIN s /\ l \in DOMAIN s /\ w[k] = s[k] /\ w[l] = s[l]
           \/ w[k] \in Range(s) /\ w[l] \in Range(t)
           \/ \E i, j \in DOMAIN t : i < j /\ w[k] = t[i] /\ w[l] = t[j]
  BY <1>2, RangeOfConcat
<1> HIDE DEF b, w, n
<1>4. \A x : Range(Units(x)) = {<<x, 1>>, <<x, 2>>}
  <2> TAKE x
  <2>1. DOMAIN Units(x) = {1, 2} /\ Units(x)[1] = <<x, 1>> /\ Units(x)[2] = <<x, 2>>
    BY DEF Units
  <2> QED BY <2>1 DEF Range
<1>5. IsInjective(b)
  BY <1>1 DEF Carries, IsInjective, Range
<1>6. Range(w) \ {Stray} = UNION {Range(Units(x)) : x \in Range(b)}
  <2>1. Range(s) \ {Stray} = UNION {Range(Units(x)) : x \in Range(a)}
    BY DEF Carries
  <2>2. \A u : u \in Range(w) \ {Stray} <=>
                 u \in Range(s) \ {Stray} \/ u \in Range(Units(m))
    BY <1>2, <1>3
  <2>3. \A u : u \in UNION {Range(Units(x)) : x \in Range(b)} <=>
                 u \in UNION {Range(Units(x)) : x \in Range(a)} \/ u \in Range(Units(m))
    <3>1. \A x : x \in Range(b) <=> x \in Range(a) \/ x = m
      BY <1>1
    <3> QED BY ONLY <3>1, Zenon
  <2> QED BY ONLY <2>1, <2>2, <2>3
<1>7. \A u, v : Precedes(a, u, v) => Precedes(b, u, v)
  BY <1>1 DEF Precedes
<1>8. ASSUME NEW k \in DOMAIN w, NEW l \in DOMAIN w, k < l, w[k] # Stray, w[l] # Stray
      PROVE  Precedes(b, w[k], w[l])
  <2>1. CASE k \in DOMAIN s /\ l \in DOMAIN s /\ w[k] = s[k] /\ w[l] = s[l]
    BY <1>7, <1>8, <2>1 DEF Carries
  <2>2. CASE w[k] \in Range(s) /\ w[l] \in Range(t)
    <3>1. PICK x \in Range(a) : w[k] \in Range(Units(x))
      BY <1>8, <2>2 DEF Carries
    <3>2. PICK i \in DOMAIN a : a[i] = x
      BY <3>1 DEF Range
    <3>3. w[l] \in Range(Units(m))
      BY <1>2, <1>8, <2>2
    <3>4. w[k][1] = a[i] /\ w[l][1] = m
      BY <1>4, <3>1, <3>2, <3>3
    <3> QED BY <1>1, <3>2, <3>4 DEF Precedes
  <2>3. CASE \E i, j \in DOMAIN t : i < j /\ w[k] = t[i] /\ w[l] = t[j]
    <3>1. w[k] = <<m, 1>> /\ w[l] = <<m, 2>>
      BY <1>8, <2>3 DEF IsMessage
    <3> QED BY <1>1, <3>1 DEF Precedes
  <2> QED BY <1>3, <1>8, <2>1, <2>2, <2>3
<1>9. Carries(w, b)
  BY <1>5, <1>6, <1>8 DEF Carries
<1> QED BY <1>9 DEF b, w

(* sendInLoop leaves what was sent alone, or adds the message to it.        *)
Takes(m) ==
    \/ UNCHANGED <<wire, outputBuffer_, accepted>>
    \/ /\ accepted' = Append(accepted, m)
       /\ \E t : IsMessage(t, m) /\ (wire \o outputBuffer_)' = (wire \o outputBuffer_) \o t

LEMMA SendInLoopTakes ==
    ASSUME TypeOK, NEW m \in Nat, sendInLoop(m)
    PROVE  Takes(m)
<1>1. CASE UNCHANGED <<output, accepted>>
  BY <1>1 DEF Takes, output
<1>2. CASE ~UNCHANGED <<output, accepted>>
  <2>1. PICK n \in IF MayWriteNow THEN {-1, 1, 2} ELSE {0} :
          /\ wire' = wire \o SubSeq(Units(m), 1, n)
          /\ outputBuffer_' = outputBuffer_ \o Remainder(m, n)
          /\ accepted' = Append(accepted, m)
    BY <1>2, Zenon DEF sendInLoop
  <2> DEFINE u == Units(m)
             p == SubSeq(Units(m), 1, n)
             r == Remainder(m, n)
  <2>2. n \in {-1, 0, 1, 2} /\ (n # 0 => outputBuffer_ = <<>>)
    BY <2>1 DEF MayWriteNow
  <2>3. u \in Seq(Unit) /\ Len(u) = 2 /\ p \in Seq(Unit) /\ r \in Seq(Unit)
    <3>1. u \in Seq(Unit) /\ Len(u) = 2
      BY DEF Units, Unit
    <3>2. p \in Seq(Unit) /\ r \in Seq(Unit)
      BY ONLY <2>2, UnitsFacts
    <3> QED BY ONLY <3>1, <3>2
  <2>4. n \in {-1, 0} => p = <<>>
    BY <2>2, SubSeqEmpty
  <2>5. n \in {0, 1, 2} => p \o r = u
    <3> SUFFICES ASSUME n \in {0, 1, 2} PROVE p \o r = u
      OBVIOUS
    <3>1. r = SubSeq(u, n + 1, 2)
      BY DEF Remainder
    <3> HIDE DEF u, r
    <3>2. /\ 1 \in 1..(Len(u) + 1) /\ n \in (1 - 1)..Len(u) /\ 2 \in n..Len(u)
      BY <2>3
    <3>3. SubSeq(u, 1, n) \o SubSeq(u, n + 1, 2) = SubSeq(u, 1, 2)
      BY ONLY <2>3, <3>2, ConcatAdjacentSubSeq
    <3>4. SubSeq(u, 1, 2) = u
      BY <2>3, SubSeqFull
    <3> QED BY <3>1, <3>3, <3>4 DEF u
  <2>6. n = -1 => r = <<Stray>> \o u
    BY DEF Remainder
  <2> HIDE DEF u, p, r
  <2>7. wire \in Seq(Unit) /\ outputBuffer_ \in Seq(Unit)
    BY DEF TypeOK
  <2>8. (wire \o p) \o (outputBuffer_ \o r) = (wire \o outputBuffer_) \o (p \o r)
    <3>1. CASE n # 0
      <4>1. outputBuffer_ \o r = r /\ wire \o outputBuffer_ = wire
        BY <2>2, <2>3, <2>7, <3>1, ConcatEmptySeq
      <4>2. (wire \o p) \o r = wire \o (p \o r)
        BY ONLY <2>3, <2>7, ConcatAssociative
      <4> QED BY <4>1, <4>2
    <3>2. CASE n = 0
      <4>1. wire \o p = wire /\ p \o r = r
        BY <2>3, <2>4, <2>7, <3>2, ConcatEmptySeq
      <4>2. (wire \o outputBuffer_) \o r = wire \o (outputBuffer_ \o r)
        BY ONLY <2>3, <2>7, ConcatAssociative
      <4> QED BY <4>1, <4>2
    <3> QED BY <3>1, <3>2
  <2>9. IsMessage(p \o r, m)
    <3>1. CASE n = -1
      <4>1. p \o r = <<Stray>> \o u
        BY <2>3, <2>4, <2>6, <3>1, ConcatEmptySeq
      <4> QED BY <4>1, MessageFacts DEF u
    <3>2. CASE n # -1
      <4>1. p \o r = u
        BY <2>2, <2>5, <3>2
      <4> QED BY <4>1, MessageFacts DEF u
    <3> QED BY <3>1, <3>2
  <2>10. wire' = wire \o p /\ outputBuffer_' = outputBuffer_ \o r /\ accepted' = Append(accepted, m)
    BY <2>1 DEF p, r
  <2>11. (wire \o outputBuffer_)' = (wire \o outputBuffer_) \o (p \o r)
    BY ONLY <2>8, <2>10
  <2> QED BY ONLY <2>9, <2>10, <2>11, Zenon DEF Takes
<1> QED BY <1>1, <1>2

(* handleWrite moves output from the buffer to the socket.                  *)
LEMMA HandleWriteMoves ==
    ASSUME TypeOK, HandleWrite
    PROVE  (wire \o outputBuffer_)' = wire \o outputBuffer_
<1>1. CASE UNCHANGED output
  BY <1>1 DEF output
<1>2. CASE ~UNCHANGED output
  <2> DEFINE b == outputBuffer_
  <2>1. PICK n \in 0..Len(b) : /\ wire' = wire \o SubSeq(b, 1, n)
                               /\ b' = SubSeq(b, n + 1, Len(b))
    BY <1>2, Zenon DEF HandleWrite, output
  <2>2. wire \in Seq(Unit) /\ b \in Seq(Unit)
    BY DEF TypeOK
  <2>3. SubSeq(b, 1, n) \in Seq(Unit) /\ SubSeq(b, n + 1, Len(b)) \in Seq(Unit)
    BY <2>2, WriteFacts
  <2>4. SubSeq(b, 1, n) \o SubSeq(b, n + 1, Len(b)) = b
    <3>1. Len(b) \in Nat
      BY <2>2, LenProperties
    <3>2. 1 \in 1..(Len(b) + 1) /\ n \in (1 - 1)..Len(b) /\ Len(b) \in n..Len(b)
      BY <3>1
    <3>3. SubSeq(b, 1, n) \o SubSeq(b, n + 1, Len(b)) = SubSeq(b, 1, Len(b))
      BY ONLY <2>2, <3>2, ConcatAdjacentSubSeq
    <3> QED BY <2>2, <3>3, SubSeqFull
  <2>5. (wire \o SubSeq(b, 1, n)) \o SubSeq(b, n + 1, Len(b)) =
          wire \o (SubSeq(b, 1, n) \o SubSeq(b, n + 1, Len(b)))
    <3> DEFINE x == SubSeq(b, 1, n)
               y == SubSeq(b, n + 1, Len(b))
    <3>1. wire \in Seq(Unit) /\ x \in Seq(Unit) /\ y \in Seq(Unit)
      BY ONLY <2>2, <2>3
    <3> HIDE DEF x, y
    <3>2. (wire \o x) \o y = wire \o (x \o y)
      BY ONLY <3>1, ConcatAssociative
    <3> QED BY <3>2 DEF x, y
  <2> QED BY <2>1, <2>4, <2>5
<1> QED BY <1>1, <1>2

OrderInv == InOrder /\ NewSends

(* A message that no send is pended for any more is new when it is taken.   *)
LEMMA TakesKeepsOrder ==
    ASSUME TypeOK, InOrder, NewSends, NEW m \in 1..sends', m \notin Range(accepted), Takes(m),
           sends' \in Nat, sends <= sends', ~Holds(ioQueue, SendFunctor(m))',
           \A g : Holds(ioQueue, g)' => Holds(ioQueue, g),
           \A g : HoldsOnce(ioQueue, g) /\ Holds(ioQueue, g)' => HoldsOnce(ioQueue, g)'
    PROVE  OrderInv'
<1>1. wire \o outputBuffer_ \in Seq(Unit) /\ accepted \in Seq(Nat) /\ m \in Nat /\ sends \in Nat
  BY ConcatProperties DEF TypeOK
<1>2. InOrder'
  <2>1. CASE UNCHANGED <<wire, outputBuffer_, accepted>>
    BY <2>1 DEF InOrder
  <2>2. CASE ~UNCHANGED <<wire, outputBuffer_, accepted>>
    <3>1. /\ accepted' = Append(accepted, m)
          /\ \E t : IsMessage(t, m) /\ (wire \o outputBuffer_)' = (wire \o outputBuffer_) \o t
      BY <2>2 DEF Takes
    <3>2. PICK t : IsMessage(t, m) /\ (wire \o outputBuffer_)' = (wire \o outputBuffer_) \o t
      BY <3>1
    <3>3. Carries(wire \o outputBuffer_, accepted)
      BY DEF InOrder
    <3> DEFINE s == wire \o outputBuffer_
    <3> HIDE DEF s
    <3>4. s \in Seq(Unit) /\ Carries(s, accepted)
      BY <1>1, <3>3 DEF s
    <3>5. Carries(s \o t, Append(accepted, m))
      BY ONLY <1>1, <3>2, <3>4, m \notin Range(accepted), CarriesOneMore
    <3> QED BY <3>1, <3>2, <3>5 DEF InOrder, s
  <2> QED BY <2>1, <2>2
<1>3. Range(accepted') \subseteq Range(accepted) \union {m}
  <2>1. Range(Append(accepted, m)) \subseteq Range(accepted) \union {m}
    BY <1>1, AppendProperties, LenProperties DEF Range
  <2> QED BY <2>1 DEF Takes
<1>4. NewSends'
  <2>1. Range(accepted)' \subseteq 1..sends'
    BY <1>1, <1>3 DEF NewSends
  <2>2. ASSUME NEW n \in Nat, Holds(ioQueue, SendFunctor(n))'
        PROVE  n \in 1..sends' /\ n \notin Range(accepted)' /\ HoldsOnce(ioQueue, SendFunctor(n))'
    <3>1. SendFunctor(n)' = SendFunctor(n) /\ SendFunctor(m)' = SendFunctor(m)
      BY DEF SendFunctor
    <3>2. Holds(ioQueue, SendFunctor(n)) /\ n # m
      BY <2>2, <3>1
    <3>3. n \in 1..sends /\ n \notin Range(accepted) /\ HoldsOnce(ioQueue, SendFunctor(n))
      BY <3>2 DEF NewSends
    <3> QED BY <1>1, <1>3, <2>2, <3>1, <3>2, <3>3
  <2> QED BY <2>1, <2>2 DEF NewSends
<1> QED BY <1>2, <1>4 DEF OrderInv

(* Nothing is taken, and at most the next message is pended.                *)
PendsAtMostNext ==
    \A m \in Nat : Holds(ioQueue, SendFunctor(m))' =>
        /\ HoldsOnce(ioQueue, SendFunctor(m))'
        /\ Holds(ioQueue, SendFunctor(m)) \/ (m = sends + 1 /\ sends' = sends + 1)

LEMMA MovesKeepOrder ==
    ASSUME TypeOK, OrderInv, (wire \o outputBuffer_)' = wire \o outputBuffer_,
           accepted' = accepted, sends' \in {sends, sends + 1}, PendsAtMostNext
    PROVE  OrderInv'
<1>1. InOrder'
  BY DEF OrderInv, InOrder
<1>2. NewSends'
  <2>1. sends \in Nat /\ Range(accepted) \subseteq 1..sends
    BY DEF TypeOK, OrderInv, NewSends
  <2>2. Range(accepted)' = Range(accepted)
    OBVIOUS
  <2>3. ASSUME NEW m \in Nat, Holds(ioQueue, SendFunctor(m))'
        PROVE  m \in 1..sends' /\ m \notin Range(accepted)' /\ HoldsOnce(ioQueue, SendFunctor(m))'
    <3>1. /\ HoldsOnce(ioQueue, SendFunctor(m))'
          /\ Holds(ioQueue, SendFunctor(m)) \/ (m = sends + 1 /\ sends' = sends + 1)
      BY <2>3 DEF PendsAtMostNext
    <3>2. CASE Holds(ioQueue, SendFunctor(m))
      <4>1. m \in 1..sends /\ m \notin Range(accepted)
        BY <3>2 DEF OrderInv, NewSends
      <4> QED BY <2>1, <2>2, <3>1, <4>1
    <3>3. CASE m = sends + 1 /\ sends' = sends + 1
      BY <2>1, <2>2, <3>1, <3>3
    <3> QED BY <3>1, <3>2, <3>3
  <2>4. Range(accepted)' \subseteq 1..sends'
    BY <2>1, <2>2
  <2> QED BY <2>3, <2>4 DEF NewSends
<1> QED BY <1>1, <1>2 DEF OrderInv

LEMMA OrderStep == TypeOK /\ OrderInv /\ [Next]_vars => OrderInv'
<1> SUFFICES ASSUME TypeOK, OrderInv, [Next]_vars PROVE OrderInv'
  OBVIOUS
<1>1. \A m \in Nat : Holds(ioQueue, SendFunctor(m)) => HoldsOnce(ioQueue, SendFunctor(m))
  BY DEF OrderInv, NewSends
<1>2. ioQueue' = ioQueue => PendsAtMostNext
  BY <1>1 DEF PendsAtMostNext, Holds, HoldsOnce, SendFunctor
<1>3. ASSUME UNCHANGED <<wire, outputBuffer_, accepted, sends>>, PendsAtMostNext PROVE OrderInv'
  BY <1>3, MovesKeepOrder
<1>4. ASSUME NEW f \in {Established, Destroyed, ShutdownFunctor}, ioQueue' = Append(ioQueue, f)
      PROVE  PendsAtMostNext
  <2>1. f \in Functor /\ \A m \in Nat : SendFunctor(m) # f
    BY FunctorFacts DEF SendFunctor, ShutdownFunctor
  <2>2. /\ \A g : Holds(ioQueue, g)' <=> Holds(ioQueue, g) \/ g = f
        /\ \A g : HoldsOnce(ioQueue, g) /\ f # g => HoldsOnce(ioQueue, g)'
    <3> DEFINE t == Append(ioQueue, f)
    <3>1. /\ \A g : Holds(t, g) <=> Holds(ioQueue, g) \/ g = f
          /\ \A g : HoldsOnce(ioQueue, g) /\ f # g => HoldsOnce(t, g)
      BY <2>1, QueueFacts DEF TypeOK
    <3> QED BY <1>4, <3>1 DEF Holds, HoldsOnce
  <2> QED BY <1>1, <2>1, <2>2 DEF PendsAtMostNext, SendFunctor
<1>5. CASE UNCHANGED vars
  BY <1>2, <1>3, <1>5 DEF vars
<1>6. CASE OnNewConnection
  <2>1. UNCHANGED <<wire, outputBuffer_, accepted, sends>>
    BY <1>6, Zenon DEF OnNewConnection, output
  <2>2. ioQueue' = ioQueue \/ ioQueue' = Append(ioQueue, Established)
    BY <1>6, Zenon DEF OnNewConnection
  <2> QED BY <1>2, <1>3, <1>4, <2>1, <2>2
<1>7. CASE InsertIntoMap \/ Poll \/ HandleReadData \/ EndOfEvents \/ ShutdownInCallback \/ CallbackReturns
  <2>1. UNCHANGED <<wire, outputBuffer_, accepted, sends, ioQueue>>
    BY <1>7, Zenon DEF InsertIntoMap, Poll, HandleReadData, EndOfEvents, ShutdownInCallback,
                       CallbackReturns, output
  <2> QED BY <1>2, <1>3, <2>1
<1>8. CASE RunMainFunctor \/ HandleClose
  <2>1. UNCHANGED <<wire, outputBuffer_, accepted, sends>>
    BY <1>8, Zenon DEF RunMainFunctor, HandleClose, output
  <2>2. ioQueue' = ioQueue \/ ioQueue' = Append(ioQueue, Destroyed)
    BY <1>8, Zenon DEF RunMainFunctor, HandleClose, removeConnectionInLoop
  <2> QED BY <1>2, <1>3, <1>4, <2>1, <2>2
<1>9. ASSUME NEW m \in Nat, m = sends + 1, sends' = m, ioQueue' = Append(ioQueue, SendFunctor(m))
      PROVE  PendsAtMostNext
  <2> DEFINE f == SendFunctor(m)
             q == Append(ioQueue, f)
  <2>1. f \in Functor /\ ~(m \in 1..sends) /\ \A n \in Nat : SendFunctor(n) = f <=> n = m
    BY <1>9, FunctorFacts DEF TypeOK, SendFunctor
  <2>2. ~Holds(ioQueue, f)
    BY <2>1 DEF OrderInv, NewSends
  <2>3. /\ \A g : Holds(q, g) <=> Holds(ioQueue, g) \/ g = f
        /\ \A g : HoldsOnce(ioQueue, g) /\ f # g => HoldsOnce(q, g)
        /\ HoldsOnce(q, f)
    BY <2>1, <2>2, QueueFacts DEF TypeOK
  <2>4. \A g : (Holds(ioQueue, g)' <=> Holds(q, g)) /\ (HoldsOnce(ioQueue, g)' <=> HoldsOnce(q, g))
    BY <1>9 DEF Holds, HoldsOnce
  <2> HIDE DEF q, f
  <2>5. ASSUME NEW n \in Nat, Holds(ioQueue, SendFunctor(n))'
        PROVE  /\ HoldsOnce(ioQueue, SendFunctor(n))'
               /\ Holds(ioQueue, SendFunctor(n)) \/ n = m
    <3>1. SendFunctor(n)' = SendFunctor(n)
      BY DEF SendFunctor
    <3>2. Holds(q, SendFunctor(n))
      BY <2>4, <2>5, <3>1
    <3>3. CASE n = m
      BY <2>1, <2>3, <2>4, <3>1, <3>3
    <3>4. CASE n # m
      BY <1>1, <2>1, <2>3, <2>4, <3>1, <3>2, <3>4
    <3> QED BY <3>3, <3>4
  <2> QED BY <1>9, <2>5 DEF PendsAtMostNext
<1>10. ASSUME NEW t \in Threads, SendFromThread(t) PROVE OrderInv'
  <2>1. /\ UNCHANGED <<wire, outputBuffer_, accepted>> /\ sends' = sends + 1
        /\ ioQueue' = Append(ioQueue, SendFunctor(sends + 1))
    BY <1>10, Zenon DEF SendFromThread, output
  <2>2. PICK m \in Nat : m = sends + 1
    BY DEF TypeOK
  <2>3. PendsAtMostNext
    BY <1>9, <2>1, <2>2
  <2> QED BY <2>1, <2>3, MovesKeepOrder
<1>11. ASSUME NEW t \in Threads, ShutdownCheck(t) \/ ShutdownFromThread(t) PROVE OrderInv'
  <2>1. UNCHANGED <<wire, outputBuffer_, accepted, sends>>
    BY <1>11, Zenon DEF ShutdownCheck, ShutdownFromThread, output
  <2>2. ioQueue' = ioQueue \/ ioQueue' = Append(ioQueue, ShutdownFunctor)
    BY <1>11, Zenon DEF ShutdownCheck, ShutdownFromThread
  <2> QED BY <1>2, <1>3, <1>4, <2>1, <2>2
<1>12. ASSUME NEW how \in {"fin", "reset"}, PeerLeaves(how) PROVE OrderInv'
  <2>1. UNCHANGED <<wire, outputBuffer_, accepted, sends, ioQueue>>
    BY <1>12, Zenon DEF PeerLeaves, output
  <2> QED BY <1>2, <1>3, <2>1
<1>13. CASE HandleWrite
  <2>1. UNCHANGED <<accepted, sends, ioQueue>>
    BY <1>13, Zenon DEF HandleWrite
  <2> QED BY <1>2, <1>13, <2>1, HandleWriteMoves, MovesKeepOrder
<1>14. CASE SendInCallback
  <2>1. sends' = sends + 1 /\ sendInLoop(sends + 1) /\ ioQueue' = ioQueue
    BY <1>14, Zenon DEF SendInCallback
  <2>2. PICK m \in Nat : m = sends + 1
    BY DEF TypeOK
  <2>3. /\ m \in 1..sends' /\ sends' \in Nat /\ sends <= sends'
        /\ ~(m \in 1..sends) /\ m \notin Range(accepted) /\ Takes(m)
    BY <2>1, <2>2, SendInLoopTakes DEF TypeOK, OrderInv, NewSends
  <2>4. ~Holds(ioQueue, SendFunctor(m))'
    <3>1. ~Holds(ioQueue, SendFunctor(m))
      BY <2>3 DEF OrderInv, NewSends
    <3> QED BY <2>1, <3>1 DEF Holds, SendFunctor
  <2>5. \A g : Holds(ioQueue, g)' => Holds(ioQueue, g)
    BY <2>1 DEF Holds
  <2>6. \A g : HoldsOnce(ioQueue, g) /\ Holds(ioQueue, g)' => HoldsOnce(ioQueue, g)'
    BY <2>1 DEF HoldsOnce, Holds
  <2> QED BY <2>3, <2>4, <2>5, <2>6, TakesKeepsOrder DEF OrderInv
<1>15. CASE RunFunctor
  <2> DEFINE f == Head(ioQueue)
             q == Tail(ioQueue)
  <2>1. ioQueue # <<>> /\ ioQueue' = q /\ sends' = sends
    BY <1>15, Zenon DEF RunFunctor
  <2>2. /\ f \in Functor /\ Holds(ioQueue, f)
        /\ \A g : Holds(ioQueue, g)' => Holds(ioQueue, g)
        /\ \A g : HoldsOnce(ioQueue, g) => IF f = g THEN ~Holds(ioQueue, g)' ELSE HoldsOnce(ioQueue, g)'
    BY <2>1, QueueTail DEF TypeOK
  <2>3. CASE RunSend
    <3>1. f[1] = "send" /\ sendInLoop(f[2])
      BY <2>3 DEF RunSend
    <3>2. PICK m \in Nat : f = SendFunctor(m) /\ m = f[2]
      BY <2>2, <3>1 DEF Functor, SendFunctor
    <3>3. m \in 1..sends /\ m \notin Range(accepted) /\ HoldsOnce(ioQueue, f)
      BY <2>2, <3>2 DEF OrderInv, NewSends
    <3>4. /\ m \in 1..sends' /\ sends' \in Nat /\ sends <= sends' /\ Takes(m)
      BY <2>1, <3>1, <3>2, <3>3, SendInLoopTakes DEF TypeOK
    <3>5. ~Holds(ioQueue, SendFunctor(m))'
      <4>1. ~Holds(q, f)
        BY <2>1, <3>3, QueueTail DEF TypeOK
      <4> QED BY <2>1, <3>2, <4>1 DEF Holds, SendFunctor
    <3>6. \A g : HoldsOnce(ioQueue, g) /\ Holds(ioQueue, g)' => HoldsOnce(ioQueue, g)'
      BY <2>2
    <3> QED BY <2>2, <3>3, <3>4, <3>5, <3>6, TakesKeepsOrder DEF OrderInv
  <2>4. CASE RunShutdown \/ connectionEstablished \/ destoryedConnection
    <3>1. UNCHANGED <<wire, outputBuffer_, accepted>>
      BY <2>4, Zenon DEF RunShutdown, connectionEstablished, destoryedConnection, output
    <3>2. PendsAtMostNext
      <4> SUFFICES ASSUME NEW m \in Nat, Holds(ioQueue, SendFunctor(m))'
                   PROVE  HoldsOnce(ioQueue, SendFunctor(m))' /\ Holds(ioQueue, SendFunctor(m))
        BY DEF PendsAtMostNext
      <4>1. SendFunctor(m)' = SendFunctor(m)
        BY DEF SendFunctor
      <4>2. Holds(ioQueue, SendFunctor(m)) /\ HoldsOnce(ioQueue, SendFunctor(m))
        BY <1>1, <2>2, <4>1
      <4> QED BY <2>2, <4>1, <4>2
    <3> QED BY <1>3, <2>1, <3>1, <3>2
  <2> QED BY <1>15, <2>3, <2>4 DEF RunFunctor
<1> QED BY <1>5, <1>6, <1>7, <1>8, <1>10, <1>11, <1>12, <1>13, <1>14, <1>15
        DEF Next, ServerStep, LoopStep

(* sendInLoop, handleWrite and the queue of pended sends: what went out and *)
(* what waits are the accepted messages, each once, whole and in order.     *)
THEOREM OutputIsInOrder == Spec => []InOrder
<1>1. Init => OrderInv
  <2> SUFFICES ASSUME Init PROVE OrderInv
    OBVIOUS
  <2>1. wire \o outputBuffer_ = <<>> /\ accepted = <<>> /\ ioQueue = <<>>
    BY DEF Init
  <2>2. DOMAIN <<>> = {} /\ Range(<<>>) = {}
    BY DEF Range
  <2>3. InOrder
    BY <2>1, <2>2, Zenon DEF InOrder, Carries, IsInjective
  <2>4. NewSends
    BY <2>1, <2>2, QueueOfOne DEF NewSends
  <2> QED BY <2>3, <2>4 DEF OrderInv
<1>2. IInv => TypeOK
  BY DEF IInv
<1>3. OrderInv => InOrder
  BY DEF OrderInv
<1> QED BY <1>1, <1>2, <1>3, Invariance, OrderStep, PTL DEF Spec
=============================================================================
