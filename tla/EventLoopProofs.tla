-------------------------- MODULE EventLoopProofs ---------------------------
(***************************************************************************)
(* Proofs about EventLoop, for any set of threads, any set of channels and *)
(* any bound on the calls.  The inductive invariant joins the accounting   *)
(* of the eventfd (EventfdCovers) with who holds the lock, with where the  *)
(* local batch lives, and with the numbering of the functors.              *)
(***************************************************************************)
EXTENDS EventLoop, SequenceTheorems, TLAPS

BatchOnlyInRound == loopPc \notin {"run", "functor"} => functions = <<>>

IInv ==
    /\ TypeOK
    /\ LockIsHeldOnlyInPend
    /\ BatchOnlyInRound
    /\ loopPc # "crashed"
    /\ EventfdCovers
    /\ ExactlyOnceInOrder
    /\ QuitWakesPoll

USE DEF flags, wake, functors, AfterExitStored, LeftBySwap, LockAfterSwap, NextFunctor,
        AfterRead

(* What Append, Head and Tail do to the elements of a sequence of numbers:  *)
(* push_back and the in-order walk over the batch.                          *)
LEMMA AppendFacts ==
    ASSUME NEW s \in Seq(Nat), NEW x \in Nat
    PROVE  /\ Append(s, x) \in Seq(Nat)
           /\ Len(Append(s, x)) = Len(s) + 1
           /\ Append(s, x) # <<>>
           /\ \A i \in 1..Len(s) : Append(s, x)[i] = s[i]
           /\ Append(s, x)[Len(s) + 1] = x
BY AppendProperties

(* Head and Tail of a non-empty batch.                                      *)
LEMMA TailFacts ==
    ASSUME NEW s \in Seq(Nat), s # <<>>
    PROVE  /\ Tail(s) \in Seq(Nat)
           /\ Head(s) \in Nat
           /\ Head(s) = s[1]
           /\ Len(s) >= 1
           /\ Len(Tail(s)) = Len(s) - 1
           /\ \A i \in 1..Len(Tail(s)) : Tail(s)[i] = s[i + 1]
BY HeadTailProperties, EmptySeq

(* The empty vector a swap leaves behind.                                   *)
LEMMA EmptyFacts == <<>> \in Seq(Nat) /\ Len(<<>>) = 0
OBVIOUS

(* A sequence is empty exactly when its length is zero.                     *)
LEMMA LenZero ==
    ASSUME NEW s \in Seq(Nat)
    PROVE  Len(s) \in Nat /\ (Len(s) = 0 <=> s = <<>>)
BY EmptySeq, LenProperties

-----------------------------------------------------------------------------
(* TypeOK is inductive by itself.                                           *)
THEOREM TypeCorrect == Spec => []TypeOK
<1> USE EventLoopAssumption, NamesAssumption
<1>1. Init => TypeOK
  <2> SUFFICES ASSUME Init PROVE TypeOK
    OBVIOUS
  <2> QED BY EmptyFacts DEF Init, TypeOK, LoopPcs
<1>2. TypeOK /\ [Next]_vars => TypeOK'
  <2> SUFFICES ASSUME TypeOK, [Next]_vars PROVE TypeOK'
    OBVIOUS
  <2> USE DEF TypeOK, LoopPcs
  <2>1. ASSUME NEW t \in Callers, PendLocked(t) PROVE TypeOK'
    <3>1. posted + 1 \in Nat
      OBVIOUS
    <3>2. Append(pendingFuncs_, posted + 1) \in Seq(Nat)
      BY <3>1, AppendFacts
    <3> QED BY <2>1, <3>1, <3>2 DEF PendLocked
  <2>2. ASSUME NEW t \in Callers, PendWrite(t) PROVE TypeOK'
    BY <2>2 DEF PendWrite, writeEventfd
  <2>3. ASSUME NEW t \in Callers, Quit(t) PROVE TypeOK'
    BY <2>3 DEF Quit
  <2>4. CASE StartLoop
    BY <2>4 DEF StartLoop
  <2>5. CASE While
    BY <2>5 DEF While
  <2>6. CASE Poll
    BY <2>6 DEF Poll, Ready
  <2>7. CASE PollInterrupted
    BY <2>7 DEF PollInterrupted
  <2>8. ASSUME NEW c \in activeFdChannels_, HandleEvents(c) PROVE TypeOK'
    BY <2>8 DEF HandleEvents
  <2>9. CASE EndOfRound
    BY <2>9 DEF EndOfRound
  <2>10. CASE CallbackReturns
    BY <2>10 DEF CallbackReturns
  <2>11. CASE SwapFunctors
    BY <2>11, EmptyFacts DEF SwapFunctors
  <2>12. CASE RunFunctor
    <3>1. Head(functions) \in Nat /\ Tail(functions) \in Seq(Nat)
      BY <2>12, TailFacts DEF RunFunctor
    <3>2. Append(ran, Head(functions)) \in Seq(Nat)
      BY <3>1, AppendFacts
    <3> QED BY <2>12, <3>1, <3>2 DEF RunFunctor
  <2>13. CASE FunctorsDone
    BY <2>13 DEF FunctorsDone
  <2>14. CASE readEventfdOnce
    BY <2>14 DEF readEventfdOnce
  <2>15. CASE UNCHANGED vars
    BY <2>15 DEF vars
  <2> QED
    BY <2>1, <2>2, <2>3, <2>4, <2>5, <2>6, <2>7, <2>8, <2>9, <2>10, <2>11,
       <2>12, <2>13, <2>14, <2>15 DEF Next, Call, LoopStep
<1> QED BY <1>1, <1>2, PTL DEF Spec

-----------------------------------------------------------------------------
(* The steps that leave the queue, the batch and the history alone leave    *)
(* the numbering of the functors alone.                                     *)
LEMMA NumberingUnchanged ==
    ASSUME ExactlyOnceInOrder,
           UNCHANGED <<posted, ran, functions, pendingFuncs_>>
    PROVE  ExactlyOnceInOrder'
BY DEF ExactlyOnceInOrder

(* The initial state satisfies the inductive invariant.                     *)
LEMMA InitIInv == Init => IInv
<1> SUFFICES ASSUME Init PROVE IInv
  OBVIOUS
<1> USE EventLoopAssumption, NamesAssumption, EmptyFacts
<1>1. TypeOK
  BY DEF Init, TypeOK, LoopPcs
<1>2. LockIsHeldOnlyInPend
  BY DEF Init, LockIsHeldOnlyInPend, NoThreadIsFree
<1>3. EventfdCovers
  BY DEF Init, EventfdCovers, InRound
<1>4. ExactlyOnceInOrder
  BY DEF Init, ExactlyOnceInOrder
<1>5. QED
  BY <1>1, <1>2, <1>3, <1>4 DEF Init, IInv, BatchOnlyInRound, QuitWakesPoll

(* pend(), first half: one more functor, numbered last, and the lock taken. *)
LEMMA PendLockedIInv ==
    ASSUME IInv, TypeOK', NEW t \in Callers, PendLocked(t)
    PROVE  IInv'
<1> USE EventLoopAssumption, NamesAssumption DEF IInv, PendLocked
<1>1. /\ pendingFuncs_ \in Seq(Nat) /\ posted \in Nat /\ eventfd_ \in Nat
      /\ functions \in Seq(Nat) /\ ran \in Seq(Nat)
      /\ Len(pendingFuncs_) \in Nat /\ Len(functions) \in Nat /\ Len(ran) \in Nat
  BY LenZero DEF TypeOK
<1>2. /\ Len(pendingFuncs_') = Len(pendingFuncs_) + 1
      /\ pendingFuncs_' # <<>>
      /\ \A i \in 1..Len(pendingFuncs_) : pendingFuncs_'[i] = pendingFuncs_[i]
      /\ pendingFuncs_'[Len(pendingFuncs_) + 1] = posted + 1
  BY <1>1, AppendFacts
<1>3. LockIsHeldOnlyInPend'
  BY DEF LockIsHeldOnlyInPend, TypeOK, NoThreadIsFree
<1>4. BatchOnlyInRound' /\ loopPc' # "crashed"
  BY DEF BatchOnlyInRound
<1>5. EventfdCovers'
  <2>1. t # Free
    BY DEF NoThreadIsFree
  <2> QED BY <1>1, <1>2, <2>1 DEF EventfdCovers, InRound
<1>6. ExactlyOnceInOrder'
  <2>1. posted' = Len(ran') + Len(functions') + Len(pendingFuncs_')
    BY <1>1, <1>2 DEF ExactlyOnceInOrder
  <2>2. ASSUME NEW i \in 1..Len(pendingFuncs_')
        PROVE  pendingFuncs_'[i] = Len(ran') + Len(functions') + i
    <3>1. CASE i = Len(pendingFuncs_) + 1
      BY <1>1, <1>2, <3>1 DEF ExactlyOnceInOrder
    <3>2. CASE i # Len(pendingFuncs_) + 1
      <4>1. i \in 1..Len(pendingFuncs_)
        BY <1>1, <1>2, <3>2
      <4> QED BY <1>1, <1>2, <4>1 DEF ExactlyOnceInOrder
    <3> QED BY <3>1, <3>2
  <2> QED BY <2>1, <2>2 DEF ExactlyOnceInOrder
<1>7. QuitWakesPoll'
  <2>1. callPc'[t] = "write"
    BY DEF TypeOK
  <2> QED BY <2>1 DEF QuitWakesPoll
<1> QED BY <1>3, <1>4, <1>5, <1>6, <1>7

(* pend(), second half: the eventfd gains the unit that was outstanding.    *)
LEMMA PendWriteIInv ==
    ASSUME IInv, TypeOK', NEW t \in Callers, PendWrite(t)
    PROVE  IInv'
<1> USE EventLoopAssumption, NamesAssumption DEF IInv, PendWrite, writeEventfd
<1>1. mutex_ = t /\ t # Free
  BY DEF LockIsHeldOnlyInPend, NoThreadIsFree
<1>2. Len(pendingFuncs_) \in Nat /\ eventfd_ \in Nat
  BY LenZero DEF TypeOK
<1>3. LockIsHeldOnlyInPend'
  BY <1>1 DEF LockIsHeldOnlyInPend, TypeOK, NoThreadIsFree
<1>4. BatchOnlyInRound' /\ loopPc' # "crashed"
  BY DEF BatchOnlyInRound
<1>5. EventfdCovers'
  BY <1>1, <1>2 DEF EventfdCovers, InRound
<1>6. ExactlyOnceInOrder'
  BY NumberingUnchanged
<1>7. QuitWakesPoll'
  BY <1>2 DEF QuitWakesPoll
<1> QED BY <1>3, <1>4, <1>5, <1>6, <1>7

(* quit() only announces the write that will follow.                        *)
LEMMA QuitIInv ==
    ASSUME IInv, TypeOK', NEW t \in Callers, Quit(t)
    PROVE  IInv'
<1> USE DEF IInv, Quit
<1>1. callPc'[t] = "quit" /\ \A u \in Callers \ {t} : callPc'[u] = callPc[u]
  BY DEF TypeOK
<1>2. LockIsHeldOnlyInPend'
  BY <1>1 DEF LockIsHeldOnlyInPend
<1>3. ExactlyOnceInOrder'
  BY NumberingUnchanged
<1>4. QuitWakesPoll'
  BY <1>1 DEF QuitWakesPoll
<1>5. BatchOnlyInRound' /\ EventfdCovers' /\ loopPc' # "crashed"
  BY DEF BatchOnlyInRound, EventfdCovers, InRound
<1> QED BY <1>2, <1>3, <1>4, <1>5

(* doPendingFunctors empties the queue into a batch that was empty: the     *)
(* numbering moves with it, and one unit of the eventfd now pays the read.  *)
LEMMA SwapFunctorsIInv ==
    ASSUME IInv, TypeOK', SwapFunctors
    PROVE  IInv'
<1> USE DEF IInv, SwapFunctors
<1>1. Len(pendingFuncs_) \in Nat /\ eventfd_ \in Nat /\ Len(ran) \in Nat
  BY LenZero DEF TypeOK
<1>2. functions = <<>> /\ Len(functions) = 0 /\ Len(pendingFuncs_') = 0
  BY EmptyFacts DEF BatchOnlyInRound
<1>3. EventfdCovers'
  BY <1>1, <1>2 DEF EventfdCovers, InRound
<1>4. ExactlyOnceInOrder'
  BY <1>1, <1>2 DEF ExactlyOnceInOrder
<1>5. LockIsHeldOnlyInPend' /\ BatchOnlyInRound' /\ QuitWakesPoll' /\ loopPc' # "crashed"
  BY DEF LockIsHeldOnlyInPend, BatchOnlyInRound, QuitWakesPoll
<1> QED BY <1>3, <1>4, <1>5

(* Starting the first functor of the batch moves one number from the batch  *)
(* to the history.                                                          *)
LEMMA RunFunctorIInv ==
    ASSUME IInv, TypeOK', RunFunctor
    PROVE  IInv'
<1> USE DEF IInv, RunFunctor
<1>1. /\ Len(pendingFuncs_) \in Nat /\ Len(functions) \in Nat /\ Len(ran) \in Nat
      /\ functions \in Seq(Nat) /\ ran \in Seq(Nat)
  BY LenZero DEF TypeOK
<1>2. /\ Head(functions) \in Nat /\ Head(functions) = functions[1]
      /\ Len(functions) >= 1
      /\ Len(functions') = Len(functions) - 1
      /\ \A i \in 1..Len(functions') : functions'[i] = functions[i + 1]
  BY <1>1, TailFacts
<1>3. /\ Len(ran') = Len(ran) + 1
      /\ \A i \in 1..Len(ran) : ran'[i] = ran[i]
      /\ ran'[Len(ran) + 1] = functions[1]
  BY <1>1, <1>2, AppendFacts
<1>4. ExactlyOnceInOrder'
  <2>1. posted' = Len(ran') + Len(functions') + Len(pendingFuncs_')
    BY <1>1, <1>2, <1>3 DEF ExactlyOnceInOrder
  <2>2. functions[1] = Len(ran) + 1
    BY <1>1, <1>2 DEF ExactlyOnceInOrder
  <2>3. ASSUME NEW i \in 1..Len(ran') PROVE ran'[i] = i
    <3>1. CASE i = Len(ran) + 1
      BY <1>3, <2>2, <3>1
    <3>2. CASE i # Len(ran) + 1
      <4>1. i \in 1..Len(ran)
        BY <1>1, <1>3, <3>2, SMTT(30)
      <4> QED BY <1>3, <4>1 DEF ExactlyOnceInOrder
    <3> QED BY <3>1, <3>2
  <2>4. ASSUME NEW i \in 1..Len(functions')
        PROVE  functions'[i] = Len(ran') + i
    <3>1. i + 1 \in 1..Len(functions)
      BY <1>1, <1>2
    <3>2. functions[i + 1] = Len(ran) + (i + 1)
      BY <3>1 DEF ExactlyOnceInOrder
    <3> QED BY <1>1, <1>2, <1>3, <3>2
  <2>5. ASSUME NEW i \in 1..Len(pendingFuncs_')
        PROVE  pendingFuncs_'[i] = Len(ran') + Len(functions') + i
    BY <1>1, <1>2, <1>3 DEF ExactlyOnceInOrder
  <2> QED BY <2>1, <2>3, <2>4, <2>5 DEF ExactlyOnceInOrder
<1>5. LockIsHeldOnlyInPend' /\ BatchOnlyInRound' /\ EventfdCovers' /\ QuitWakesPoll'
      /\ loopPc' # "crashed"
  BY DEF LockIsHeldOnlyInPend, BatchOnlyInRound, EventfdCovers, InRound, QuitWakesPoll
<1> QED BY <1>4, <1>5

-----------------------------------------------------------------------------
(* The inductive invariant is preserved by every step.                      *)
LEMMA NextIInv == IInv /\ TypeOK' /\ [Next]_vars => IInv'
<1> SUFFICES ASSUME IInv, TypeOK', [Next]_vars PROVE IInv'
  OBVIOUS
<1> USE EventLoopAssumption, NamesAssumption
<1>0. /\ Len(pendingFuncs_) \in Nat /\ eventfd_ \in Nat
      /\ (Len(pendingFuncs_) = 0 <=> pendingFuncs_ = <<>>)
  BY LenZero DEF IInv, TypeOK
<1>1. ASSUME NEW t \in Callers, Call(t) PROVE IInv'
  BY <1>1, PendLockedIInv, PendWriteIInv, QuitIInv DEF Call
<1>2. CASE SwapFunctors
  BY <1>2, SwapFunctorsIInv
<1>3. CASE RunFunctor
  BY <1>3, RunFunctorIInv
<1>4. CASE StartLoop
  <2>1. ExactlyOnceInOrder'
    BY <1>4, NumberingUnchanged DEF StartLoop, IInv
  <2> QED BY <1>4, <2>1 DEF StartLoop, IInv, LockIsHeldOnlyInPend, BatchOnlyInRound,
                            EventfdCovers, InRound, QuitWakesPoll
<1>5. CASE While
  <2>1. ExactlyOnceInOrder'
    BY <1>5, NumberingUnchanged DEF While, IInv
  <2> QED BY <1>5, <2>1 DEF While, IInv, LockIsHeldOnlyInPend, BatchOnlyInRound,
                            EventfdCovers, InRound, QuitWakesPoll
<1>6. CASE Poll
  <2>1. ExactlyOnceInOrder'
    BY <1>6, NumberingUnchanged DEF Poll, IInv
  <2>2. PICK io \in SUBSET IoChannels : activeFdChannels_' = Ready(io)
    BY <1>6 DEF Poll
  <2>3. Wakeup \in activeFdChannels_' => eventfd_ >= 1
    BY <1>0, <2>2 DEF Ready, NoThreadIsFree
  <2> QED BY <1>6, <2>1, <2>3 DEF Poll, IInv, LockIsHeldOnlyInPend, BatchOnlyInRound,
                                  EventfdCovers, InRound, QuitWakesPoll
<1>7. CASE PollInterrupted
  <2>1. ExactlyOnceInOrder'
    BY <1>7, NumberingUnchanged DEF PollInterrupted, IInv
  <2> QED BY <1>7, <2>1 DEF PollInterrupted, IInv, LockIsHeldOnlyInPend,
                    BatchOnlyInRound, EventfdCovers, InRound, QuitWakesPoll
<1>8. ASSUME NEW c \in activeFdChannels_, HandleEvents(c) PROVE IInv'
  <2>1. ExactlyOnceInOrder'
    BY <1>8, NumberingUnchanged DEF HandleEvents, IInv
  <2> QED BY <1>8, <2>1 DEF HandleEvents, IInv, LockIsHeldOnlyInPend, BatchOnlyInRound,
                            EventfdCovers, InRound, QuitWakesPoll
<1>9. CASE EndOfRound
  <2>1. ExactlyOnceInOrder'
    BY <1>9, NumberingUnchanged DEF EndOfRound, IInv
  <2> QED BY <1>9, <2>1 DEF EndOfRound, IInv, LockIsHeldOnlyInPend, BatchOnlyInRound,
                            EventfdCovers, InRound, QuitWakesPoll
<1>10. CASE CallbackReturns
  <2>1. ExactlyOnceInOrder'
    BY <1>10, NumberingUnchanged DEF CallbackReturns, IInv
  <2> QED BY <1>10, <2>1 DEF CallbackReturns, IInv, LockIsHeldOnlyInPend,
                    BatchOnlyInRound, EventfdCovers, InRound, QuitWakesPoll
<1>11. CASE FunctorsDone
  <2>1. ExactlyOnceInOrder'
    BY <1>11, NumberingUnchanged DEF FunctorsDone, IInv
  <2> QED BY <1>11, <2>1 DEF FunctorsDone, IInv, LockIsHeldOnlyInPend,
                    BatchOnlyInRound, EventfdCovers, InRound, QuitWakesPoll
<1>12. CASE readEventfdOnce
  <2>1. ExactlyOnceInOrder'
    BY <1>12, NumberingUnchanged DEF readEventfdOnce, IInv
  <2>2. eventfd_ > 0
    BY <1>0, <1>12 DEF readEventfdOnce, IInv, EventfdCovers, InRound
  <2>3. eventfd_' = eventfd_ - 1 /\ loopPc' = "dispatch"
    BY <1>12, <2>2 DEF readEventfdOnce
  <2>4. EventfdCovers'
    BY <1>0, <1>12, <2>2, <2>3
       DEF readEventfdOnce, IInv, EventfdCovers, InRound
  <2> QED BY <1>12, <2>1, <2>3, <2>4 DEF readEventfdOnce, IInv, LockIsHeldOnlyInPend,
                    BatchOnlyInRound, QuitWakesPoll
<1>13. CASE UNCHANGED vars
  <2>1. ExactlyOnceInOrder'
    BY <1>13, NumberingUnchanged DEF vars, IInv
  <2> QED BY <1>13, <2>1 DEF vars, IInv, LockIsHeldOnlyInPend,
                    BatchOnlyInRound, EventfdCovers, InRound, QuitWakesPoll
<1> QED
  BY <1>1, <1>2, <1>3, <1>4, <1>5, <1>6, <1>7, <1>8, <1>9, <1>10, <1>11,
     <1>12, <1>13 DEF Next, LoopStep

(* IInv is an invariant of the specification.                               *)
THEOREM Invariant == Spec => []IInv
BY InitIInv, NextIInv, TypeCorrect, PTL DEF Spec

(* The lock is held inside pend() only, never while functors run.           *)
THEOREM LockTheorem == Spec => []LockIsHeldOnlyInPend
BY Invariant, PTL DEF IInv

(* No wakeup is lost: EventfdCovers at a moment when the lock is free.      *)
THEOREM NoLostWakeupTheorem == Spec => []NoLostWakeup
<1>1. IInv => NoLostWakeup
  <2> SUFFICES ASSUME IInv, loopPc = "poll", mutex_ = Free,
                      pendingFuncs_ # <<>>
               PROVE  eventfd_ > 0
    BY DEF NoLostWakeup
  <2>1. Len(pendingFuncs_) \in Nat /\ Len(pendingFuncs_) # 0 /\ eventfd_ \in Nat
    BY LenZero DEF IInv, TypeOK
  <2> QED BY <2>1 DEF IInv, EventfdCovers, InRound
<1> QED BY <1>1, Invariant, PTL

(* The read that ends doPendingFunctors always finds the eventfd readable.  *)
THEOREM EventfdReadTheorem == Spec => []EventfdReadSucceeds
<1>1. IInv => EventfdReadSucceeds
  <2> SUFFICES ASSUME IInv, loopPc = "read" PROVE eventfd_ > 0
    BY DEF EventfdReadSucceeds, IInv
  <2>1. Len(pendingFuncs_) \in Nat /\ eventfd_ \in Nat
        /\ (Len(pendingFuncs_) = 0 <=> pendingFuncs_ = <<>>)
    BY LenZero DEF IInv, TypeOK
  <2> QED BY <2>1 DEF IInv, EventfdCovers, InRound
<1> QED BY <1>1, Invariant, PTL

(* Pended functors are run exactly once and in the order of the pends.      *)
THEOREM ExactlyOnceTheorem == Spec => []ExactlyOnceInOrder
BY Invariant, PTL DEF IInv

(* quit() never leaves the loop asleep.                                     *)
THEOREM QuitWakesTheorem == Spec => []QuitWakesPoll
BY Invariant, PTL DEF IInv

-----------------------------------------------------------------------------
(* push_back on the second vector is a push_back on the concatenation.      *)
LEMMA ConcatAppend ==
    ASSUME NEW s \in Seq(Nat), NEW p \in Seq(Nat), NEW x \in Nat
    PROVE  s \o Append(p, x) = Append(s \o p, x)
BY AppendProperties, ConcatProperties

(* Taking the head of a non-empty first vector takes it off the whole.      *)
LEMMA ConcatTail ==
    ASSUME NEW s \in Seq(Nat), NEW p \in Seq(Nat), s # <<>>
    PROVE  /\ s \o p # <<>>
           /\ Head(s \o p) = Head(s)
           /\ Tail(s \o p) = Tail(s) \o p
BY HeadTailProperties, ConcatProperties, EmptySeq

(* EventLoop implements FunctorQueue: the batch followed by the vector is   *)
(* one queue; a push_back pends, the start of a functor starts, the swap    *)
(* and everything else change nothing.                                      *)
THEOREM RefinementTheorem == Spec => Refines
<1> USE EventLoopAssumption, NamesAssumption
<1>1. Init => Queue!Init
  BY ConcatEmptySeq, EmptyFacts DEF Init, Queue!Init
<1>2. IInv /\ [Next]_vars => [Queue!Next]_(Queue!qvars)
  <2> SUFFICES ASSUME IInv, [Next]_vars PROVE [Queue!Next]_(Queue!qvars)
    OBVIOUS
  <2>0. /\ functions \in Seq(Nat) /\ pendingFuncs_ \in Seq(Nat)
        /\ posted \in Nat
    BY DEF IInv, TypeOK
  <2>1. ASSUME NEW t \in Callers, PendLocked(t) PROVE Queue!Pend
    <3>1. functions' \o pendingFuncs_'
             = Append(functions \o pendingFuncs_, posted + 1)
      BY <2>0, <2>1, ConcatAppend DEF PendLocked
    <3>2. functions \o pendingFuncs_ \in Seq(Nat)
      BY <2>0, ConcatProperties
    <3>3. /\ Len(functions' \o pendingFuncs_')
                = Len(functions \o pendingFuncs_) + 1
          /\ (functions' \o pendingFuncs_')[Len(functions \o pendingFuncs_) + 1]
                = posted + 1
      BY <2>0, <3>1, <3>2, AppendFacts
    <3> QED BY <2>1, <3>1, <3>3 DEF PendLocked, Queue!Pend
  <2>2. CASE RunFunctor
    <3>1. functions # <<>>
      BY <2>2 DEF RunFunctor
    <3> QED BY <2>0, <2>2, <3>1, ConcatTail
            DEF RunFunctor, Queue!Next, Queue!Start
  <2>3. CASE SwapFunctors
    <3>1. functions = <<>>
      BY <2>3 DEF SwapFunctors, IInv, BatchOnlyInRound
    <3>2. functions' \o pendingFuncs_' = functions \o pendingFuncs_
      BY <2>0, <2>3, <3>1, ConcatEmptySeq DEF SwapFunctors
    <3> QED BY <2>3, <3>2 DEF SwapFunctors, Queue!qvars
  <2>4. ASSUME UNCHANGED <<functions, pendingFuncs_, ran>>
        PROVE  UNCHANGED Queue!qvars
    BY <2>4 DEF Queue!qvars
  <2> QED
    BY <2>1, <2>2, <2>3, <2>4
       DEF Next, Call, LoopStep, vars, Queue!Next, PendWrite, Quit, StartLoop,
           While, Poll, PollInterrupted, HandleEvents, EndOfRound,
           CallbackReturns, FunctorsDone, readEventfdOnce
<1> QED BY <1>1, <1>2, Invariant, PTL DEF Spec, Refines, Queue!Spec
=============================================================================
