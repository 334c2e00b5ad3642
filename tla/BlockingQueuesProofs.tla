------------------------ MODULE BlockingQueuesProofs ------------------------
(***************************************************************************)
(* Proofs about BlockingQueues, for any finite number of threads and any   *)
(* capacity: one notifyOne() per item put or taken loses no wakeup.        *)
(***************************************************************************)
EXTENDS BlockingQueues, SequenceTheorems, FiniteSetTheorems, TLAPS

(* Only a bounded queue makes producers wait, and only a pool is stopped.   *)
KindInv ==
    /\ bounded => running_
    /\ ~bounded => At("waiting", Producers) = {}

(* A worker that took a task after stop() is on its way out.                *)
LateInv ==
    \A c \in Consumers :
        \/ late[c] = 0
        \/ late[c] = 1 /\ ~running_ /\ ~bounded /\ pc[c] \in {"task", "out", "ended"}

IInv ==
    /\ TypeOK /\ KindInv /\ LateInv /\ WithinCapacity
    /\ ItemsAreCovered /\ PlacesAreCovered

-----------------------------------------------------------------------------
(* What a step does to the places of the threads.                           *)
LEMMA MovedFacts ==
    ASSUME TypeOK, NEW self \in Threads, NEW place, NEW woken,
           pc' = Moved(self, place, woken)
    PROVE  /\ pc'[self] = place
           /\ \A t \in Threads : t # self /\ t \in woken => pc'[t] = "woken"
           /\ \A t \in Threads : t # self /\ t \notin woken => pc'[t] = pc[t]
  BY DEF Moved

(* The threads about to test the queue can be counted.                      *)
LEMMA TestingFinite ==
    /\ IsFiniteSet(Testing(Consumers)) /\ Cardinality(Testing(Consumers)) \in Nat
    /\ IsFiniteSet(Testing(Producers)) /\ Cardinality(Testing(Producers)) \in Nat
<1>1. Testing(Consumers) \subseteq Consumers /\ Testing(Producers) \subseteq Producers
  BY DEF Testing, At
<1> QED BY <1>1, QueuesAssumption, FS_Subset, FS_CardinalityType

(* More of them cover at least as much.                                     *)
LEMMA CountGrows ==
    ASSUME NEW S, IsFiniteSet(S), NEW A, NEW B, A \subseteq B, B \subseteq S
    PROVE  /\ Cardinality(A) \in Nat /\ Cardinality(B) \in Nat
           /\ Cardinality(A) <= Cardinality(B)
  BY FS_Subset, FS_CardinalityType

-----------------------------------------------------------------------------
LEMMA TypeStep == TypeOK /\ [Next]_vars => TypeOK'
<1> USE DEF TypeOK
<1> SUFFICES ASSUME TypeOK, [Next]_vars PROVE TypeOK'
  OBVIOUS
<1>1. ASSUME NEW self \in Threads, NEW woken,
             NEW place \in {"out", "locking", "waiting", "woken", "task", "ended"},
             pc' = Moved(self, place, woken)
      PROVE  pc' \in [Threads -> {"out", "locking", "waiting", "woken", "task", "ended"}]
  BY <1>1 DEF Moved
<1>2. Producers \subseteq Threads /\ Consumers \subseteq Threads
  BY DEF Threads
<1>3. ASSUME NEW p \in Producers, CallPut(p) PROVE TypeOK'
  BY <1>1, <1>2, <1>3 DEF CallPut
<1>4. ASSUME NEW p \in Producers, WaitNotFull(p) PROVE TypeOK'
  BY <1>1, <1>2, <1>4 DEF WaitNotFull
<1>5. ASSUME NEW p \in Producers, Put(p) PROVE TypeOK'
  <2>1. que_' = Append(que_, <<p, puts[p]>>) /\ puts' = [puts EXCEPT ![p] = @ + 1]
        /\ UNCHANGED <<bounded, running_, late>>
    BY <1>5 DEF Put
  <2>2. que_' \in Seq(Producers \X Nat) /\ puts' \in [Producers -> Nat]
    BY <2>1
  <2>3. PICK woken \in WokenByPut : pc' = Moved(p, "out", woken)
    BY <1>5 DEF Put
  <2> QED BY <1>1, <1>2, <2>1, <2>2, <2>3
<1>6. ASSUME NEW c \in Consumers, CallTake(c) PROVE TypeOK'
  BY <1>1, <1>2, <1>6 DEF CallTake
<1>7. ASSUME NEW c \in Consumers, LeaveRun(c) PROVE TypeOK'
  BY <1>1, <1>2, <1>7 DEF LeaveRun
<1>8. ASSUME NEW c \in Consumers, WaitNotEmpty(c) PROVE TypeOK'
  BY <1>1, <1>2, <1>8 DEF WaitNotEmpty
<1>9. ASSUME NEW c \in Consumers, Take(c) PROVE TypeOK'
  <2>1. que_ # <<>> /\ que_' = Tail(que_) /\ UNCHANGED <<bounded, running_, puts>>
        /\ late' = IF running_ THEN late ELSE [late EXCEPT ![c] = @ + 1]
    BY <1>9 DEF Take
  <2>2. que_' \in Seq(Producers \X Nat)
    BY <2>1, HeadTailProperties
  <2>3. late' \in [Consumers -> Nat]
    BY <2>1
  <2>4. PICK woken \in WokenByTake : pc' = Moved(c, "task", woken)
    BY <1>9 DEF Take
  <2> QED BY <1>1, <1>2, <2>1, <2>2, <2>3, <2>4
<1>10. ASSUME NEW c \in Consumers, TaskReturns(c) PROVE TypeOK'
  BY <1>1, <1>2, <1>10 DEF TaskReturns
<1>11. ASSUME NEW t \in Threads, SpuriousWakeup(t) PROVE TypeOK'
  BY <1>1, <1>11 DEF SpuriousWakeup
<1>12. ASSUME Stop PROVE TypeOK'
  BY <1>12 DEF Stop
<1>13. CASE UNCHANGED vars
  BY <1>13 DEF vars
<1> QED
  BY <1>3, <1>4, <1>5, <1>6, <1>7, <1>8, <1>9, <1>10, <1>11, <1>12, <1>13
  DEF Next, ProducerStep, ConsumerStep

(* A consumer's waiting is always covered: a put() wakes one consumer for   *)
(* its item, and an item is taken by a consumer that was counted.           *)
LEMMA ItemsStep == IInv /\ [Next]_vars => ItemsAreCovered'
<1> SUFFICES ASSUME IInv, [Next]_vars, (At("waiting", Consumers) # {})'
             PROVE  (Len(que_) <= Cardinality(Testing(Consumers)))'
  BY DEF ItemsAreCovered
<1> DEFINE W == At("waiting", Consumers)
           T == Testing(Consumers)
<1>1. TypeOK /\ (W # {} => Len(que_) <= Cardinality(T)) /\ Len(que_) \in Nat
  BY LenProperties DEF IInv, ItemsAreCovered, TypeOK
<1>2. Producers \subseteq Threads /\ Consumers \subseteq Threads
      /\ Producers \intersect Consumers = {} /\ IsFiniteSet(Consumers)
  BY QueuesAssumption DEF Threads
<1>3. T' \subseteq Consumers /\ W' # {}
  BY DEF Testing, At
<1>4. ASSUME que_' = que_, W' \subseteq W, T \subseteq T'
      PROVE  Len(que_') <= Cardinality(T')
  <2>1. W # {}
    BY <1>3, <1>4
  <2>2. /\ Cardinality(T) \in Nat /\ Cardinality(T') \in Nat
        /\ Cardinality(T) <= Cardinality(T')
    BY <1>2, <1>3, <1>4, CountGrows
  <2> HIDE DEF W, T
  <2> QED BY <1>1, <1>4, <2>1, <2>2
<1>5. ASSUME que_' = que_, \A c \in Consumers : pc'[c] = pc[c]
      PROVE  Len(que_') <= Cardinality(T')
  <2>1. W' \subseteq W /\ T \subseteq T'
    BY <1>5 DEF At, Testing
  <2> QED BY <1>4, <1>5, <2>1
<1>6. ASSUME NEW p \in Producers, CallPut(p) PROVE Len(que_') <= Cardinality(T')
  BY <1>1, <1>2, <1>5, <1>6, MovedFacts DEF CallPut
<1>7. ASSUME NEW p \in Producers, WaitNotFull(p) PROVE Len(que_') <= Cardinality(T')
  BY <1>1, <1>2, <1>5, <1>7, MovedFacts DEF WaitNotFull
<1>8. ASSUME NEW p \in Producers, Put(p) PROVE Len(que_') <= Cardinality(T')
  <2>1. PICK woken \in Signalled(W) : pc' = Moved(p, "out", woken)
    BY <1>8 DEF Put, WokenByPut
  <2>2. /\ \A c \in Consumers : c \in woken => pc'[c] = "woken"
        /\ \A c \in Consumers : c \notin woken => pc'[c] = pc[c]
    BY <1>1, <1>2, <2>1, MovedFacts
  <2>3. W # {}
    <3> SUFFICES ASSUME W = {} PROVE FALSE
      OBVIOUS
    <3>1. woken = {}
      BY <2>1 DEF Signalled
    <3>2. W' = {}
      BY <2>2, <3>1 DEF At
    <3> QED BY <1>3, <3>2
  <2>4. PICK w \in W : woken = {w}
    BY <2>1, <2>3 DEF Signalled
  <2>5. w \in Consumers /\ w \notin T
    BY DEF At, Testing
  <2>6. T' = T \union {w}
    BY <2>2, <2>4, <2>5 DEF At, Testing
  <2>7. Cardinality(T') = Cardinality(T) + 1 /\ Cardinality(T) \in Nat
    BY <2>5, <2>6, TestingFinite, FS_AddElement
  <2>8. Len(que_') = Len(que_) + 1
    BY <1>1, <1>8 DEF Put, TypeOK
  <2> HIDE DEF W, T
  <2> QED BY <1>1, <2>3, <2>7, <2>8
<1>9. ASSUME NEW c \in Consumers, pc[c] = "out" \/ pc[c] = "task", que_' = que_,
             NEW place \in {"locking", "out", "ended"}, pc' = Moved(c, place, {})
      PROVE  Len(que_') <= Cardinality(T')
  <2>1. pc'[c] = place /\ \A d \in Consumers : d # c => pc'[d] = pc[d]
    BY <1>1, <1>2, <1>9, MovedFacts
  <2>2. W' \subseteq W /\ T \subseteq T'
    BY <1>9, <2>1 DEF At, Testing
  <2> QED BY <1>4, <1>9, <2>2
<1>10. ASSUME NEW c \in Consumers, CallTake(c) PROVE Len(que_') <= Cardinality(T')
  BY <1>9, <1>10 DEF CallTake
<1>11. ASSUME NEW c \in Consumers, LeaveRun(c) PROVE Len(que_') <= Cardinality(T')
  BY <1>9, <1>11 DEF LeaveRun
<1>12. ASSUME NEW c \in Consumers, TaskReturns(c) PROVE Len(que_') <= Cardinality(T')
  BY <1>9, <1>12 DEF TaskReturns
<1>13. ASSUME NEW c \in Consumers, WaitNotEmpty(c) PROVE Len(que_') <= Cardinality(T')
  <2>1. que_' = <<>>
    BY <1>13 DEF WaitNotEmpty
  <2>2. Cardinality(T') \in Nat
    BY <1>2, <1>3, CountGrows
  <2> HIDE DEF T
  <2> QED BY <2>1, <2>2
<1>14. ASSUME NEW c \in Consumers, Take(c) PROVE Len(que_') <= Cardinality(T')
  <2>1. c \in T /\ que_ # <<>> /\ que_' = Tail(que_)
    BY <1>14 DEF Take
  <2>2. PICK woken \in WokenByTake : pc' = Moved(c, "task", woken)
    BY <1>14 DEF Take
  <2>3. woken \subseteq Producers
    BY <2>2 DEF WokenByTake, Signalled, At
  <2>4. pc'[c] = "task" /\ \A d \in Consumers : d # c => pc'[d] = pc[d]
    BY <1>1, <1>2, <2>2, <2>3, MovedFacts
  <2>5. T' = T \ {c} /\ W' \subseteq W
    BY <2>4 DEF At, Testing
  <2>6. Cardinality(T') = Cardinality(T) - 1 /\ Cardinality(T) \in Nat
    BY <2>1, <2>5, TestingFinite, FS_RemoveElement
  <2>7. Len(que_') = Len(que_) - 1
    BY <1>1, <2>1, HeadTailProperties DEF TypeOK
  <2>8. W # {}
    BY <1>3, <2>5
  <2> HIDE DEF W, T
  <2> QED BY <1>1, <2>6, <2>7, <2>8
<1>15. ASSUME NEW t \in Threads, SpuriousWakeup(t) PROVE Len(que_') <= Cardinality(T')
  <2>1. /\ pc[t] = "waiting" /\ pc'[t] = "woken" /\ que_' = que_
        /\ \A u \in Threads : u # t => pc'[u] = pc[u]
    BY <1>1, <1>15, MovedFacts DEF SpuriousWakeup
  <2>2. W' \subseteq W /\ T \subseteq T'
    BY <1>2, <2>1 DEF At, Testing
  <2> QED BY <1>4, <2>1, <2>2
<1>16. ASSUME Stop \/ UNCHANGED vars PROVE Len(que_') <= Cardinality(T')
  BY <1>5, <1>16 DEF Stop, vars
<1> QED
  BY <1>6, <1>7, <1>8, <1>10, <1>11, <1>12, <1>13, <1>14, <1>15, <1>16
  DEF Next, ProducerStep, ConsumerStep

(* The same for producers: a take() wakes one for the place it makes.       *)
LEMMA PlacesStep == IInv /\ [Next]_vars => PlacesAreCovered'
<1> DEFINE W == At("waiting", Producers)
           T == Testing(Producers)
           Covered == capacity_ <= Len(que_) + Cardinality(T)
<1> SUFFICES ASSUME IInv, [Next]_vars, W' # {} PROVE Covered'
  BY DEF PlacesAreCovered
<1>1. TypeOK /\ KindInv /\ (W # {} => Covered) /\ Len(que_) \in Nat /\ capacity_ \in Nat
  BY LenProperties, QueuesAssumption DEF IInv, PlacesAreCovered, TypeOK
<1>2. Producers \subseteq Threads /\ Consumers \subseteq Threads
      /\ Producers \intersect Consumers = {} /\ IsFiniteSet(Producers)
  BY QueuesAssumption DEF Threads
<1>3. T' \subseteq Producers
  BY DEF Testing, At
<1>4. ASSUME que_' = que_, W' \subseteq W, T \subseteq T' PROVE Covered'
  <2>1. W # {}
    BY <1>4
  <2>2. /\ Cardinality(T) \in Nat /\ Cardinality(T') \in Nat
        /\ Cardinality(T) <= Cardinality(T')
    BY <1>2, <1>3, <1>4, CountGrows
  <2>3. capacity_ <= Len(que_) + Cardinality(T)
    BY <1>1, <2>1
  <2> HIDE DEF W, T
  <2> QED BY <1>1, <1>4, <2>2, <2>3
<1>5. ASSUME que_' = que_, \A p \in Producers : pc'[p] = pc[p] PROVE Covered'
  <2>1. W' \subseteq W /\ T \subseteq T'
    BY <1>5 DEF At, Testing
  <2> HIDE DEF Covered
  <2> QED BY <1>4, <1>5, <2>1
<1>6. ASSUME NEW p \in Producers, CallPut(p) PROVE Covered'
  <2>1. /\ pc[p] = "out" /\ pc'[p] = "locking" /\ que_' = que_
        /\ \A u \in Producers : u # p => pc'[u] = pc[u]
    BY <1>1, <1>2, <1>6, MovedFacts DEF CallPut
  <2>2. W' \subseteq W /\ T \subseteq T'
    BY <2>1 DEF At, Testing
  <2> HIDE DEF Covered
  <2> QED BY <1>4, <2>1, <2>2
<1>7. ASSUME NEW p \in Producers, WaitNotFull(p) PROVE Covered'
  <2>1. Len(que_') = capacity_
    BY <1>7 DEF WaitNotFull, MustWaitToPut
  <2>2. Cardinality(T') \in Nat
    BY <1>2, <1>3, CountGrows
  <2> HIDE DEF T
  <2> QED BY <1>1, <2>1, <2>2
<1>8. ASSUME NEW p \in Producers, Put(p) PROVE Covered'
  <2>1. PICK woken \in Signalled(At("waiting", Consumers)) : pc' = Moved(p, "out", woken)
    BY <1>8 DEF Put, WokenByPut
  <2>2. woken \subseteq Consumers
    BY <2>1 DEF Signalled, At
  <2>3. pc'[p] = "out" /\ \A q \in Producers : q # p => pc'[q] = pc[q]
    BY <1>1, <1>2, <2>1, <2>2, MovedFacts
  <2>4. p \in T
    BY <1>8 DEF Put
  <2>5. T' = T \ {p} /\ W' \subseteq W
    BY <2>3 DEF At, Testing
  <2>6. Cardinality(T') = Cardinality(T) - 1 /\ Cardinality(T) \in Nat
    BY <2>4, <2>5, TestingFinite, FS_RemoveElement
  <2>7. Len(que_') = Len(que_) + 1
    BY <1>1, <1>8 DEF Put, TypeOK
  <2>8. capacity_ <= Len(que_) + Cardinality(T)
    BY <1>1, <2>5
  <2> HIDE DEF W, T
  <2> QED BY <1>1, <2>6, <2>7, <2>8
<1>9. ASSUME NEW c \in Consumers, que_' = que_, NEW place, pc' = Moved(c, place, {})
      PROVE  Covered'
  <2>1. \A p \in Producers : pc'[p] = pc[p]
    BY <1>1, <1>2, <1>9, MovedFacts
  <2> HIDE DEF Covered
  <2> QED BY <1>5, <1>9, <2>1
<1>10. ASSUME NEW c \in Consumers, CallTake(c) \/ LeaveRun(c) \/ WaitNotEmpty(c) \/ TaskReturns(c)
       PROVE  Covered'
  <2> HIDE DEF Covered
  <2> QED BY <1>9, <1>10 DEF CallTake, LeaveRun, WaitNotEmpty, TaskReturns
<1>11. ASSUME NEW c \in Consumers, Take(c) PROVE Covered'
  <2>1. que_ # <<>> /\ que_' = Tail(que_)
    BY <1>11 DEF Take
  <2>2. PICK woken \in WokenByTake : pc' = Moved(c, "task", woken)
    BY <1>11 DEF Take
  <2>3. /\ \A p \in Producers : p \in woken => pc'[p] = "woken"
        /\ \A p \in Producers : p \notin woken => pc'[p] = pc[p]
    BY <1>1, <1>2, <2>2, MovedFacts
  <2>4. W' \subseteq W
    BY <2>3 DEF At
  <2>5. W # {} /\ bounded
    <3>1. W # {}
      BY <2>4
    <3> QED BY <1>1, <3>1 DEF KindInv, TypeOK
  <2>6. PICK w \in W : woken = {w}
    BY <2>2, <2>5 DEF WokenByTake, Signalled
  <2>7. w \in Producers /\ w \notin T
    BY DEF At, Testing
  <2>8. T' = T \union {w}
    BY <2>3, <2>6, <2>7 DEF At, Testing
  <2>9. Cardinality(T') = Cardinality(T) + 1 /\ Cardinality(T) \in Nat
    BY <2>7, <2>8, TestingFinite, FS_AddElement
  <2>10. Len(que_') = Len(que_) - 1
    BY <1>1, <2>1, HeadTailProperties DEF TypeOK
  <2>11. capacity_ <= Len(que_) + Cardinality(T)
    BY <1>1, <2>5
  <2> HIDE DEF W, T
  <2> QED BY <1>1, <2>9, <2>10, <2>11
<1>12. ASSUME NEW t \in Threads, SpuriousWakeup(t) PROVE Covered'
  <2>1. /\ pc[t] = "waiting" /\ pc'[t] = "woken" /\ que_' = que_
        /\ \A u \in Threads : u # t => pc'[u] = pc[u]
    BY <1>1, <1>12, MovedFacts DEF SpuriousWakeup
  <2>2. W' \subseteq W /\ T \subseteq T'
    BY <1>2, <2>1 DEF At, Testing
  <2> HIDE DEF Covered
  <2> QED BY <1>4, <2>1, <2>2
<1>13. ASSUME Stop \/ UNCHANGED vars PROVE Covered'
  <2> HIDE DEF Covered
  <2> QED BY <1>5, <1>13 DEF Stop, vars
<1> HIDE DEF Covered
<1> QED
  BY <1>6, <1>7, <1>8, <1>10, <1>11, <1>12, <1>13 DEF Next, ProducerStep, ConsumerStep

(* The queue's size, the kinds and the late tasks.                          *)
LEMMA SmallStep == IInv /\ [Next]_vars => KindInv' /\ LateInv' /\ WithinCapacity'
<1> SUFFICES ASSUME IInv, [Next]_vars PROVE KindInv' /\ LateInv' /\ WithinCapacity'
  OBVIOUS
<1>1. TypeOK /\ KindInv /\ LateInv /\ WithinCapacity /\ Len(que_) \in Nat
      /\ capacity_ \in Nat
  BY LenProperties, QueuesAssumption DEF IInv, TypeOK
<1>2. Producers \subseteq Threads /\ Consumers \subseteq Threads
      /\ Producers \intersect Consumers = {}
  BY QueuesAssumption DEF Threads
<1>3. bounded' = bounded /\ (running_' = running_ \/ (~bounded /\ running_' = FALSE))
  BY DEF Next, vars, ProducerStep, ConsumerStep, CallPut, WaitNotFull, Put, CallTake,
         LeaveRun, WaitNotEmpty, Take, TaskReturns, SpuriousWakeup, Stop
<1>4. ASSUME NEW p \in Producers, CallPut(p)
      PROVE  KindInv' /\ LateInv' /\ WithinCapacity'
  <2>1. /\ pc'[p] = "locking" /\ que_' = que_ /\ late' = late /\ running_' = running_
        /\ \A t \in Threads : t # p => pc'[t] = pc[t]
    BY <1>1, <1>2, <1>4, MovedFacts DEF CallPut
  <2> QED BY <1>1, <1>2, <1>3, <2>1 DEF KindInv, LateInv, WithinCapacity, At
<1>5. ASSUME NEW p \in Producers, WaitNotFull(p)
      PROVE  KindInv' /\ LateInv' /\ WithinCapacity'
  <2>1. /\ bounded /\ que_' = que_ /\ late' = late /\ running_' = running_
        /\ \A t \in Threads : t # p => pc'[t] = pc[t]
    BY <1>1, <1>2, <1>5, MovedFacts DEF WaitNotFull, MustWaitToPut
  <2> QED BY <1>1, <1>2, <1>3, <2>1 DEF KindInv, LateInv, WithinCapacity, At
<1>6. ASSUME NEW p \in Producers, Put(p)
      PROVE  KindInv' /\ LateInv' /\ WithinCapacity'
  <2>1. PICK woken \in Signalled(At("waiting", Consumers)) : pc' = Moved(p, "out", woken)
    BY <1>6 DEF Put, WokenByPut
  <2>2. woken \subseteq At("waiting", Consumers)
    BY <2>1 DEF Signalled
  <2>3. /\ pc'[p] = "out" /\ \A t \in Threads : t # p /\ t \notin woken => pc'[t] = pc[t]
        /\ \A t \in Threads : t # p /\ t \in woken => pc'[t] = "woken" /\ pc[t] = "waiting"
    BY <1>1, <1>2, <2>1, <2>2, MovedFacts DEF At
  <2>4. late' = late /\ running_' = running_ /\ ~(bounded /\ Len(que_) = capacity_)
        /\ Len(que_') = Len(que_) + 1
    BY <1>1, <1>6 DEF Put, MustWaitToPut, TypeOK
  <2>5. WithinCapacity'
    BY <1>1, <1>3, <2>4 DEF WithinCapacity
  <2>6. LateInv'
    BY <1>1, <1>2, <1>3, <2>3, <2>4 DEF LateInv
  <2>7. KindInv'
    BY <1>1, <1>2, <1>3, <2>2, <2>3, <2>4 DEF KindInv, At
  <2> QED BY <2>5, <2>6, <2>7
<1>7. ASSUME NEW c \in Consumers,
             CallTake(c) \/ LeaveRun(c) \/ WaitNotEmpty(c) \/ TaskReturns(c)
      PROVE  KindInv' /\ LateInv' /\ WithinCapacity'
  <2>1. /\ que_' = que_ /\ late' = late /\ running_' = running_
        /\ \A t \in Threads : t # c => pc'[t] = pc[t]
    BY <1>1, <1>2, <1>7, MovedFacts DEF CallTake, LeaveRun, WaitNotEmpty, TaskReturns
  <2>2. \/ pc[c] = "out" /\ (bounded \/ running_)
        \/ pc'[c] = "ended"
        \/ pc[c] \in {"locking", "woken"}
        \/ pc'[c] = "out"
    BY <1>1, <1>2, <1>7, MovedFacts
    DEF CallTake, LeaveRun, WaitNotEmpty, TaskReturns, GoesOn, Testing, At
  <2>3. LateInv'
    BY <1>1, <1>2, <1>3, <2>1, <2>2 DEF LateInv
  <2>4. KindInv' /\ WithinCapacity'
    BY <1>1, <1>2, <1>3, <2>1 DEF KindInv, WithinCapacity, At
  <2> QED BY <2>3, <2>4
<1>8. ASSUME NEW c \in Consumers, Take(c)
      PROVE  KindInv' /\ LateInv' /\ WithinCapacity'
  <2>1. PICK woken \in WokenByTake : pc' = Moved(c, "task", woken)
    BY <1>8 DEF Take
  <2>2. woken \subseteq Producers
    BY <2>1 DEF WokenByTake, Signalled, At
  <2>3. /\ pc'[c] = "task" /\ \A d \in Consumers : d # c => pc'[d] = pc[d]
        /\ \A p \in Producers : pc'[p] \in {"woken", pc[p]}
    BY <1>1, <1>2, <2>1, <2>2, MovedFacts
  <2>4. /\ pc[c] \in {"locking", "woken"} /\ running_' = running_
        /\ late' = IF running_ THEN late ELSE [late EXCEPT ![c] = @ + 1]
    BY <1>8 DEF Take, Testing, At
  <2>5. Len(que_') = Len(que_) - 1
    BY <1>1, <1>8, HeadTailProperties DEF Take, TypeOK
  <2>6. WithinCapacity'
    BY <1>1, <1>3, <2>5 DEF WithinCapacity
  <2>7. late[c] = 0
    BY <1>1, <2>4 DEF LateInv
  <2>8. late' = late \/ (~running_ /\ late' = [late EXCEPT ![c] = 1])
    BY <1>1, <2>4, <2>7 DEF TypeOK
  <2>9. LateInv'
    BY <1>1, <1>3, <2>3, <2>4, <2>7, <2>8 DEF LateInv, KindInv, TypeOK
  <2>10. KindInv'
    BY <1>1, <1>3, <2>3, <2>4 DEF KindInv, At
  <2> QED BY <2>6, <2>9, <2>10
<1>9. ASSUME NEW t \in Threads, SpuriousWakeup(t)
      PROVE  KindInv' /\ LateInv' /\ WithinCapacity'
  <2>1. /\ pc[t] = "waiting" /\ pc'[t] = "woken" /\ que_' = que_ /\ late' = late
        /\ running_' = running_ /\ \A u \in Threads : u # t => pc'[u] = pc[u]
    BY <1>1, <1>9, MovedFacts DEF SpuriousWakeup
  <2> QED BY <1>1, <1>2, <1>3, <2>1 DEF KindInv, LateInv, WithinCapacity, At
<1>10. ASSUME Stop \/ UNCHANGED vars
       PROVE  KindInv' /\ LateInv' /\ WithinCapacity'
  <2>1. que_' = que_ /\ late' = late /\ pc' = pc
    BY <1>10 DEF Stop, vars
  <2> QED BY <1>1, <1>3, <2>1 DEF KindInv, LateInv, WithinCapacity, At, TypeOK
<1> QED
  BY <1>4, <1>5, <1>6, <1>7, <1>8, <1>9, <1>10 DEF Next, ProducerStep, ConsumerStep

-----------------------------------------------------------------------------
(* The inductive invariant: what each side counts is only right together    *)
(* with the types, and producers only wait where take() wakes them.         *)
THEOREM InductiveInvariant == Spec => []IInv
<1>1. Init => IInv
  <2> SUFFICES ASSUME Init PROVE IInv
    OBVIOUS
  <2>1. TypeOK
    BY DEF Init, TypeOK
  <2>2. \A S \in {Producers, Consumers} : At("waiting", S) = {}
    BY DEF Init, At, Threads
  <2>3. Len(que_) = 0 /\ capacity_ \in Nat
    BY QueuesAssumption DEF Init
  <2> QED BY <2>1, <2>2, <2>3 DEF IInv, KindInv, LateInv, WithinCapacity,
          ItemsAreCovered, PlacesAreCovered, Init
<1>2. IInv /\ [Next]_vars => IInv'
  BY TypeStep, ItemsStep, PlacesStep, SmallStep DEF IInv
<1> QED BY <1>1, <1>2, PTL DEF Spec

(* The bounded queue holds at most capacity_ items (put).                   *)
THEOREM WithinCapacityAlways == Spec => []WithinCapacity
<1>1. IInv => WithinCapacity
  BY DEF IInv
<1> QED BY <1>1, InductiveInvariant, PTL

(* No wakeup of a consumer is lost (put, take).                             *)
THEOREM ItemsAreCoveredAlways == Spec => []ItemsAreCovered
<1>1. IInv => ItemsAreCovered
  BY DEF IInv
<1> QED BY <1>1, InductiveInvariant, PTL

(* No wakeup of a producer is lost (put, take).                             *)
THEOREM PlacesAreCoveredAlways == Spec => []PlacesAreCovered
<1>1. IInv => PlacesAreCovered
  BY DEF IInv
<1> QED BY <1>1, InductiveInvariant, PTL

(* A worker takes at most one task after stop() (ThreadPool::run).          *)
THEOREM StopsSoonAlways == Spec => []StopsSoon
<1>1. IInv => StopsSoon
  BY DEF IInv, LateInv, StopsSoon
<1> QED BY <1>1, InductiveInvariant, PTL
=============================================================================
