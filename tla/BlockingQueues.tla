--------------------------- MODULE BlockingQueues ---------------------------
(***************************************************************************)
(* base/BlockingQueue.h, base/BoundedBlockingQueue.h and the workers of    *)
(* base/ThreadPool.h.  Both queues are a deque under one mutex; the        *)
(* bounded one has a condition variable for each of its two conditions,    *)
(* the other one only waits for items.  A pool is a BlockingQueue whose    *)
(* consumers test running_ before each take().                             *)
(*                                                                         *)
(* A critical section runs from the lock, or from the return of wait(), to *)
(* the unlock or to the next wait(): one action.  A signal wakes one       *)
(* waiting thread, and a thread may also wake without one.  Items are of a *)
(* type without a destructor, as in every use of BoundedBlockingQueue in   *)
(* the repository: its take() reads the item after pop_front().            *)
(***************************************************************************)
EXTENDS Naturals, Sequences, FiniteSets

CONSTANTS Producers, Consumers,
          capacity_,        \* of the bounded queue
          MaxPuts           \* bound: calls of put() by one producer

ASSUME QueuesAssumption ==
    /\ IsFiniteSet(Producers) /\ IsFiniteSet(Consumers)
    /\ Producers \intersect Consumers = {}
    /\ capacity_ \in Nat \ {0} /\ MaxPuts \in Nat

VARIABLES
    bounded,           \* BoundedBlockingQueue, or a pool over BlockingQueue
    que_,              \* items <<producer, number of its put()>>
    running_,          \* of the pool
    pc,                \* where a thread is
    puts,              \* how often a producer has put
    late               \* history: tasks a worker took after stop()

vars == <<bounded, que_, running_, pc, puts, late>>

Threads == Producers \union Consumers
At(place, S) == {t \in S : pc[t] = place}

(* threads that have the lock to get and the condition to test              *)
Testing(S) == At("locking", S) \union At("woken", S)

(* cv.notifyOne(): one of the waiting threads, if there is one              *)
Mutant_Signalled(waiting) == {{}}
Signalled(waiting) ==
    IF waiting = {} THEN {{}} ELSE {{t} : t \in waiting}

Moved(self, place, woken) ==
    [t \in Threads |-> IF t = self THEN place
                       ELSE IF t \in woken THEN "woken" ELSE pc[t]]
-----------------------------------------------------------------------------
Init ==
    /\ bounded \in BOOLEAN
    /\ que_ = <<>>
    /\ running_ = TRUE
    /\ pc = [t \in Threads |-> "out"]
    /\ puts = [p \in Producers |-> 0]
    /\ late = [c \in Consumers |-> 0]

(* put() or doTask() is called                                              *)
CallPut(p) ==
    /\ pc[p] = "out" /\ puts[p] < MaxPuts
    /\ pc' = Moved(p, "locking", {})
    /\ UNCHANGED <<bounded, que_, running_, puts, late>>

(* while(que_.size() == capacity_)                                          *)
Mutant_MustWaitToPut(p) == bounded /\ pc[p] = "locking" /\ Len(que_) = capacity_
MustWaitToPut(p) == bounded /\ Len(que_) = capacity_

WaitNotFull(p) ==
    /\ p \in Testing(Producers) /\ MustWaitToPut(p)
    /\ pc' = Moved(p, "waiting", {})
    /\ UNCHANGED <<bounded, que_, running_, puts, late>>

(* the consumers put() wakes                                                *)
Mutant_WokenByPut == IF que_ = <<>> THEN Signalled(At("waiting", Consumers)) ELSE {{}}
WokenByPut == Signalled(At("waiting", Consumers))

Put(p) ==
    /\ p \in Testing(Producers) /\ ~MustWaitToPut(p)
    /\ que_' = Append(que_, <<p, puts[p]>>)
    /\ puts' = [puts EXCEPT ![p] = @ + 1]
    /\ \E woken \in WokenByPut : pc' = Moved(p, "out", woken)
    /\ UNCHANGED <<bounded, running_, late>>

(* ThreadPool::run: while(running_); the consumers of a queue of its own    *)
(* just go on                                                               *)
Mutant_GoesOn == TRUE
GoesOn == bounded \/ running_

CallTake(c) ==
    /\ pc[c] = "out" /\ GoesOn
    /\ pc' = Moved(c, "locking", {})
    /\ UNCHANGED <<bounded, que_, running_, puts, late>>

LeaveRun(c) ==
    /\ pc[c] = "out" /\ ~GoesOn
    /\ pc' = Moved(c, "ended", {})
    /\ UNCHANGED <<bounded, que_, running_, puts, late>>

WaitNotEmpty(c) ==
    /\ c \in Testing(Consumers) /\ que_ = <<>>
    /\ pc' = Moved(c, "waiting", {})
    /\ UNCHANGED <<bounded, que_, running_, puts, late>>

(* the producers take() wakes: BlockingQueue has none to wake               *)
Mutant_WokenByTake == {{}}
WokenByTake == IF bounded THEN Signalled(At("waiting", Producers)) ELSE {{}}

Take(c) ==
    /\ c \in Testing(Consumers) /\ que_ # <<>>
    /\ que_' = Tail(que_)
    /\ late' = IF running_ THEN late ELSE [late EXCEPT ![c] = @ + 1]
    /\ \E woken \in WokenByTake : pc' = Moved(c, "task", woken)
    /\ UNCHANGED <<bounded, running_, puts>>

TaskReturns(c) ==
    /\ pc[c] = "task"
    /\ pc' = Moved(c, "out", {})
    /\ UNCHANGED <<bounded, que_, running_, puts, late>>

(* pthread_cond_wait() may return without a signal                          *)
SpuriousWakeup(t) ==
    /\ pc[t] = "waiting"
    /\ pc' = Moved(t, "woken", {})
    /\ UNCHANGED <<bounded, que_, running_, puts, late>>

(* ThreadPool::stop()                                                       *)
Stop ==
    /\ ~bounded /\ running_
    /\ running_' = FALSE
    /\ UNCHANGED <<bounded, que_, pc, puts, late>>

ProducerStep(p) == WaitNotFull(p) \/ Put(p)
ConsumerStep(c) ==
    CallTake(c) \/ LeaveRun(c) \/ WaitNotEmpty(c) \/ Take(c) \/ TaskReturns(c)

Next ==
    \/ \E p \in Producers : CallPut(p) \/ ProducerStep(p)
    \/ \E c \in Consumers : ConsumerStep(c)
    \/ \E t \in Threads : SpuriousWakeup(t)
    \/ Stop

Spec == Init /\ [][Next]_vars

(* Every thread that can run does; tasks return; producers need not put.    *)
Fairness ==
    /\ \A p \in Producers : WF_vars(ProducerStep(p))
    /\ \A c \in Consumers : WF_vars(ConsumerStep(c))

FairSpec == Spec /\ Fairness
-----------------------------------------------------------------------------
TypeOK ==
    /\ bounded \in BOOLEAN /\ running_ \in BOOLEAN
    /\ que_ \in Seq(Producers \X Nat)
    /\ pc \in [Threads -> {"out", "locking", "waiting", "woken", "task", "ended"}]
    /\ puts \in [Producers -> Nat] /\ late \in [Consumers -> Nat]

(* The bounded queue never holds more than capacity_ items, although other  *)
(* threads run between the signal and the return of wait().                 *)
WithinCapacity == bounded => Len(que_) <= capacity_

(* One notifyOne() per item is enough: while a consumer waits, there are at *)
(* least as many consumers about to test the queue as it has items.         *)
ItemsAreCovered ==
    At("waiting", Consumers) # {} => Len(que_) <= Cardinality(Testing(Consumers))

(* The same for the free places of the bounded queue and the producers.     *)
PlacesAreCovered ==
    At("waiting", Producers) # {} =>
        capacity_ <= Len(que_) + Cardinality(Testing(Producers))

(* stop() ends a pool after at most one more task per worker.               *)
StopsSoon == \A c \in Consumers : late[c] <= 1

(* Whatever is put is taken, unless the pool is stopped.                    *)
EveryItemTaken ==
    \A p \in Producers, n \in 0..(MaxPuts - 1) :
        (\E i \in DOMAIN que_ : que_[i] = <<p, n>>)
            ~> (~running_ \/ \A i \in DOMAIN que_ : que_[i] # <<p, n>>)
=============================================================================
