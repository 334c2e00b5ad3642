----------------------------- MODULE EventLoop ------------------------------
(***************************************************************************)
(* net/EventLoop.{h,cpp}: the reactor loop of one thread, together with    *)
(* RunInLoopImpl, the mechanism by which other threads hand functors to    *)
(* it: a vector guarded by a mutex plus an eventfd in semaphore mode that  *)
(* wakes the loop out of poll(2).                                          *)
(*                                                                         *)
(* The threads of Threads and the loop's own thread (while it executes a   *)
(* callback) call pendInLoop() and quit().  runInLoop() is pendInLoop()    *)
(* for a thread of Threads; for the loop's thread it calls the functor     *)
(* inline, so its effects are those of the callback that called it.  The   *)
(* i-th functor pended is the number i.                                    *)
(***************************************************************************)
EXTENDS Naturals, Sequences

CONSTANTS Threads,      \* threads other than the loop's own
          LoopThread,   \* the thread with id tid_
          IoChannels,   \* FdChannels registered besides the eventfd's
          MaxPend       \* bound: no call is begun once this many functors
                        \* have been pended

ASSUME EventLoopAssumption ==
    /\ LoopThread \notin Threads
    /\ MaxPend \in Nat

Callers == Threads \cup {LoopThread}
Free == "free"                        \* mutex_ is held by nobody
Wakeup == "eventfd"                   \* eventfdChannelUPtr_
NoThreadIsFree == Free \notin Callers /\ Wakeup \notin IoChannels
ASSUME NamesAssumption == NoThreadIsFree

VARIABLES
    running_, exit_,
    eventfd_,          \* the semaphore counter inside the kernel
    pendingFuncs_,
    mutex_,
    loopPc,            \* where the loop's thread is
    activeFdChannels_, \* channels of this round still to be handled
    functions,         \* local of doPendingFunctors: functors still to call
    callPc,            \* per caller: inside quit() or pend(), or not
    ran,               \* history: the functors started, in order
    posted             \* history: number of push_backs

vars == <<running_, exit_, eventfd_, pendingFuncs_, mutex_, loopPc,
          activeFdChannels_, functions, callPc, ran, posted>>

flags == <<running_, exit_>>
wake == <<eventfd_, mutex_, callPc>>
functors == <<pendingFuncs_, functions, ran, posted>>

LoopPcs == {"idle", "while", "poll", "dispatch", "handler", "swap", "run",
            "functor", "read", "done", "crashed"}

Init ==
    /\ running_ = FALSE
    /\ exit_ = FALSE
    /\ eventfd_ = 0
    /\ pendingFuncs_ = <<>>
    /\ mutex_ = Free
    /\ loopPc = "idle"
    /\ activeFdChannels_ = {}
    /\ functions = <<>>
    /\ callPc = [t \in Callers |-> "none"]
    /\ ran = <<>>
    /\ posted = 0

-----------------------------------------------------------------------------
(* Calls made by any thread.  The loop's thread makes them from a callback *)
(* (or before StartLoop).                                                  *)

InUserCode(t) == t = LoopThread => loopPc \in {"idle", "handler", "functor"}

(* pend(): the lock is held over the push_back and the write of the eventfd *)
PendLocked(t) ==
    /\ InUserCode(t)
    /\ callPc[t] \in {"none", "quit"}
    /\ callPc[t] = "none" => posted < MaxPend
    /\ mutex_ = Free
    /\ mutex_' = t
    /\ posted' = posted + 1
    /\ pendingFuncs_' = Append(pendingFuncs_, posted + 1)
    /\ callPc' = [callPc EXCEPT ![t] = "write"]
    /\ UNCHANGED <<flags, eventfd_, loopPc, activeFdChannels_, functions, ran>>

writeEventfd == eventfd_' = eventfd_ + 1

PendWrite(t) ==
    /\ callPc[t] = "write"
    /\ writeEventfd
    /\ mutex_' = Free
    /\ callPc' = [callPc EXCEPT ![t] = "none"]
    /\ UNCHANGED <<flags, functors, loopPc, activeFdChannels_>>

(* what is left of quit() once exit_ is stored: the pend that wakes the loop *)
Mutant_AfterExitStored == "none"
AfterExitStored == "quit"

(* quit() stores exit_ and then pends an empty functor to wake the loop     *)
Quit(t) ==
    /\ InUserCode(t)
    /\ callPc[t] = "none"
    /\ posted < MaxPend
    /\ exit_' = TRUE
    /\ callPc' = [callPc EXCEPT ![t] = AfterExitStored]
    /\ UNCHANGED <<functors, running_, eventfd_, mutex_, loopPc, activeFdChannels_>>

-----------------------------------------------------------------------------
(* The loop's thread.                                                      *)

StartLoop ==
    /\ loopPc = "idle"
    /\ callPc[LoopThread] = "none"
    /\ ~running_
    /\ running_' = TRUE
    /\ loopPc' = "while"
    /\ UNCHANGED <<wake, functors, exit_, activeFdChannels_>>

While ==
    /\ loopPc = "while"
    /\ loopPc' = IF running_ /\ ~exit_ THEN "poll" ELSE "done"
    /\ UNCHANGED <<flags, wake, functors, activeFdChannels_>>

(* poll() with timeout -1: it sleeps until some registered fd is ready      *)
Mutant_Ready(io) == io \cup {Wakeup}
Ready(io) == io \cup (IF eventfd_ > 0 THEN {Wakeup} ELSE {})

Poll ==
    /\ loopPc = "poll"
    /\ \E io \in SUBSET IoChannels :
         /\ Ready(io) # {}
         /\ activeFdChannels_' = Ready(io)
    /\ loopPc' = "dispatch"
    /\ UNCHANGED <<flags, wake, functors>>

(* poll(2) fails with EINTR, which it does only while no fd is ready: the   *)
(* error is logged and no channel is active                                 *)
PollInterrupted ==
    /\ loopPc = "poll"
    /\ eventfd_ = 0
    /\ activeFdChannels_' = {}
    /\ loopPc' = "dispatch"
    /\ UNCHANGED <<flags, wake, functors>>

(* handleEvents of each active channel.  Poller reports them by index,      *)
(* Epoller in the kernel's order: any order is allowed here.                *)
HandleEvents(c) ==
    /\ loopPc = "dispatch"
    /\ c \in activeFdChannels_
    /\ activeFdChannels_' = activeFdChannels_ \ {c}
    /\ loopPc' = IF c = Wakeup THEN "swap" ELSE "handler"
    /\ UNCHANGED <<flags, wake, functors>>

EndOfRound ==
    /\ loopPc = "dispatch"
    /\ activeFdChannels_ = {}
    /\ loopPc' = "while"
    /\ UNCHANGED <<flags, wake, functors, activeFdChannels_>>

(* an I/O callback or a functor returns                                     *)
CallbackReturns ==
    /\ loopPc \in {"handler", "functor"}
    /\ callPc[LoopThread] = "none"
    /\ loopPc' = IF loopPc = "handler" THEN "dispatch" ELSE "run"
    /\ UNCHANGED <<flags, wake, functors, activeFdChannels_>>

(* doPendingFunctors(), in three parts: the swap of the vector with an      *)
(* empty local one, under the lock ...                                      *)
Mutant_LeftBySwap == pendingFuncs_
LeftBySwap == <<>>

(* the guard's scope ends before the first call                             *)
Mutant_LockAfterSwap == LoopThread
LockAfterSwap == Free

SwapFunctors ==
    /\ loopPc = "swap"
    /\ mutex_ = Free
    /\ functions' = pendingFuncs_
    /\ pendingFuncs_' = LeftBySwap
    /\ mutex_' = LockAfterSwap
    /\ loopPc' = "run"
    /\ UNCHANGED <<flags, eventfd_, callPc, activeFdChannels_, ran, posted>>

(* ... the calls, in order and without the lock ...                         *)
Mutant_NextFunctor == functions[Len(functions)]
NextFunctor == Head(functions)

RunFunctor ==
    /\ loopPc = "run"
    /\ functions # <<>>
    /\ ran' = Append(ran, NextFunctor)
    /\ functions' = Tail(functions)
    /\ loopPc' = "functor"
    /\ UNCHANGED <<flags, wake, pendingFuncs_, activeFdChannels_, posted>>

FunctorsDone ==
    /\ loopPc = "run"
    /\ functions = <<>>
    /\ loopPc' = "read"
    /\ UNCHANGED <<flags, wake, functors, activeFdChannels_>>

(* ... and one read, which takes one unit off a semaphore eventfd.  The     *)
(* eventfd is non-blocking: a read at zero fails with EAGAIN, and Read()    *)
(* ends the process for every negative result.                              *)
Mutant_AfterRead == 0
AfterRead == eventfd_ - 1

readEventfdOnce ==
    /\ loopPc = "read"
    /\ IF eventfd_ > 0
       THEN eventfd_' = AfterRead /\ loopPc' = "dispatch"
       ELSE eventfd_' = eventfd_ /\ loopPc' = "crashed"
    /\ UNCHANGED <<flags, functors, mutex_, activeFdChannels_, callPc>>

-----------------------------------------------------------------------------
Call(t) == PendLocked(t) \/ PendWrite(t) \/ Quit(t)

(* everything the loop's thread does except sleeping in poll()              *)
LoopStep ==
    \/ StartLoop \/ While
    \/ \E c \in activeFdChannels_ : HandleEvents(c)
    \/ EndOfRound \/ CallbackReturns
    \/ SwapFunctors \/ RunFunctor \/ FunctorsDone \/ readEventfdOnce

Next ==
    \/ \E t \in Callers : Call(t)
    \/ LoopStep
    \/ Poll \/ PollInterrupted

Spec == Init /\ [][Next]_vars

(* Callbacks return and the loop's thread is scheduled; a thread that has   *)
(* entered quit() or the critical section of pend() finishes the call.      *)
(* poll() must return only if the eventfd is readable: nothing obliges a    *)
(* peer to make another fd ready, or a signal to arrive.                    *)
FinishCall(t) == PendWrite(t) \/ (callPc[t] = "quit" /\ PendLocked(t))

FairSpec ==
    /\ Spec
    /\ WF_vars(LoopStep)
    /\ WF_vars(eventfd_ > 0 /\ Poll)
    /\ \A t \in Callers : WF_vars(FinishCall(t))

-----------------------------------------------------------------------------
TypeOK ==
    /\ running_ \in BOOLEAN /\ exit_ \in BOOLEAN
    /\ eventfd_ \in Nat /\ posted \in Nat
    /\ pendingFuncs_ \in Seq(Nat) /\ functions \in Seq(Nat) /\ ran \in Seq(Nat)
    /\ mutex_ \in Callers \cup {Free}
    /\ loopPc \in LoopPcs
    /\ activeFdChannels_ \subseteq IoChannels \cup {Wakeup}
    /\ callPc \in [Callers -> {"none", "quit", "write"}]

(* The lock is held by a thread between its push_back and its write of the  *)
(* eventfd and at no other time: not by a loop that runs the functors it    *)
(* swapped out, each of which may pend and would wait for its own thread.   *)
LockIsHeldOnlyInPend == \A t \in Callers : callPc[t] = "write" <=> mutex_ = t

(* The accounting that makes the wakeups work: the eventfd counts at least  *)
(* the queued functors (less the one whose pend() still holds the lock) and *)
(* one unit more for the round of doPendingFunctors that is under way, the  *)
(* unit its final read will take.                                           *)
InRound == loopPc \in {"run", "functor", "read"}

EventfdCovers ==
    /\ eventfd_ + (IF mutex_ = Free THEN 0 ELSE 1)
         >= Len(pendingFuncs_) + (IF InRound THEN 1 ELSE 0)
    /\ loopPc = "swap" => eventfd_ >= 1
    /\ Wakeup \in activeFdChannels_ =>
         eventfd_ >= 1 /\ loopPc \in {"dispatch", "handler"}
    /\ mutex_ # Free => pendingFuncs_ # <<>>

(* A loop asleep in poll() while functors wait in pendingFuncs_ always has  *)
(* a readable eventfd, although doPendingFunctors reads the eventfd only    *)
(* after it has run the functors and threads keep pending meanwhile.        *)
NoLostWakeup ==
    loopPc = "poll" /\ mutex_ = Free /\ pendingFuncs_ # <<>> => eventfd_ > 0

(* readEventfdOnce never meets an empty eventfd (it would end the process:  *)
(* Read() treats EAGAIN as fatal), however many rounds and pends overlap.   *)
EventfdReadSucceeds ==
    (loopPc = "read" => eventfd_ > 0) /\ loopPc # "crashed"

(* Functors run in the order in which they were pended, and each one that   *)
(* was pended has been started, is in the local batch, or is still queued,  *)
(* exactly once.                                                            *)
ExactlyOnceInOrder ==
    /\ posted = Len(ran) + Len(functions) + Len(pendingFuncs_)
    /\ \A i \in 1..Len(ran) : ran[i] = i
    /\ \A i \in 1..Len(functions) : functions[i] = Len(ran) + i
    /\ \A i \in 1..Len(pendingFuncs_) :
          pendingFuncs_[i] = Len(ran) + Len(functions) + i

(* Once exit_ is set no loop sleeps in poll() unless the thread in quit()   *)
(* has still to write the eventfd: quit() cannot leave the loop asleep.     *)
QuitWakesPoll ==
    loopPc = "poll" /\ exit_ =>
        eventfd_ > 0 \/ \E t \in Callers : callPc[t] \in {"quit", "write"}

(* RunInLoopImpl implements the queue the other components rely on.         *)
Queue == INSTANCE FunctorQueue
           WITH queue <- functions \o pendingFuncs_, started <- ran
Refines == Queue!Spec

(* Every pended functor is eventually started, unless the loop has ended.   *)
EveryFunctorRuns ==
    \A i \in 1..MaxPend : posted >= i ~> (Len(ran) >= i \/ loopPc = "done")

(* quit() ends the loop, whether it is called before StartLoop, from a      *)
(* callback, or by another thread at any moment of a round.                 *)
QuitEndsLoop == exit_ ~> loopPc = "done"
=============================================================================
