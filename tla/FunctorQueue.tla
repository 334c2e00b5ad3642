---------------------------- MODULE FunctorQueue ----------------------------
(***************************************************************************)
(* What EventLoop::runInLoop / pendInLoop promise to every other           *)
(* component: functors handed to a loop are executed by the loop's thread  *)
(* one after the other, each exactly once, in the order in which they were *)
(* pended.  EventLoop implements this specification (EventLoop!Refines);   *)
(* TcpConnection and TimerQueue are written on top of it.                  *)
(***************************************************************************)
EXTENDS Naturals, Sequences

VARIABLES queue,       \* functors pended and not yet started, oldest first
          started      \* functors started, in the order they were started

qvars == <<queue, started>>

Init == queue = <<>> /\ started = <<>>

(* the queue grows by one functor, at its end                              *)
Pend ==
    /\ Len(queue') = Len(queue) + 1
    /\ queue' = Append(queue, queue'[Len(queue) + 1])
    /\ UNCHANGED started

Start ==
    /\ queue # <<>>
    /\ started' = Append(started, Head(queue))
    /\ queue' = Tail(queue)

Next == Pend \/ Start

Spec == Init /\ [][Next]_qvars
=============================================================================
