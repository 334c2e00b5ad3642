----------------------------- MODULE TimerQueue -----------------------------
(***************************************************************************)
(* net/TimerQueue.cpp, net/Timer.cpp, net/TimerId.h and the runAt/runEvery *)
(* of net/EventLoop.cpp: the timers of one loop, all served by a single    *)
(* timerfd.  Other threads add and cancel timers through the loop's        *)
(* functor queue; the loop's thread does it inline, from any callback, so  *)
(* also from the callback of a timer that has just expired.                *)
(*                                                                         *)
(* Time is counted in ticks, and MaxTime stands for every later time too,  *)
(* so that time never stops.  TimeStamp::now() never goes backwards here,  *)
(* and a timerfd asked for a moment that has passed fires one tick later   *)
(* (the code asks for at least 100 microseconds).                          *)
(***************************************************************************)
EXTENDS Integers, Sequences, FiniteSets, FiniteSetsExt

CONSTANTS Timers,      \* Timer objects; memory of a deleted one is used again
          Repeating,   \* those made by runEvery
          Interval,    \* intervalSecs_ of the repeating ones
          Cancellable, \* bound: the timers a caller may cancel
          MaxDelay,    \* bound: largest delaySecs
          MaxFunctors, \* bound: no functor is pended behind this many
          MaxTime      \* bound: the clock saturates here

ASSUME TimerQueueAssumption ==
    /\ Repeating \subseteq Timers /\ Cancellable \subseteq Timers
    /\ Interval \in Nat \ {0} /\ MaxDelay \in Nat
    /\ MaxFunctors \in Nat /\ MaxTime \in Nat

VARIABLES
    now,               \* TimeStamp::now()
    alive,             \* Timer objects that exist
    id_, timeExpiration_,          \* their members
    numTimersCreated,
    functors,          \* adds and cancels pended by other threads
    held,              \* timers whose creator is still inside runAt()
    timer_que_, activeTimers_, cancelingTimers_,
    alarm, readable,   \* timerfd_: armed for this time; it has fired
    active,            \* this round's poll has reported timerfd_
    expiredTimers,     \* handleTimeouts: the timers it has taken out ...
    toCall,            \* ... and those whose callbacks it still has to call
    status             \* "running", or what ended the process

vars == <<now, alive, id_, timeExpiration_, numTimersCreated, functors, held,
          timer_que_, activeTimers_, cancelingTimers_, alarm, readable,
          active, expiredTimers, toCall, status>>

objects == <<alive, id_, timeExpiration_, numTimersCreated, held>>
tables == <<timer_que_, activeTimers_>>
timerfd == <<alarm, readable>>
round == <<active, expiredTimers, toCall>>

Disarmed == -1
Add == "add"
Cancel == "cancel"

Init ==
    /\ now = 0
    /\ alive = {} /\ held = {}
    /\ id_ = [t \in Timers |-> 0]
    /\ timeExpiration_ = [t \in Timers |-> 0]
    /\ numTimersCreated = 0
    /\ functors = <<>>
    /\ timer_que_ = {} /\ activeTimers_ = {} /\ cancelingTimers_ = {}
    /\ alarm = Disarmed /\ readable = FALSE
    /\ active = FALSE
    /\ expiredTimers = {} /\ toCall = {}
    /\ status = "running"

Time(x) == IF x < MaxTime THEN x ELSE MaxTime
Ids(S) == {id_[t] : t \in S}
Earliest(S) == Min({timeExpiration_[t] : t \in S})
-----------------------------------------------------------------------------
(* EventLoop::runAt and runEvery construct the timer; runAt adds the delay  *)
(* to the time twice                                                        *)
ExpirationOf(when, delaySecs) == Time(Time(when + delaySecs) + delaySecs)

ConstructTimer(t, when, delaySecs) ==
    /\ t \notin alive
    /\ t \in Repeating => delaySecs = 0
    /\ alive' = alive \cup {t}
    /\ numTimersCreated' = numTimersCreated + 1
    /\ id_' = [id_ EXCEPT ![t] = numTimersCreated + 1]
    /\ timeExpiration_' = [timeExpiration_ EXCEPT ![t] = ExpirationOf(when, delaySecs)]

(* resetTimerfd: timerfd_settime(2) also takes back an expiration that has  *)
(* not been read yet                                                        *)
resetTimerfd(at) ==
    /\ alarm' = IF at > now THEN at ELSE Time(now + 1)
    /\ readable' = FALSE

(* insertTimer: is the new one the earliest?                                *)
Mutant_isTheEarliest(exp) == timer_que_ = {}
isTheEarliest(exp) == timer_que_ = {} \/ exp < Earliest(timer_que_)

(* the assert on both sizes, the only guard against an id used twice        *)
SameSize(ids, que) == Cardinality(ids) = Cardinality(que)

(* _addTimer(); id and exp are those of the timer t                         *)
_addTimer(t, id, exp) ==
    /\ timer_que_' = timer_que_ \cup {t}
    /\ activeTimers_' = activeTimers_ \cup {id}
    /\ status' = IF SameSize(activeTimers_', timer_que_') THEN status
                                                          ELSE "sizes_differ"
    /\ IF isTheEarliest(exp) THEN resetTimerfd(exp) ELSE UNCHANGED timerfd

(* runAt() or runEvery() by another thread: the thread keeps its own        *)
(* pointer to the timer until it returns                                    *)
RunAt(t, when, delaySecs) ==
    /\ ConstructTimer(t, when, delaySecs)
    /\ held' = held \cup {t}
    /\ Len(functors) < MaxFunctors
    /\ functors' = Append(functors, <<Add, t, numTimersCreated + 1>>)
    /\ UNCHANGED <<now, tables, cancelingTimers_, timerfd, round, status>>

RunAtReturns(t) ==
    /\ t \in held
    /\ held' = held \ {t}
    /\ UNCHANGED <<now, alive, id_, timeExpiration_, numTimersCreated, functors,
                   tables, cancelingTimers_, timerfd, round, status>>

(* the same by the loop's thread, inline                                    *)
RunAtInLoop(t, when, delaySecs) ==
    /\ ConstructTimer(t, when, delaySecs)
    /\ _addTimer(t, id_'[t], timeExpiration_'[t])
    /\ UNCHANGED <<now, held, functors, cancelingTimers_, round>>

(* _cancelTimer() only remembers the id; reset() looks it up                *)
_cancelTimer(id) ==
    /\ cancelingTimers_' = cancelingTimers_ \cup {id}
    /\ status' = IF id \in cancelingTimers_ THEN "cancelled_twice" ELSE status
    /\ UNCHANGED <<tables, timerfd>>

(* cancelTimer() of a timer in use, by another thread or by the loop's own  *)
cancelTimer(t, inLoop) ==
    /\ t \in Cancellable \cap alive
    /\ IF inLoop
       THEN _cancelTimer(id_[t]) /\ UNCHANGED functors
       ELSE /\ Len(functors) < MaxFunctors
            /\ functors' = Append(functors, <<Cancel, t, id_[t]>>)
            /\ UNCHANGED <<tables, timerfd, cancelingTimers_, status>>
    /\ UNCHANGED <<now, objects, round>>

(* the loop runs a pended functor; it does so outside handleTimeouts        *)
RunFunctor ==
    /\ expiredTimers = {}
    /\ functors # <<>>
    /\ functors' = Tail(functors)
    /\ LET kind == Head(functors)[1]
           t == Head(functors)[2]
           id == Head(functors)[3]
       IN  \/ /\ kind = Add
              /\ _addTimer(t, id, timeExpiration_[t])
              /\ UNCHANGED cancelingTimers_
           \/ /\ kind = Cancel
              /\ _cancelTimer(id)
    /\ UNCHANGED <<now, objects, round>>

Poll ==
    /\ ~active /\ readable
    /\ expiredTimers = {}
    /\ active' = TRUE
    /\ UNCHANGED <<now, objects, functors, tables, cancelingTimers_, timerfd,
                   expiredTimers, toCall, status>>

(* getExpired: what it takes out of the queue, and of the set of ids        *)
Due == {t \in timer_que_ : timeExpiration_[t] <= now}
IdsLeft == activeTimers_ \ Ids(Due)

(* handleTimeouts, first part: handleRead and getExpired.  The read of a    *)
(* timerfd that has not fired fails with EAGAIN, and Read() ends the        *)
(* process.  With nothing expired reset() returns at once.                  *)
HandleTimeouts ==
    /\ active
    /\ active' = FALSE
    /\ IF readable
       THEN /\ readable' = FALSE
            /\ timer_que_' = timer_que_ \ Due
            /\ activeTimers_' = IdsLeft
            /\ expiredTimers' = Due /\ toCall' = Due
            /\ status' = IF SameSize(IdsLeft, timer_que_ \ Due) THEN status
                                                                ELSE "sizes_differ"
       ELSE status' = "EAGAIN"
            /\ UNCHANGED <<readable, tables, expiredTimers, toCall>>
    /\ UNCHANGED <<now, objects, functors, cancelingTimers_, alarm>>

(* OnExpiration of each, earliest first; what the callback does are other   *)
(* actions                                                                  *)
OnExpiration(t) ==
    /\ t \in toCall
    /\ timeExpiration_[t] = Earliest(toCall)
    /\ toCall' = toCall \ {t}
    /\ UNCHANGED <<now, objects, functors, tables, cancelingTimers_, timerfd,
                   active, expiredTimers, status>>

(* after reset() the timerfd is armed for the earliest timer, if there is   *)
(* one                                                                      *)
Mutant_Rearm(que, exp) == UNCHANGED timerfd
Rearm(que, exp) ==
    IF que # {} THEN resetTimerfd(Min({exp[t] : t \in que}))
                ELSE UNCHANGED timerfd

(* reset(): the repeating timers that are not cancelled go back into the    *)
(* queue, the others are deleted, which decrements the counter the ids come *)
(* from (their members, which nobody reads again, are zeroed)               *)
Reset ==
    LET again == {t \in expiredTimers : t \in Repeating /\ id_[t] \notin cancelingTimers_}
        freelist == expiredTimers \ again
        ids == activeTimers_ \cup Ids(again)
        que == timer_que_ \cup again
        exp == [t \in Timers |-> IF t \in again THEN Time(now + Interval)
                                 ELSE timeExpiration_[t]]
        cleared(f) == [t \in Timers |-> IF t \in freelist THEN 0 ELSE f[t]]
    IN  /\ expiredTimers # {} /\ toCall = {}
        /\ expiredTimers' = {}
        /\ timer_que_' = que /\ activeTimers_' = ids
        /\ alive' = alive \ freelist
        /\ timeExpiration_' = cleared(exp)
        /\ id_' = cleared(id_)
        /\ numTimersCreated' = numTimersCreated - Cardinality(freelist)
        /\ status' = CASE freelist \cap held # {} -> "has_owners"
                       [] ~SameSize(ids, que) -> "sizes_differ"
                       [] OTHER -> status
        /\ Rearm(que, exp)
        /\ UNCHANGED <<now, held, functors, cancelingTimers_, active, toCall>>

Tick ==
    /\ now' = Time(now + 1)
    /\ LET fires == alarm # Disarmed /\ alarm <= now'
       IN  /\ readable' = (readable \/ fires)
           /\ alarm' = IF fires THEN Disarmed ELSE alarm
    /\ UNCHANGED <<objects, functors, tables, cancelingTimers_, round, status>>

LoopStep == RunFunctor \/ Poll \/ HandleTimeouts
            \/ (\E t \in toCall : OnExpiration(t)) \/ Reset

Next ==
    /\ status = "running"
    /\ \/ \E t \in Timers, when \in 0..MaxTime, delaySecs \in 0..MaxDelay :
            RunAt(t, when, delaySecs) \/ RunAtInLoop(t, when, delaySecs)
       \/ \E t \in Timers : RunAtReturns(t)
       \/ \E t \in Timers, inLoop \in BOOLEAN : cancelTimer(t, inLoop)
       \/ LoopStep
       \/ Tick

Spec == Init /\ [][Next]_vars

(* the loop's thread is scheduled, its callbacks return, time passes        *)
FairSpec ==
    /\ Spec
    /\ WF_vars(status = "running" /\ LoopStep)
    /\ WF_vars(status = "running" /\ Tick)
-----------------------------------------------------------------------------
(* "the timerfd is notified by the time next Timer expires": outside        *)
(* handleTimeouts, if a timer waits then the timerfd has fired or is armed  *)
(* for no later than the earliest of them (or the next tick).               *)
ArmedForEarliest ==
    status = "running" /\ timer_que_ # {} /\ expiredTimers = {} =>
        \/ readable
        \/ /\ alarm # Disarmed
           /\ alarm <= Max({Earliest(timer_que_), Time(now + 1)})

(* Every timer in the queue expires, unless the process ends.               *)
EveryTimerExpires ==
    \A t \in Timers :
        t \in timer_que_ ~> t \in expiredTimers \/ status # "running"

(* The asserts that compare the sizes of the heap and of the set of ids     *)
(* never fail.                                                              *)
SizesAgree == status # "sizes_differ"
=============================================================================
