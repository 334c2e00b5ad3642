-------------------------- MODULE TimerQueueProofs --------------------------
(***************************************************************************)
(* Proofs about TimerQueue for any set of timers, any intervals and any    *)
(* delays: the one timerfd is never armed too late for the timers that     *)
(* wait.                                                                   *)
(***************************************************************************)
EXTENDS TimerQueue, FiniteSetTheorems, SequenceTheorems, WellFoundedInduction, TLAPS

Functor == {Add, Cancel} \X Timers \X Int
Statuses == {"running", "sizes_differ", "cancelled_twice", "EAGAIN", "has_owners"}

TypeOK ==
    /\ now \in 0..MaxTime
    /\ alive \in SUBSET Timers /\ IsFiniteSet(alive)
    /\ id_ \in [Timers -> Int] /\ numTimersCreated \in Int
    /\ timeExpiration_ \in [Timers -> 0..MaxTime]
    /\ functors \in Seq(Functor)
    /\ timer_que_ \subseteq Timers
    /\ alarm \in {Disarmed} \union 0..MaxTime
    /\ readable \in BOOLEAN /\ active \in BOOLEAN
    /\ toCall \subseteq expiredTimers
    /\ status \in Statuses

(* A timer is in one place: in a pended functor, in the queue, or taken out *)
(* by handleTimeouts.  It is alive there, so its memory is not used again.  *)
Adds(i) == i \in 1..Len(functors) /\ functors[i][1] = Add

Places ==
    /\ timer_que_ \subseteq alive /\ expiredTimers \subseteq alive
    /\ timer_que_ \cap expiredTimers = {}
    /\ active => expiredTimers = {}
    /\ \A i : Adds(i) => functors[i][2] \in alive \ (timer_que_ \union expiredTimers)
    /\ \A i, j : Adds(i) /\ Adds(j) /\ functors[i][2] = functors[j][2] => i = j

(* The timerfd fires for a timer that is due, is armed for no earlier time  *)
(* than some timer's, and, but while the expired timers are called, has     *)
(* fired or is armed for the next tick or for no later than any timer's.    *)
SomeDueBy(time) == \E t \in timer_que_ : timeExpiration_[t] <= time
InTime == alarm <= Time(now + 1) \/ \A t \in timer_que_ : alarm <= timeExpiration_[t]

AlarmInv ==
    /\ readable => alarm = Disarmed
    /\ readable /\ timer_que_ # {} => SomeDueBy(now)
    /\ alarm # Disarmed /\ timer_que_ # {} => SomeDueBy(alarm)
    /\ timer_que_ # {} /\ expiredTimers = {} => readable \/ (alarm # Disarmed /\ InTime)

IInv == TypeOK /\ Places /\ AlarmInv
-----------------------------------------------------------------------------
(* A set of times has a smallest one: among the finite sets of the times    *)
(* before each of them one is minimal, and it is empty.                     *)
LEMMA SmallestExists ==
    ASSUME NEW S \in SUBSET (0..MaxTime), S # {}
    PROVE  \E n \in S : \A m \in S : n <= m
<1> DEFINE Before(n) == {m \in S : m < n}
           All == {Before(n) : n \in S}
<1>1. IsFiniteSet(S) /\ S \subseteq Int
  <2>1. MaxTime \in Int /\ 0 \in Int
    BY TimerQueueAssumption
  <2>2. IsFiniteSet(0..MaxTime)
    BY <2>1, FS_Interval
  <2>3. IsFiniteSet(S)
    BY <2>2, FS_Subset
  <2> QED BY <2>3
<1>2. IsWellFoundedOn(StrictSubsetOrdering(S), SUBSET S)
  BY <1>1, FS_FiniteSubsetsOfFinite, FS_StrictSubsetOrderingWellFounded
<1>3. All \subseteq SUBSET S /\ All # {}
  OBVIOUS
<1>4. PICK A \in All : \A B \in All : <<B, A>> \notin StrictSubsetOrdering(S)
  <2> HIDE DEF All
  <2> QED BY <1>2, <1>3, WFMin
<1>5. PICK n \in S : A = Before(n)
  OBVIOUS
<1>6. ASSUME NEW m \in S, m < n PROVE FALSE
  <2>1. Before(m) \subseteq Before(n) /\ m \in Before(n) /\ m \notin Before(m)
    <3>1. m \in Int /\ n \in Int /\ \A k \in S : k \in Int
      BY <1>1
    <3>2. \A k \in S : k < m => k < n
      BY <1>6, <3>1
    <3>3. ~(m < m)
      BY <3>1
    <3> QED BY <1>6, <3>2, <3>3
  <2>2. <<Before(m), A>> \in StrictSubsetOrdering(S)
    BY <1>5, <2>1 DEF StrictSubsetOrdering
  <2> QED BY <1>4, <2>2
<1> QED BY <1>1, <1>6

(* What Earliest means for the timers of a set.                             *)
LEMMA MinIsEarliest ==
    ASSUME NEW f \in [Timers -> 0..MaxTime], NEW S \in SUBSET Timers, S # {}
    PROVE  /\ \E t \in S : f[t] = Min({f[u] : u \in S})
           /\ \A t \in S : Min({f[u] : u \in S}) <= f[t]
<1> DEFINE T == {f[u] : u \in S}
<1>1. T \in SUBSET (0..MaxTime) /\ T # {}
  OBVIOUS
<1>2. \E n \in T : \A m \in T : n <= m
  <2> HIDE DEF T
  <2> QED BY <1>1, SmallestExists
<1>3. Min(T) \in T /\ \A m \in T : Min(T) <= m
  BY <1>2 DEF Min
<1> QED BY <1>3

LEMMA TimeType ==
    ASSUME NEW x \in Nat
    PROVE  Time(x) \in 0..MaxTime /\ Time(x) <= x /\ (x <= MaxTime => Time(x) = x)
BY TimerQueueAssumption DEF Time

(* insertTimer sees whether every timer that waits is later.                *)
LEMMA EarliestIsEarlier ==
    ASSUME TypeOK, NEW exp \in 0..MaxTime
    PROVE  isTheEarliest(exp) <=> \A t \in timer_que_ : exp < timeExpiration_[t]
<1>1. CASE timer_que_ = {}
  BY <1>1 DEF isTheEarliest
<1>2. CASE timer_que_ # {}
  <2> DEFINE m == Earliest(timer_que_)
  <2>1. /\ \E t \in timer_que_ : timeExpiration_[t] = m
        /\ \A t \in timer_que_ : m <= timeExpiration_[t]
    BY <1>2, MinIsEarliest DEF TypeOK, Earliest
  <2>2. \A t \in timer_que_ : timeExpiration_[t] \in Int
    BY TimerQueueAssumption DEF TypeOK
  <2>3. m \in Int /\ exp \in Int
    BY <2>1, <2>2, TimerQueueAssumption
  <2>4. isTheEarliest(exp) <=> exp < m
    BY <1>2 DEF isTheEarliest
  <2> HIDE DEF m
  <2> QED BY <2>1, <2>2, <2>3, <2>4
<1> QED BY <1>1, <1>2

(* The alarm that resetTimerfd sets.                                        *)
LEMMA AlarmIsSet ==
    ASSUME TypeOK, NEW at \in 0..MaxTime, resetTimerfd(at)
    PROVE  /\ ~readable' /\ readable' = FALSE /\ alarm' \in 0..MaxTime /\ alarm' # Disarmed
           /\ at <= alarm' /\ (alarm' <= Time(now + 1) \/ alarm' <= at)
<1>1. now \in Nat /\ now <= MaxTime /\ MaxTime \in Nat
  BY TimerQueueAssumption DEF TypeOK
<1>2. Time(now + 1) \in 0..MaxTime /\ now <= Time(now + 1)
  BY <1>1, TimeType DEF Time
<1>3. readable' = FALSE /\ alarm' = IF at > now THEN at ELSE Time(now + 1)
  BY DEF resetTimerfd
<1> QED BY <1>1, <1>2, <1>3 DEF Disarmed

(* A timer goes into the queue: the alarm stays in time.                    *)
LEMMA AddKeepsAlarm ==
    ASSUME TypeOK, AlarmInv, NEW t \in Timers \ timer_que_,
           timer_que_' = timer_que_ \union {t},
           timeExpiration_' \in [Timers -> 0..MaxTime],
           \A u \in timer_que_ : timeExpiration_'[u] = timeExpiration_[u],
           IF isTheEarliest(timeExpiration_'[t]) THEN resetTimerfd(timeExpiration_'[t])
                                                 ELSE UNCHANGED timerfd,
           UNCHANGED <<now, expiredTimers>>
    PROVE  AlarmInv' /\ alarm' \in {Disarmed} \union 0..MaxTime /\ readable' \in BOOLEAN
<1> DEFINE exp == timeExpiration_'[t]
<1>1. exp \in 0..MaxTime
  OBVIOUS
<1>2. CASE isTheEarliest(exp)
  <2>1. /\ readable' = FALSE /\ alarm' \in 0..MaxTime /\ alarm' # Disarmed
        /\ exp <= alarm' /\ (alarm' <= Time(now + 1) \/ alarm' <= exp)
    BY <1>1, <1>2, AlarmIsSet
  <2>2. \A u \in timer_que_' : exp <= timeExpiration_'[u]
    BY <1>1, <1>2, EarliestIsEarlier, TimerQueueAssumption DEF TypeOK
  <2>3. SomeDueBy(alarm)'
    BY <2>1 DEF SomeDueBy
  <2>4. InTime'
    <3>1. CASE alarm' <= Time(now + 1)
      BY <3>1 DEF InTime, Time
    <3>2. CASE alarm' <= exp
      <4>1. \A u \in timer_que_' : alarm' <= timeExpiration_'[u]
        <5>1. \A u \in timer_que_' : timeExpiration_'[u] \in Int
          BY TimerQueueAssumption DEF TypeOK
        <5> HIDE DEF exp
        <5> QED BY <1>1, <2>1, <2>2, <3>2, <5>1, TimerQueueAssumption
      <4> QED BY <4>1 DEF InTime
    <3> QED BY <2>1, <3>1, <3>2
  <2> QED BY <2>1, <2>3, <2>4 DEF AlarmInv
<1>3. CASE ~isTheEarliest(exp)
  <2>1. alarm' = alarm /\ readable' = readable
    BY <1>3 DEF timerfd
  <2>2. PICK u \in timer_que_ : timeExpiration_[u] <= exp
    BY <1>1, <1>3, EarliestIsEarlier, TimerQueueAssumption DEF TypeOK
  <2>3. \A w \in timer_que_ : w \in timer_que_' /\ timeExpiration_'[w] = timeExpiration_[w]
    OBVIOUS
  <2>4. \A time : SomeDueBy(time) => SomeDueBy(time)'
    BY <2>3 DEF SomeDueBy
  <2>5. (readable => SomeDueBy(now)) /\ (alarm # Disarmed => SomeDueBy(alarm))
    BY <2>2 DEF AlarmInv
  <2>6. (readable' => SomeDueBy(now)') /\ (alarm' # Disarmed => SomeDueBy(alarm)')
    BY <2>1, <2>3, <2>5 DEF SomeDueBy
  <2>7. expiredTimers = {} => readable \/ (alarm # Disarmed /\ InTime)
    BY <2>2 DEF AlarmInv
  <2>8. InTime => InTime'
    <3>1. ASSUME \A w \in timer_que_ : alarm <= timeExpiration_[w] PROVE alarm <= exp
      <4>1. alarm \in Int /\ timeExpiration_[u] \in Int /\ exp \in Int
        BY <1>1, TimerQueueAssumption DEF TypeOK, Disarmed
      <4> HIDE DEF exp
      <4> QED BY <2>2, <3>1, <4>1
    <3> QED BY <2>1, <2>3, <3>1 DEF InTime, Time
  <2> QED BY <2>1, <2>6, <2>7, <2>8 DEF AlarmInv, TypeOK
<1> QED BY <1>2, <1>3

LEMMA AlarmSame ==
    ASSUME TypeOK, AlarmInv, UNCHANGED <<now, timer_que_, alarm, readable, expiredTimers>>,
           \A t \in timer_que_ : timeExpiration_'[t] = timeExpiration_[t]
    PROVE  AlarmInv'
<1>1. \A time : SomeDueBy(time)' <=> SomeDueBy(time)
  BY DEF SomeDueBy
<1>2. SomeDueBy(now)' = SomeDueBy(now) /\ SomeDueBy(alarm)' = SomeDueBy(alarm)
  BY DEF SomeDueBy
<1>3. InTime' <=> InTime
  BY DEF InTime, Time
<1> QED BY <1>2, <1>3 DEF AlarmInv

(* runAt and runEvery make a timer that is nowhere.                         *)
LEMMA Constructed ==
    ASSUME TypeOK, Places, NEW t \in Timers, NEW when \in Nat, NEW delaySecs \in Nat,
           ConstructTimer(t, when, delaySecs)
    PROVE  /\ t \notin alive /\ t \notin timer_que_ /\ t \notin expiredTimers
           /\ \A i : Adds(i) => functors[i][2] # t
           /\ alive' = alive \union {t} /\ alive' \in SUBSET Timers /\ IsFiniteSet(alive')
           /\ id_' \in [Timers -> Int] /\ numTimersCreated' \in Int
           /\ id_'[t] = numTimersCreated + 1 /\ numTimersCreated + 1 \in Int
           /\ timeExpiration_' \in [Timers -> 0..MaxTime]
           /\ \A u \in Timers \ {t} : timeExpiration_'[u] = timeExpiration_[u]
<1>1. /\ t \notin alive /\ alive' = alive \union {t}
      /\ numTimersCreated' = numTimersCreated + 1
      /\ id_' = [id_ EXCEPT ![t] = numTimersCreated + 1]
      /\ timeExpiration_' = [timeExpiration_ EXCEPT ![t] = ExpirationOf(when, delaySecs)]
  BY DEF ConstructTimer
<1>2. ExpirationOf(when, delaySecs) \in 0..MaxTime
  <2>1. Time(when + delaySecs) \in Nat
    BY TimeType, TimerQueueAssumption
  <2> QED BY <2>1, TimeType DEF ExpirationOf
<1>3. IsFiniteSet(alive')
  BY <1>1, FS_AddElement DEF TypeOK
<1> QED BY <1>1, <1>2, <1>3 DEF TypeOK, Places

(* A functor is pended behind the others.                                   *)
LEMMA Pended ==
    ASSUME TypeOK, NEW f \in Functor, functors' = Append(functors, f)
    PROVE  /\ functors' \in Seq(Functor) /\ Len(functors) \in Nat
           /\ \A i : Adds(i)' <=> Adds(i) \/ (i = Len(functors) + 1 /\ f[1] = Add)
           /\ \A i : Adds(i) => functors'[i] = functors[i] /\ i # Len(functors) + 1
           /\ functors'[Len(functors) + 1] = f
<1>1. functors \in Seq(Functor) /\ Len(functors) \in Nat
  BY LenProperties DEF TypeOK
<1>2. /\ functors' \in Seq(Functor) /\ Len(functors') = Len(functors) + 1
      /\ \A i \in 1..Len(functors) : functors'[i] = functors[i]
      /\ functors'[Len(functors) + 1] = f
  BY <1>1, AppendProperties
<1>3. \A i : i \in 1..Len(functors') <=> i \in 1..Len(functors) \/ i = Len(functors) + 1
  BY <1>1, <1>2
<1>4. \A i \in 1..Len(functors) : i # Len(functors) + 1
  BY <1>1
<1>5. Len(functors) + 1 \in 1..Len(functors')
  BY <1>1, <1>2
<1> QED BY <1>1, <1>2, <1>3, <1>4, <1>5 DEF Adds

(* The functor at the front is taken out and run.                           *)
LEMMA Taken ==
    ASSUME TypeOK, functors # <<>>, functors' = Tail(functors)
    PROVE  /\ functors' \in Seq(Functor) /\ Head(functors) \in Functor
           /\ Head(functors) = functors[1] /\ (Head(functors)[1] = Add => Adds(1))
           /\ \A i : Adds(i)' => Adds(i + 1) /\ functors'[i] = functors[i + 1] /\ i \in Int /\ i + 1 # 1
<1>1. functors \in Seq(Functor) /\ Len(functors) \in Nat \ {0}
  BY LenProperties, EmptySeq DEF TypeOK
<1>2. /\ functors' \in Seq(Functor) /\ Len(functors') = Len(functors) - 1
      /\ \A i \in 1..Len(functors') : functors'[i] = functors[i + 1]
  BY <1>1, HeadTailProperties
<1>3. Head(functors) = functors[1] /\ 1 \in 1..Len(functors) /\ functors[1] \in Functor
  BY <1>1, ElementOfSeq
<1>4. \A i \in 1..Len(functors') : i + 1 \in 1..Len(functors) /\ i \in Int /\ i + 1 # 1
  BY <1>1, <1>2
<1> QED BY <1>2, <1>3, <1>4 DEF Adds
-----------------------------------------------------------------------------
LEMMA InitInv == Init => IInv
<1> SUFFICES ASSUME Init PROVE IInv
  OBVIOUS
<1>1. TypeOK
  <2>1. IsFiniteSet({}) /\ <<>> \in Seq(Functor) /\ 0 \in 0..MaxTime
    BY FS_EmptySet, TimerQueueAssumption
  <2>2. id_ \in [Timers -> Int] /\ timeExpiration_ \in [Timers -> 0..MaxTime]
    BY <2>1 DEF Init
  <2>3. alive = {} /\ timer_que_ = {} /\ functors = <<>> /\ now = 0 /\ numTimersCreated = 0
    BY DEF Init
  <2>4. alarm \in {Disarmed} /\ toCall = {} /\ status \in Statuses
    BY DEF Init, Statuses
  <2>5. readable \in BOOLEAN /\ active \in BOOLEAN
    BY DEF Init
  <2>6. now \in 0..MaxTime /\ IsFiniteSet(alive) /\ functors \in Seq(Functor) /\ alive \in SUBSET Timers
    BY <2>1, <2>3
  <2> QED BY <2>2, <2>3, <2>4, <2>5, <2>6 DEF TypeOK
<1>2. Places
  BY DEF Init, Places, Adds
<1>3. AlarmInv
  BY DEF Init, AlarmInv
<1> QED BY <1>1, <1>2, <1>3 DEF IInv

LEMMA RunAtInv ==
    ASSUME IInv, NEW t \in Timers, NEW when \in Nat, NEW delaySecs \in Nat,
           RunAt(t, when, delaySecs)
    PROVE  IInv'
<1> DEFINE f == <<Add, t, numTimersCreated + 1>>
<1>1. /\ TypeOK /\ Places /\ AlarmInv /\ ConstructTimer(t, when, delaySecs)
      /\ functors' = Append(functors, f)
      /\ UNCHANGED <<now, timer_que_, activeTimers_, cancelingTimers_, alarm, readable, active,
                     expiredTimers, toCall, status>>
  BY DEF IInv, RunAt, tables, timerfd, round
<1>2. /\ t \notin alive /\ t \notin timer_que_ /\ t \notin expiredTimers
      /\ \A i : Adds(i) => functors[i][2] # t
      /\ alive' = alive \union {t} /\ alive' \in SUBSET Timers /\ IsFiniteSet(alive')
      /\ id_' \in [Timers -> Int] /\ numTimersCreated' \in Int
      /\ id_'[t] = numTimersCreated + 1 /\ numTimersCreated + 1 \in Int
      /\ timeExpiration_' \in [Timers -> 0..MaxTime]
      /\ \A u \in Timers \ {t} : timeExpiration_'[u] = timeExpiration_[u]
  BY ONLY <1>1, Constructed, t \in Timers, when \in Nat, delaySecs \in Nat
<1>3. f \in Functor /\ f[1] = Add /\ f[2] = t
  BY <1>2 DEF Functor
<1> HIDE DEF f
<1>4. /\ functors' \in Seq(Functor) /\ Len(functors) \in Nat
      /\ \A i : Adds(i)' <=> Adds(i) \/ (i = Len(functors) + 1 /\ f[1] = Add)
      /\ \A i : Adds(i) => functors'[i] = functors[i] /\ i # Len(functors) + 1
      /\ functors'[Len(functors) + 1] = f
  BY ONLY <1>1, <1>3, Pended
<1>5. TypeOK'
  BY <1>1, <1>2, <1>4 DEF TypeOK
<1>6. Places'
  <2>1. \A i : Adds(i)' => functors'[i][2] \in alive' \ (timer_que_' \union expiredTimers')
    BY <1>1, <1>2, <1>3, <1>4 DEF Places
  <2>2. ASSUME NEW i, NEW j, Adds(i)', Adds(j)', functors'[i][2] = functors'[j][2]
        PROVE  i = j
    <3>1. CASE Adds(i) /\ Adds(j)
      BY <1>1, <1>4, <2>2, <3>1 DEF Places
    <3>2. CASE ~Adds(i) \/ ~Adds(j)
      BY <1>2, <1>3, <1>4, <2>2, <3>2
    <3> QED BY <3>1, <3>2
  <2> QED BY <1>1, <1>2, <2>1, <2>2 DEF Places
<1>7. AlarmInv'
  <2>1. \A u \in timer_que_ : timeExpiration_'[u] = timeExpiration_[u]
    BY <1>1, <1>2 DEF TypeOK
  <2> QED BY <1>1, <2>1, AlarmSame
<1> QED BY <1>5, <1>6, <1>7 DEF IInv

LEMMA RunAtInLoopInv ==
    ASSUME IInv, status = "running", NEW t \in Timers, NEW when \in Nat, NEW delaySecs \in Nat,
           RunAtInLoop(t, when, delaySecs)
    PROVE  IInv'
<1>1. /\ TypeOK /\ Places /\ AlarmInv /\ ConstructTimer(t, when, delaySecs)
      /\ timer_que_' = timer_que_ \union {t}
      /\ IF isTheEarliest(timeExpiration_'[t]) THEN resetTimerfd(timeExpiration_'[t])
                                               ELSE UNCHANGED timerfd
      /\ status' \in Statuses
      /\ UNCHANGED <<now, functors, active, expiredTimers, toCall>>
  BY DEF IInv, RunAtInLoop, _addTimer, round, Statuses
<1>2. /\ t \notin alive /\ t \notin timer_que_ /\ t \notin expiredTimers
      /\ \A i : Adds(i) => functors[i][2] # t
      /\ alive' = alive \union {t} /\ alive' \in SUBSET Timers /\ IsFiniteSet(alive')
      /\ id_' \in [Timers -> Int] /\ numTimersCreated' \in Int
      /\ timeExpiration_' \in [Timers -> 0..MaxTime]
      /\ \A u \in Timers \ {t} : timeExpiration_'[u] = timeExpiration_[u]
  BY ONLY <1>1, Constructed, t \in Timers, when \in Nat, delaySecs \in Nat
<1>3. AlarmInv' /\ alarm' \in {Disarmed} \union 0..MaxTime /\ readable' \in BOOLEAN
  <2>1. \A u \in timer_que_ : timeExpiration_'[u] = timeExpiration_[u]
    BY <1>1, <1>2 DEF TypeOK
  <2> QED BY <1>1, <1>2, <2>1, AddKeepsAlarm
<1>4. TypeOK'
  BY <1>1, <1>2, <1>3 DEF TypeOK
<1>5. Places'
  BY <1>1, <1>2 DEF Places, Adds
<1> QED BY <1>3, <1>4, <1>5 DEF IInv

LEMMA CancelTimerInv ==
    ASSUME IInv, NEW t \in Timers, NEW inLoop \in BOOLEAN, cancelTimer(t, inLoop)
    PROVE  IInv'
<1>1. /\ TypeOK /\ Places /\ AlarmInv /\ status' \in Statuses
      /\ UNCHANGED <<now, alive, id_, timeExpiration_, numTimersCreated, held, timer_que_,
                     alarm, readable, active, expiredTimers, toCall>>
      /\ UNCHANGED functors \/ functors' = Append(functors, <<Cancel, t, id_[t]>>)
  BY DEF IInv, TypeOK, cancelTimer, _cancelTimer, objects, tables, timerfd, round, Statuses
<1>2. functors' \in Seq(Functor) /\ \A i : Adds(i)' => Adds(i) /\ functors'[i] = functors[i]
  <2>1. CASE UNCHANGED functors
    BY <1>1, <2>1 DEF TypeOK, Adds
  <2>2. CASE functors' = Append(functors, <<Cancel, t, id_[t]>>)
    <3> DEFINE f == <<Cancel, t, id_[t]>>
    <3>1. f \in Functor /\ f[1] # Add
      BY <1>1 DEF Functor, TypeOK, Add, Cancel
    <3> HIDE DEF f
    <3>2. functors' = Append(functors, f)
      BY <2>2 DEF f
    <3>3. /\ functors' \in Seq(Functor)
          /\ \A i : Adds(i)' <=> Adds(i) \/ (i = Len(functors) + 1 /\ f[1] = Add)
          /\ \A i : Adds(i) => functors'[i] = functors[i] /\ i # Len(functors) + 1
      BY ONLY <1>1, <3>1, <3>2, Pended
    <3> QED BY <3>1, <3>3
  <2> QED BY <1>1, <2>1, <2>2
<1>3. TypeOK'
  BY <1>1, <1>2 DEF TypeOK
<1>4. Places'
  BY <1>1, <1>2 DEF Places
<1>5. AlarmInv'
  BY <1>1, AlarmSame
<1> QED BY <1>3, <1>4, <1>5 DEF IInv

LEMMA RunFunctorInv ==
    ASSUME IInv, status = "running", RunFunctor
    PROVE  IInv'
<1> DEFINE t == Head(functors)[2]
           id == Head(functors)[3]
<1>1. /\ TypeOK /\ Places /\ AlarmInv /\ functors # <<>> /\ functors' = Tail(functors)
      /\ UNCHANGED <<now, alive, id_, timeExpiration_, numTimersCreated, held,
                     active, expiredTimers, toCall>>
  BY DEF IInv, RunFunctor, objects, round
<1>2. /\ functors' \in Seq(Functor) /\ Head(functors) \in Functor
      /\ Head(functors) = functors[1] /\ (Head(functors)[1] = Add => Adds(1))
      /\ \A i : Adds(i)' => Adds(i + 1) /\ functors'[i] = functors[i + 1] /\ i \in Int /\ i + 1 # 1
  BY ONLY <1>1, Taken
<1>3. t \in Timers
  BY <1>2 DEF Functor
<1>4. /\ \A i : Adds(i)' => functors'[i][2] \in alive \ (timer_que_ \union expiredTimers)
      /\ \A i, j : Adds(i)' /\ Adds(j)' /\ functors'[i][2] = functors'[j][2] => i = j
  <2>1. \A i : Adds(i)' => functors'[i][2] \in alive \ (timer_que_ \union expiredTimers)
    BY <1>1, <1>2 DEF Places
  <2>2. ASSUME NEW i, NEW j, Adds(i)', Adds(j)', functors'[i][2] = functors'[j][2]
        PROVE  i = j
    <3>1. i + 1 = j + 1
      <4>1. /\ Adds(i + 1) /\ functors'[i] = functors[i + 1]
            /\ Adds(j + 1) /\ functors'[j] = functors[j + 1]
        BY <1>2, <2>2
      <4> QED BY <1>1, <2>2, <4>1 DEF Places
    <3>2. i \in Int /\ j \in Int
      BY <1>2, <2>2
    <3> QED BY <3>1, <3>2
  <2> QED BY <2>1, <2>2
<1>5. CASE Head(functors)[1] = Add
  <2>1. /\ timer_que_' = timer_que_ \union {t} /\ status' \in Statuses
        /\ IF isTheEarliest(timeExpiration_[t]) THEN resetTimerfd(timeExpiration_[t])
                                                ELSE UNCHANGED timerfd
    BY <1>5 DEF RunFunctor, _addTimer, Add, Cancel, Statuses
  <2>2. t \in alive \ (timer_que_ \union expiredTimers) /\ \A i : Adds(i)' => functors'[i][2] # t
    <3>1. Adds(1) /\ t = functors[1][2]
      BY <1>2, <1>5
    <3>2. ASSUME NEW i, Adds(i)', functors'[i][2] = t PROVE FALSE
      <4>1. Adds(i + 1) /\ functors'[i] = functors[i + 1] /\ i + 1 # 1
        BY <1>2, <3>2
      <4> QED BY <1>1, <3>1, <3>2, <4>1 DEF Places
    <3> QED BY <1>1, <3>1, <3>2 DEF Places
  <2> HIDE DEF t
  <2>3. AlarmInv' /\ alarm' \in {Disarmed} \union 0..MaxTime /\ readable' \in BOOLEAN
    BY <1>1, <1>3, <2>1, <2>2, AddKeepsAlarm DEF TypeOK
  <2>4. TypeOK'
    BY <1>1, <1>2, <1>3, <2>1, <2>3 DEF TypeOK
  <2>5. Places'
    BY <1>1, <1>4, <2>1, <2>2 DEF Places
  <2> QED BY <2>3, <2>4, <2>5 DEF IInv
<1>6. CASE Head(functors)[1] # Add
  <2>1. UNCHANGED <<timer_que_, alarm, readable>> /\ status' \in Statuses
    BY <1>6 DEF RunFunctor, _cancelTimer, tables, timerfd, Statuses
  <2>2. TypeOK'
    BY <1>1, <1>2, <2>1 DEF TypeOK
  <2>3. Places'
    BY <1>1, <1>4, <2>1 DEF Places
  <2>4. AlarmInv'
    BY <1>1, <2>1, AlarmSame
  <2> QED BY <2>2, <2>3, <2>4 DEF IInv
<1> QED BY <1>5, <1>6

LEMMA HandleTimeoutsInv ==
    ASSUME IInv, status = "running", HandleTimeouts
    PROVE  IInv'
<1>1. /\ TypeOK /\ Places /\ AlarmInv /\ active /\ expiredTimers = {}
      /\ active' = FALSE
      /\ UNCHANGED <<now, alive, id_, timeExpiration_, numTimersCreated, functors, alarm>>
  BY DEF IInv, Places, HandleTimeouts, objects
<1>2. CASE readable
  <2>1. /\ readable' = FALSE /\ timer_que_' = timer_que_ \ Due
        /\ expiredTimers' = Due /\ toCall' = Due /\ status' \in Statuses
    BY <1>2 DEF HandleTimeouts, Statuses
  <2>2. Due \subseteq timer_que_ /\ (timer_que_ # {} => Due # {})
    BY <1>1, <1>2 DEF Due, AlarmInv, SomeDueBy
  <2>3. TypeOK'
    BY <1>1, <2>1, <2>2 DEF TypeOK
  <2>4. Places'
    BY <1>1, <2>1, <2>2 DEF Places, Adds
  <2>5. AlarmInv'
    <3>1. alarm' = Disarmed
      BY <1>1, <1>2 DEF AlarmInv
    <3>2. timer_que_' # {} => expiredTimers' # {}
      BY <2>1, <2>2
    <3> QED BY <2>1, <3>1, <3>2 DEF AlarmInv
  <2> QED BY <2>3, <2>4, <2>5 DEF IInv
<1>3. CASE ~readable
  <2>1. UNCHANGED <<readable, timer_que_, expiredTimers, toCall>> /\ status' \in Statuses
    BY <1>3 DEF HandleTimeouts, tables, Statuses
  <2>2. TypeOK'
    BY <1>1, <2>1 DEF TypeOK
  <2>3. Places'
    BY <1>1, <2>1 DEF Places, Adds
  <2>4. AlarmInv'
    BY <1>1, <2>1, AlarmSame
  <2> QED BY <2>2, <2>3, <2>4 DEF IInv
<1> QED BY <1>2, <1>3

LEMMA ResetInv ==
    ASSUME IInv, status = "running", Reset
    PROVE  IInv'
<1> DEFINE again == {t \in expiredTimers : t \in Repeating /\ id_[t] \notin cancelingTimers_}
           freelist == expiredTimers \ again
           exp == [t \in Timers |-> IF t \in again THEN Time(now + Interval)
                                    ELSE timeExpiration_[t]]
           que == timer_que_ \union again
<1>1. /\ TypeOK /\ Places /\ AlarmInv /\ expiredTimers # {} /\ toCall = {}
      /\ expiredTimers' = {} /\ timer_que_' = que /\ alive' = alive \ freelist
      /\ timeExpiration_' = [t \in Timers |-> IF t \in freelist THEN 0 ELSE exp[t]]
      /\ id_' = [t \in Timers |-> IF t \in freelist THEN 0 ELSE id_[t]]
      /\ numTimersCreated' = numTimersCreated - Cardinality(freelist)
      /\ Rearm(que, exp) /\ status' \in Statuses
      /\ UNCHANGED <<now, functors, active, toCall>>
  BY DEF IInv, Reset, Statuses
<1>2. /\ again \subseteq expiredTimers /\ freelist \subseteq expiredTimers
      /\ expiredTimers \subseteq alive /\ alive \subseteq Timers /\ que \cap freelist = {}
      /\ que \subseteq alive \ freelist
  BY <1>1 DEF Places, TypeOK
<1>3. IsFiniteSet(alive') /\ Cardinality(freelist) \in Nat
  <2>1. IsFiniteSet(alive) /\ freelist \subseteq alive /\ alive' \subseteq alive
    BY <1>1, <1>2 DEF TypeOK
  <2> HIDE DEF freelist
  <2> QED BY <2>1, FS_Subset, FS_CardinalityType
<1>4. exp \in [Timers -> 0..MaxTime] /\ 0 \in 0..MaxTime
  <2>1. Time(now + Interval) \in 0..MaxTime /\ 0 \in 0..MaxTime
    <3>1. now + Interval \in Nat
      BY <1>1, TimerQueueAssumption DEF TypeOK
    <3> QED BY <3>1, TimeType, TimerQueueAssumption
  <2> HIDE DEF again
  <2> QED BY <1>1, <2>1 DEF TypeOK
<1> HIDE DEF again, exp, freelist, que
<1>5. alarm' \in {Disarmed} \union 0..MaxTime /\ readable' \in BOOLEAN /\ AlarmInv'
  <2>1. CASE que = {}
    <3>1. UNCHANGED timerfd
      BY <1>1, <2>1 DEF Rearm
    <3> QED BY <1>1, <2>1, <3>1 DEF timerfd, TypeOK, AlarmInv
  <2>2. CASE que # {}
    <3> DEFINE m == Min({exp[t] : t \in que})
    <3>1. que \subseteq Timers
      BY <1>2
    <3>2. /\ \E t \in que : exp[t] = m
          /\ \A t \in que : m <= exp[t]
      BY <1>4, <2>2, <3>1, MinIsEarliest
    <3>3. m \in 0..MaxTime
      BY <1>4, <3>1, <3>2
    <3>4. resetTimerfd(m)
      BY <1>1, <2>2 DEF Rearm
    <3>5. \A t \in que : timeExpiration_'[t] = exp[t] /\ exp[t] \in Int
      BY <1>1, <1>2, <1>4
    <3> HIDE DEF m
    <3>6. /\ readable' = FALSE /\ alarm' \in 0..MaxTime /\ alarm' # Disarmed
          /\ m <= alarm' /\ (alarm' <= Time(now + 1) \/ alarm' <= m)
      BY <1>1, <3>3, <3>4, AlarmIsSet
    <3>7. SomeDueBy(alarm)'
      BY <1>1, <3>2, <3>5, <3>6 DEF SomeDueBy
    <3>8. InTime'
      <4>1. CASE alarm' <= Time(now + 1)
        BY <1>1, <4>1 DEF InTime, Time
      <4>2. CASE alarm' <= m
        <5>1. \A t \in que : alarm' <= exp[t]
          BY <3>2, <3>3, <3>5, <3>6, <4>2
        <5> QED BY <1>1, <3>5, <5>1 DEF InTime
      <4> QED BY <3>6, <4>1, <4>2
    <3> QED BY <3>6, <3>7, <3>8 DEF AlarmInv
  <2> QED BY <2>1, <2>2
<1>6. TypeOK'
  <2>1. timeExpiration_' \in [Timers -> 0..MaxTime] /\ id_' \in [Timers -> Int]
    BY <1>1, <1>4 DEF TypeOK
  <2>2. numTimersCreated' \in Int
    BY <1>1, <1>3 DEF TypeOK
  <2> QED BY <1>1, <1>2, <1>3, <1>5, <2>1, <2>2 DEF TypeOK
<1>7. Places'
  <2>1. \A i : Adds(i) => functors[i][2] \in alive' \ que
    <3>1. \A t \in alive : t \notin timer_que_ \union expiredTimers => t \in alive' /\ t \notin que
      BY <1>1, <1>2 DEF que
    <3> QED BY <1>1, <3>1 DEF Places
  <2> QED BY <1>1, <1>2, <2>1 DEF Places, Adds
<1> QED BY <1>5, <1>6, <1>7 DEF IInv

LEMMA TickInv ==
    ASSUME IInv, Tick
    PROVE  IInv'
<1> DEFINE fires == alarm # Disarmed /\ alarm <= now'
<1>1. /\ TypeOK /\ Places /\ AlarmInv /\ now' = Time(now + 1)
      /\ readable' = (readable \/ fires) /\ alarm' = IF fires THEN Disarmed ELSE alarm
      /\ UNCHANGED <<alive, id_, timeExpiration_, numTimersCreated, functors, timer_que_,
                     active, expiredTimers, toCall, status>>
  BY DEF IInv, Tick, objects, tables, round
<1>2. now \in 0..MaxTime /\ now' \in 0..MaxTime /\ now <= now' /\ now' <= Time(now' + 1) /\ Time(now' + 1) \in Nat
  BY <1>1, TimerQueueAssumption DEF TypeOK, Time
<1>3. \A t \in timer_que_ : timeExpiration_[t] \in Int
  BY <1>1, TimerQueueAssumption DEF TypeOK
<1>4. TypeOK'
  BY <1>1, <1>2 DEF TypeOK
<1>5. Places'
  BY <1>1 DEF Places, Adds
<1>6. AlarmInv'
  <2>1. ASSUME timer_que_ # {}, readable' PROVE SomeDueBy(now)'
    <3>1. CASE readable
      BY <1>1, <1>2, <1>3, <2>1, <3>1 DEF AlarmInv, SomeDueBy
    <3>2. CASE fires
      <4>1. alarm \in Int
        BY <1>1, <3>2, TimerQueueAssumption DEF TypeOK, Disarmed
      <4>2. PICK t \in timer_que_ : timeExpiration_[t] <= alarm
        BY <1>1, <2>1, <3>2 DEF AlarmInv, SomeDueBy
      <4> QED BY <1>1, <1>2, <1>3, <3>2, <4>1, <4>2 DEF SomeDueBy
    <3> QED BY <1>1, <2>1, <3>1, <3>2
  <2>2. CASE fires
    BY <1>1, <2>1, <2>2 DEF AlarmInv
  <2>3. CASE ~fires
    <3>1. alarm' = alarm /\ readable' = readable
      BY <1>1, <2>3 DEF TypeOK
    <3>2. SomeDueBy(alarm) => SomeDueBy(alarm)'
      BY <1>1, <3>1 DEF SomeDueBy
    <3>3. alarm # Disarmed /\ InTime => InTime'
      <4>1. ASSUME alarm # Disarmed, alarm <= Time(now + 1) PROVE FALSE
        BY <1>1, <2>3, <4>1
      <4>2. ASSUME \A t \in timer_que_ : alarm <= timeExpiration_[t] PROVE InTime'
        BY <1>1, <3>1, <4>2 DEF InTime
      <4> QED BY <4>1, <4>2 DEF InTime
    <3> QED BY <1>1, <2>1, <3>1, <3>2, <3>3 DEF AlarmInv
  <2> QED BY <2>2, <2>3
<1> QED BY <1>4, <1>5, <1>6 DEF IInv

(* The actions that leave the queue, the functors and the timerfd alone.    *)
LEMMA OtherInv ==
    ASSUME IInv, UNCHANGED <<now, alive, id_, timeExpiration_, numTimersCreated, functors,
                             timer_que_, alarm, readable, expiredTimers, status>>,
           active' \in BOOLEAN, active' => expiredTimers = {}, toCall' \subseteq toCall
    PROVE  IInv'
<1>1. TypeOK'
  BY DEF IInv, TypeOK
<1>2. Places'
  BY DEF IInv, Places, Adds
<1>3. AlarmInv'
  BY AlarmSame DEF IInv
<1> QED BY <1>1, <1>2, <1>3 DEF IInv
-----------------------------------------------------------------------------
LEMMA Step == IInv /\ [Next]_vars => IInv'
<1> SUFFICES ASSUME IInv, [Next]_vars PROVE IInv'
  OBVIOUS
<1>1. CASE UNCHANGED vars
  BY <1>1, OtherInv DEF vars, IInv, TypeOK, Places
<1>2. CASE Next
  <2>1. status = "running" /\ 0..MaxTime \subseteq Nat /\ 0..MaxDelay \subseteq Nat
    BY <1>2, TimerQueueAssumption DEF Next
  <2>2. ASSUME NEW t \in Timers, NEW when \in 0..MaxTime, NEW delaySecs \in 0..MaxDelay,
               RunAt(t, when, delaySecs) \/ RunAtInLoop(t, when, delaySecs)
        PROVE  IInv'
    BY <2>1, <2>2, RunAtInv, RunAtInLoopInv
  <2>3. ASSUME NEW t \in Timers, RunAtReturns(t) PROVE IInv'
    BY <2>3, OtherInv DEF RunAtReturns, tables, timerfd, round, IInv, TypeOK, Places
  <2>4. ASSUME NEW t \in Timers, NEW inLoop \in BOOLEAN, cancelTimer(t, inLoop) PROVE IInv'
    BY <2>4, CancelTimerInv
  <2>5. CASE RunFunctor
    BY <2>1, <2>5, RunFunctorInv
  <2>6. CASE Poll
    BY <2>6, OtherInv DEF Poll, objects, tables, timerfd
  <2>7. CASE HandleTimeouts
    BY <2>1, <2>7, HandleTimeoutsInv
  <2>8. ASSUME NEW t, OnExpiration(t) PROVE IInv'
    BY <2>8, OtherInv DEF OnExpiration, objects, tables, timerfd, IInv, TypeOK, Places
  <2>9. CASE Reset
    BY <2>1, <2>9, ResetInv
  <2>10. CASE Tick
    BY <2>10, TickInv
  <2> QED BY <1>2, <2>2, <2>3, <2>4, <2>5, <2>6, <2>7, <2>8, <2>9, <2>10 DEF Next, LoopStep
<1> QED BY <1>1, <1>2

(* Each timer of the loop is in one place (pended, in the queue or taken    *)
(* out by handleTimeouts), and the timerfd's alarm fits those in the queue. *)
THEOREM Invariance == Spec => []IInv
<1> QED BY InitInv, Step, PTL DEF Spec

(* "the timerfd is notified by the time next Timer expires": the timerfd is *)
(* armed early enough for every timer that waits (ArmedForEarliest), for    *)
(* any timers, however insertions, expirations and resets interleave.       *)
THEOREM TimerfdIsArmedInTime == Spec => []ArmedForEarliest
<1>1. IInv => ArmedForEarliest
  <2> SUFFICES ASSUME IInv, timer_que_ # {}, expiredTimers = {}, ~readable
               PROVE  alarm # Disarmed /\ alarm <= Max({Earliest(timer_que_), Time(now + 1)})
    BY DEF ArmedForEarliest
  <2> DEFINE m == Earliest(timer_que_)
             n == Time(now + 1)
  <2>1. alarm # Disarmed /\ (alarm <= n \/ \A t \in timer_que_ : alarm <= timeExpiration_[t])
    BY DEF IInv, AlarmInv, InTime
  <2>2. \E t \in timer_que_ : timeExpiration_[t] = m
    BY MinIsEarliest DEF IInv, TypeOK, Earliest
  <2>3. m \in Int /\ n \in Int /\ alarm \in Int
    <3>1. \A t \in timer_que_ : timeExpiration_[t] \in Int
      BY TimerQueueAssumption DEF IInv, TypeOK
    <3>2. n \in Int /\ alarm \in Int
      BY TimerQueueAssumption DEF IInv, TypeOK, Time, Disarmed
    <3> QED BY <2>2, <3>1, <3>2
  <2>4. alarm <= n \/ alarm <= m
    BY <2>1, <2>2
  <2> HIDE DEF m, n
  <2>5. Max({m, n}) >= m /\ Max({m, n}) >= n /\ Max({m, n}) \in {m, n}
    <3>1. \E x \in {m, n} : \A y \in {m, n} : x >= y
      BY <2>3
    <3> QED BY <3>1 DEF Max
  <2>6. alarm <= Max({m, n})
    BY <2>3, <2>4, <2>5
  <2> QED BY <2>1, <2>6 DEF m, n
<1> QED BY <1>1, Invariance, PTL
=============================================================================
