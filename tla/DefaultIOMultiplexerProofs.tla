--------------------- MODULE DefaultIOMultiplexerProofs ---------------------
(***************************************************************************)
(* Proofs about Poller and Epoller as a loop gets them, for any set of     *)
(* channels and any assignment of fds to them: their tables agree with the *)
(* channels, nothing aborts, and both implement IOMultiplexer.             *)
(***************************************************************************)
EXTENDS DefaultIOMultiplexer, FiniteSetTheorems, SequenceTheorems, TLAPS

Registered == Range(fdMap_)
Record == [fd : Int, events : SUBSET Events]

(* What both multiplexers rely on: fdMap_ finds the open channel of an fd.  *)
MapOK ==
    /\ multiplexer \in {"poll", "epoll"}
    /\ status \in {"running", "aborted", "exited"}
    /\ open \subseteq Channels /\ events_ \in [Channels -> SUBSET Events]
    /\ index_ \in [Channels -> Int]
    /\ fdMap_ \in [DOMAIN fdMap_ -> open] /\ IsFiniteSet(DOMAIN fdMap_)
    /\ \A fd \in DOMAIN fdMap_ : FdOf[fdMap_[fd]] = fd
    /\ \A c, d \in open : FdOf[c] = FdOf[d] => c = d

(* Every record belongs to the channel whose index it has.                  *)
RecordOf(c) == fdlist_[index_[c] + 1]
Listed(c) == RecordOf(c).fd = FdOf[c] /\ RecordOf(c).events = events_[c]
Masked(c) == RecordOf(c).fd = -FdOf[c] - 1

PollTables ==
    /\ fdlist_ \in Seq(Record)
    /\ Len(fdlist_) = Cardinality(DOMAIN fdMap_)
    /\ \A c \in Registered : index_[c] + 1 \in 1..Len(fdlist_) /\ (Listed(c) \/ Masked(c))
    /\ \A c, d \in Registered : index_[c] = index_[d] => c = d
    /\ \A i \in 1..Len(fdlist_) : \E c \in Registered : index_[c] + 1 = i

(* The kernel's list is that of the channels that have not been disabled.   *)
Added == {c \in Registered : index_[c] = 1}

EpollTables ==
    /\ DOMAIN epollset = {FdOf[c] : c \in Added}
    /\ \A c \in Added : epollset[FdOf[c]] = events_[c]
    /\ \A c \in Registered \ Added : index_[c] = 2
    /\ listSize \in Nat \ {0}

IInv ==
    /\ MapOK
    /\ multiplexer = "poll" => PollTables
    /\ multiplexer = "epoll" => EpollTables

(* What IOMultiplexer sees of a channel.                                    *)
Silent(c) ==
    IF multiplexer = "poll" THEN RecordOf(c).fd = -FdOf[c] - 1 ELSE index_[c] = 2
Cares(c) ==
    IF c \in Registered /\ ~Silent(c) THEN events_[c] \union {kErrorEvent} ELSE {}

CaresOnly(c, ev) ==
    /\ \A d \in Channels \ {c} : Cares(d)' = Cares(d)
    /\ Cares(c)' = ev
CaresAsBefore == \A d \in Channels : Cares(d)' = Cares(d)
NothingReported == activeChannels' = {} /\ ready' = [c \in Channels |-> {}]
-----------------------------------------------------------------------------
LEMMA MapFacts ==
    ASSUME MapOK
    PROVE  /\ Registered \subseteq open /\ open \subseteq Channels
           /\ \A c \in Registered : FdOf[c] \in DOMAIN fdMap_ /\ fdMap_[FdOf[c]] = c
           /\ \A c \in open : c \in Registered <=> FdOf[c] \in DOMAIN fdMap_
           /\ \A c, d \in Registered : FdOf[c] = FdOf[d] => c = d
           /\ \A c \in Channels : FdOf[c] \in Nat
<1>1. Registered \subseteq open /\ open \subseteq Channels
  BY DEF MapOK, Registered, Range
<1>2. \A c \in Registered : FdOf[c] \in DOMAIN fdMap_ /\ fdMap_[FdOf[c]] = c
  BY DEF MapOK, Registered, Range
<1>3. \A c \in open : c \in Registered <=> FdOf[c] \in DOMAIN fdMap_
  <2>1. \A c \in open : FdOf[c] \in DOMAIN fdMap_ => fdMap_[FdOf[c]] = c
    BY DEF MapOK
  <2> QED BY <1>2, <2>1 DEF Registered, Range
<1> QED BY <1>1, <1>2, <1>3, FdChannelAssumption DEF MapOK

(* The map, and its size, when a channel is put in or taken out.            *)
Inserted(c) ==
    /\ fdMap_' = [fd \in DOMAIN fdMap_ \cup {FdOf[c]} |->
                    IF fd = FdOf[c] THEN c ELSE fdMap_[fd]]
    /\ open' = open
Taken(c) ==
    /\ fdMap_' = [fd \in DOMAIN fdMap_ \ {FdOf[c]} |-> fdMap_[fd]]
    /\ open' = open

LEMMA MapInsert ==
    ASSUME MapOK, NEW c \in open, Inserted(c)
    PROVE  /\ fdMap_' \in [DOMAIN fdMap_' -> open'] /\ IsFiniteSet(DOMAIN fdMap_')
           /\ \A fd \in DOMAIN fdMap_' : FdOf[fdMap_'[fd]] = fd
           /\ Registered' = Registered \union {c}
           /\ c \notin Registered => Cardinality(DOMAIN fdMap_') = Cardinality(DOMAIN fdMap_) + 1
           /\ c \in Registered => fdMap_' = fdMap_
<1>1. /\ DOMAIN fdMap_' = DOMAIN fdMap_ \union {FdOf[c]} /\ fdMap_'[FdOf[c]] = c
      /\ \A fd \in DOMAIN fdMap_ : fdMap_'[fd] = fdMap_[fd]
      /\ fdMap_' \in [DOMAIN fdMap_' -> open']
  BY MapFacts DEF MapOK, Inserted
<1>2. \A fd \in DOMAIN fdMap_' : FdOf[fdMap_'[fd]] = fd
  BY <1>1 DEF MapOK
<1>3. Registered' = Registered \union {c}
  BY <1>1 DEF MapOK, Registered, Range
<1>4. /\ IsFiniteSet(DOMAIN fdMap_')
      /\ c \notin Registered => Cardinality(DOMAIN fdMap_') = Cardinality(DOMAIN fdMap_) + 1
  BY <1>1, MapFacts, FS_AddElement DEF MapOK
<1>5. c \in Registered => fdMap_' = fdMap_
  BY <1>1, MapFacts DEF MapOK
<1> QED BY <1>1, <1>2, <1>3, <1>4, <1>5

LEMMA MapRemove ==
    ASSUME MapOK, NEW c \in Registered, Taken(c)
    PROVE  /\ fdMap_' \in [DOMAIN fdMap_' -> open'] /\ IsFiniteSet(DOMAIN fdMap_')
           /\ \A fd \in DOMAIN fdMap_' : FdOf[fdMap_'[fd]] = fd
           /\ Registered' = Registered \ {c}
           /\ Cardinality(DOMAIN fdMap_') = Cardinality(DOMAIN fdMap_) - 1
<1>1. /\ DOMAIN fdMap_' = DOMAIN fdMap_ \ {FdOf[c]}
      /\ \A fd \in DOMAIN fdMap_' : fdMap_'[fd] = fdMap_[fd]
      /\ fdMap_' \in [DOMAIN fdMap_' -> open']
  BY DEF MapOK, Taken
<1>2. \A fd \in DOMAIN fdMap_' : FdOf[fdMap_'[fd]] = fd
  BY <1>1 DEF MapOK
<1>3. Registered' = Registered \ {c}
  <2>1. \A fd \in DOMAIN fdMap_ : fdMap_[fd] = c <=> fd = FdOf[c]
    BY MapFacts DEF MapOK
  <2> QED BY <1>1, <2>1 DEF Registered, Range
<1>4. IsFiniteSet(DOMAIN fdMap_') /\ Cardinality(DOMAIN fdMap_') = Cardinality(DOMAIN fdMap_) - 1
  BY <1>1, MapFacts, FS_RemoveElement DEF MapOK
<1> QED BY <1>1, <1>2, <1>3, <1>4

(* Each instance of FdChannel brings its own name for the cardinality.      *)
LEMMA SameCardinality ==
    ASSUME NEW S PROVE P!Cardinality(S) = Cardinality(S) /\ E!Cardinality(S) = Cardinality(S)
<1>1. P!Cardinality(S) = Cardinality(S)
  BY DEF P!Cardinality, Cardinality
<1>2. E!Cardinality(S) = Cardinality(S)
  BY DEF E!Cardinality, Cardinality
<1> QED BY <1>1, <1>2

LEMMA InitInv == getDefaultIOMultiplexer => IInv
<1> SUFFICES ASSUME getDefaultIOMultiplexer PROVE IInv
  OBVIOUS
<1>1. /\ fdMap_ = <<>> /\ open = {} /\ events_ = [c \in Channels |-> {}]
      /\ index_ = [c \in Channels |-> -1] /\ status = "running"
      /\ multiplexer \in {"poll", "epoll"}
      /\ multiplexer = "poll" => fdlist_ = <<>>
      /\ multiplexer = "epoll" => epollset = <<>> /\ listSize = InitListSize
  BY DEF getDefaultIOMultiplexer, P!Init, P!ChannelsInit, P!None, E!Init, E!ChannelsInit, E!None
<1>2. DOMAIN fdMap_ = {} /\ Registered = {}
  BY <1>1 DEF Registered, Range
<1>3. MapOK
  <2>1. /\ events_ \in [Channels -> SUBSET Events] /\ index_ \in [Channels -> Int]
        /\ fdMap_ \in [DOMAIN fdMap_ -> open]
    BY <1>1, <1>2
  <2> QED BY <1>1, <1>2, <2>1, FS_EmptySet DEF MapOK
<1>4. multiplexer = "poll" => PollTables
  <2>1. <<>> \in Seq(Record) /\ Len(<<>>) = 0 /\ Cardinality({}) = 0
    BY EmptySeq, FS_EmptySet
  <2> QED BY <1>1, <1>2, <2>1 DEF PollTables
<1>5. multiplexer = "epoll" => EpollTables
  BY <1>1, <1>2, DefaultIOMultiplexerAssumption DEF EpollTables, Added
<1> QED BY <1>3, <1>4, <1>5 DEF IInv
-----------------------------------------------------------------------------
(* Poller.                                                                  *)
LEMMA PollNames ==
    ASSUME MapOK, PollTables
    PROVE  /\ P!Registered = Registered
           /\ \A c \in Registered :
                /\ FdOf[c] \in Nat /\ index_[c] \in 0..(Len(fdlist_) - 1) /\ index_[c] + 1 \in 1..Len(fdlist_)
                /\ RecordOf(c) \in Record /\ RecordOf(c) = fdlist_[index_[c] + 1]
                /\ P!IndexInRange(c) /\ P!Slot(c) = RecordOf(c)
                /\ IF P!Disabled(c) THEN Masked(c) /\ P!SlotIs(c, P!Masked(FdOf[c]))
                                    ELSE Listed(c) /\ P!SlotIs(c, FdOf[c]) /\ RecordOf(c).fd # -FdOf[c] - 1
           /\ \A c \in Channels : P!Disabled(c) => c \in Registered
           /\ \A fd : P!Masked(fd) = -fd - 1
<1>1. P!Registered = Registered /\ \A fd : P!Masked(fd) = -fd - 1
  BY DEF P!Registered, P!Range, Registered, Range, P!Masked
<1>2. ASSUME NEW c \in Registered
      PROVE  /\ FdOf[c] \in Nat /\ index_[c] \in 0..(Len(fdlist_) - 1) /\ index_[c] + 1 \in 1..Len(fdlist_)
             /\ RecordOf(c) \in Record /\ RecordOf(c) = fdlist_[index_[c] + 1]
             /\ P!IndexInRange(c) /\ P!Slot(c) = RecordOf(c)
             /\ IF P!Disabled(c) THEN Masked(c) /\ P!SlotIs(c, P!Masked(FdOf[c]))
                                 ELSE Listed(c) /\ P!SlotIs(c, FdOf[c]) /\ RecordOf(c).fd # -FdOf[c] - 1
  <2>1. /\ FdOf[c] \in Nat /\ index_[c] \in Int /\ index_[c] + 1 \in 1..Len(fdlist_)
        /\ Len(fdlist_) \in Nat
    BY MapFacts, LenProperties DEF MapOK, PollTables
  <2>2. RecordOf(c) \in Record
    BY <2>1, ElementOfSeq DEF PollTables, RecordOf
  <2>3. /\ index_[c] >= 0 /\ index_[c] < Len(fdlist_) /\ index_[c] \in 0..(Len(fdlist_) - 1)
        /\ FdOf[c] # -FdOf[c] - 1
    BY <2>1
  <2>4. P!IndexInRange(c) /\ P!Slot(c) = RecordOf(c)
    BY <2>3 DEF P!IndexInRange, P!Slot, RecordOf
  <2>5. P!Disabled(c) <=> RecordOf(c).fd = -FdOf[c] - 1
    BY <1>1, <2>4 DEF P!Disabled, P!SlotIs
  <2>6. P!SlotIs(c, FdOf[c]) <=> RecordOf(c).fd = FdOf[c]
    BY <2>4 DEF P!SlotIs
  <2>7. P!SlotIs(c, P!Masked(FdOf[c])) <=> RecordOf(c).fd = -FdOf[c] - 1
    BY <1>1, <2>4 DEF P!SlotIs
  <2>8. Listed(c) \/ Masked(c)
    BY DEF PollTables
  <2> QED BY <2>1, <2>2, <2>3, <2>4, <2>5, <2>6, <2>7, <2>8 DEF Listed, Masked, RecordOf
<1>3. \A c \in Channels : P!Disabled(c) => c \in Registered
  BY <1>1 DEF P!Disabled
<1> QED BY <1>1, <1>2, <1>3

LEMMA PollCares ==
    ASSUME multiplexer = "poll", NEW c
    PROVE  Cares(c) = IF c \in Registered /\ RecordOf(c).fd # -FdOf[c] - 1
                      THEN events_[c] \union {kErrorEvent} ELSE {}
  BY DEF Cares, Silent

LEMMA PollUpdate ==
    ASSUME MapOK, PollTables, multiplexer = "poll", multiplexer' = multiplexer,
           NEW c \in Channels, NEW ev \in SUBSET Events, P!Update(c, ev), ~P!Disabled(c)
    PROVE  /\ MapOK' /\ PollTables' /\ Registered' = Registered \union {c}
           /\ CaresOnly(c, ev \union {kErrorEvent}) /\ NothingReported
           /\ status' = status \/ FdOf[c] > FdLimit
<1>1. /\ ~P!Disabled(c) /\ c \in open /\ open' = open /\ events_' = [events_ EXCEPT ![c] = ev]
      /\ P!updateFdChannel(c, ev) /\ NothingReported
  BY DEF P!Update, P!SetEvents, P!PollResultIsNone, P!None, NothingReported
<1>2. /\ events_' \in [Channels -> SUBSET Events] /\ events_'[c] = ev
      /\ \A d \in Channels \ {c} : events_'[d] = events_[d]
  BY <1>1 DEF MapOK
<1>3. CASE FdOf[c] \notin DOMAIN fdMap_
  <2> DEFINE n == Len(fdlist_)
             rec == [fd |-> FdOf[c], events |-> ev]
  <2>1. /\ index_' = [index_ EXCEPT ![c] = n] /\ fdlist_' = Append(fdlist_, rec)
        /\ fdMap_' = [fd \in DOMAIN fdMap_ \cup {FdOf[c]} |-> IF fd = FdOf[c] THEN c ELSE fdMap_[fd]]
        /\ status' = IF FdOf[c] <= FdLimit THEN status ELSE "aborted"
    BY <1>1, <1>3 DEF P!updateFdChannel, P!assert, P!WithinLimit
  <2>2. c \notin Registered /\ FdOf[c] \in Nat /\ Registered \subseteq Channels
    BY <1>1, <1>3, MapFacts
  <2>3. /\ fdMap_' \in [DOMAIN fdMap_' -> open'] /\ IsFiniteSet(DOMAIN fdMap_')
        /\ \A fd \in DOMAIN fdMap_' : FdOf[fdMap_'[fd]] = fd
        /\ Registered' = Registered \union {c}
        /\ Cardinality(DOMAIN fdMap_') = Cardinality(DOMAIN fdMap_) + 1
    <3>1. Inserted(c)
      BY <1>1, <2>1 DEF Inserted
    <3> QED BY <1>1, <2>2, <3>1, MapInsert
  <2>4. n \in Nat /\ rec \in Record /\ rec.fd = FdOf[c] /\ rec.events = ev
    BY <2>2, LenProperties DEF PollTables, Record
  <2> HIDE DEF rec, n
  <2>5. /\ fdlist_' \in Seq(Record) /\ Len(fdlist_') = n + 1 /\ fdlist_'[n + 1] = rec
        /\ \A i \in 1..n : fdlist_'[i] = fdlist_[i]
    BY <2>1, <2>4, AppendProperties DEF PollTables, n
  <2>6. /\ index_' \in [Channels -> Int] /\ index_'[c] = n
        /\ \A d \in Registered : index_'[d] = index_[d] /\ index_[d] + 1 \in 1..n /\ index_[d] # n
    <3>1. \A d \in Registered : index_[d] \in 0..(n - 1) /\ index_[d] + 1 \in 1..n
      BY PollNames DEF n
    <3> QED BY <2>1, <2>2, <2>4, <3>1 DEF MapOK
  <2>7. MapOK'
    BY <1>1, <1>2, <2>1, <2>3, <2>6 DEF MapOK
  <2>8. \A d \in Registered : RecordOf(d)' = RecordOf(d) /\ events_'[d] = events_[d]
    BY <1>2, <2>2, <2>5, <2>6 DEF RecordOf
  <2>9. RecordOf(c)' = rec /\ Listed(c)' /\ rec.fd # -FdOf[c] - 1
    BY <1>2, <2>2, <2>4, <2>5, <2>6 DEF RecordOf, Listed
  <2>10. PollTables'
    <3>1. Len(fdlist_') = Cardinality(DOMAIN fdMap_')
      BY <2>3, <2>5 DEF PollTables, n
    <3>2. ASSUME NEW d \in Registered' PROVE index_'[d] + 1 \in 1..Len(fdlist_') /\ (Listed(d)' \/ Masked(d)')
      <4>1. CASE d \in Registered
        <5>1. Listed(d) \/ Masked(d)
          BY <4>1 DEF PollTables
        <5>2. Listed(d)' \/ Masked(d)'
          BY <2>8, <4>1, <5>1 DEF Listed, Masked
        <5>3. index_'[d] + 1 \in 1..(n + 1)
          BY <2>4, <2>6, <4>1
        <5> QED BY <2>5, <5>2, <5>3
      <4>2. CASE d = c
        BY <2>4, <2>5, <2>6, <2>9, <4>2
      <4> QED BY <2>3, <4>1, <4>2
    <3>3. \A d, e \in Registered' : index_'[d] = index_'[e] => d = e
      BY <2>3, <2>6 DEF PollTables
    <3>4. \A i \in 1..Len(fdlist_') : \E d \in Registered' : index_'[d] + 1 = i
      <4>1. \A i \in 1..Len(fdlist_') : i \in 1..n \/ i = n + 1
        BY <2>4, <2>5
      <4>2. \A i \in 1..n : \E d \in Registered : index_'[d] + 1 = i
        BY <2>6 DEF PollTables, n
      <4> QED BY <2>3, <2>6, <4>1, <4>2
    <3> QED BY <2>5, <3>1, <3>2, <3>3, <3>4 DEF PollTables
  <2>11. CaresOnly(c, ev \union {kErrorEvent})
    <3>1. Cares(c)' = ev \union {kErrorEvent}
      BY <1>2, <2>3, <2>9, PollCares DEF Cares, Silent
    <3>2. ASSUME NEW d \in Channels \ {c} PROVE Cares(d)' = Cares(d)
      BY <2>3, <2>8, <3>2 DEF Cares, Silent
    <3> QED BY <3>1, <3>2 DEF CaresOnly
  <2>12. status' = status \/ FdOf[c] > FdLimit
    BY <2>1, <2>2, DefaultIOMultiplexerAssumption
  <2> QED BY <1>1, <2>3, <2>7, <2>10, <2>11, <2>12
<1>4. CASE FdOf[c] \in DOMAIN fdMap_
  <2> DEFINE i == index_[c] + 1
  <2>1. c \in Registered
    BY <1>1, <1>4, MapFacts
  <2>2. Listed(c) /\ P!SlotIs(c, FdOf[c]) /\ FdOf[c] # -FdOf[c] - 1 /\ FdOf[c] \in Nat
        /\ i \in 1..Len(fdlist_) /\ RecordOf(c) = fdlist_[i] /\ RecordOf(c) \in Record
    BY <1>1, <2>1, PollNames DEF Listed
  <2>3. /\ fdlist_' = [fdlist_ EXCEPT ![i] = [fdlist_[i] EXCEPT !.events = ev]]
        /\ UNCHANGED <<index_, fdMap_, status>>
    BY <1>1, <1>4, <2>2 DEF P!updateFdChannel, P!assert
  <2> DEFINE rec == [fdlist_[i] EXCEPT !.events = ev]
  <2>4. rec \in Record /\ rec.fd = FdOf[c] /\ rec.events = ev
    BY <2>2 DEF Record, Listed
  <2> HIDE DEF rec
  <2>5. fdlist_' = [fdlist_ EXCEPT ![i] = rec]
    BY <2>3 DEF rec
  <2>6. /\ fdlist_' \in Seq(Record) /\ Len(fdlist_') = Len(fdlist_)
        /\ \A j \in 1..Len(fdlist_) : fdlist_'[j] = IF j = i THEN rec ELSE fdlist_[j]
    BY <2>2, <2>4, <2>5, ExceptSeq DEF PollTables
  <2>7. Registered' = Registered
    BY <2>3 DEF Registered
  <2>8. \A d \in Registered \ {c} : RecordOf(d)' = RecordOf(d) /\ events_'[d] = events_[d]
    <3>1. \A d \in Registered \ {c} : d \in Channels /\ index_[d] + 1 \in 1..Len(fdlist_) /\ index_[d] + 1 # i
      BY <2>1, MapFacts DEF PollTables, MapOK
    <3> QED BY <1>2, <2>3, <2>6, <3>1 DEF RecordOf
  <2>9. RecordOf(c)' = rec
    BY <2>2, <2>3, <2>6 DEF RecordOf
  <2> HIDE DEF i
  <2>10. MapOK'
    BY <1>1, <1>2, <2>3 DEF MapOK
  <2>11. PollTables'
    <3>1. \A d \in Registered : Listed(d)' \/ Masked(d)'
      BY <1>2, <2>4, <2>8, <2>9 DEF Listed, Masked, PollTables
    <3> QED BY <2>3, <2>6, <2>7, <3>1 DEF PollTables
  <2>12. CaresOnly(c, ev \union {kErrorEvent})
    <3>1. Cares(c)' = ev \union {kErrorEvent}
      BY <1>2, <2>1, <2>2, <2>4, <2>7, <2>9 DEF Cares, Silent
    <3>2. ASSUME NEW d \in Channels \ {c} PROVE Cares(d)' = Cares(d)
      BY <2>7, <2>8, <3>2 DEF Cares, Silent
    <3> QED BY <3>1, <3>2 DEF CaresOnly
  <2> QED BY <1>1, <2>1, <2>3, <2>7, <2>10, <2>11, <2>12
<1> QED BY <1>3, <1>4

(* An update that meets the masked record leaves it as it is.               *)
LEMMA PollUpdateDisabled ==
    ASSUME MapOK, PollTables, multiplexer = "poll", multiplexer' = multiplexer,
           NEW c \in Channels, NEW ev \in SUBSET Events, P!Update(c, ev), P!Disabled(c)
    PROVE  /\ MapOK' /\ PollTables' /\ Registered' = Registered
           /\ CaresAsBefore /\ NothingReported
<1>1. /\ c \in Registered /\ open' = open /\ events_' = [events_ EXCEPT ![c] = ev]
      /\ P!updateFdChannel(c, ev) /\ NothingReported /\ FdOf[c] \in DOMAIN fdMap_
  BY PollNames, MapFacts DEF P!Update, P!SetEvents, P!PollResultIsNone, P!None, NothingReported
<1>2. /\ events_' \in [Channels -> SUBSET Events] /\ Registered \subseteq Channels
      /\ \A d \in Channels \ {c} : events_'[d] = events_[d]
  BY <1>1, MapFacts DEF MapOK
<1>3. Masked(c) /\ ~P!SlotIs(c, FdOf[c])
  <2>1. P!SlotIs(c, P!Masked(FdOf[c])) /\ P!Masked(FdOf[c]) # FdOf[c] /\ Masked(c)
    BY <1>1, PollNames
  <2> QED BY <2>1 DEF P!SlotIs
<1>4. UNCHANGED <<index_, fdMap_, fdlist_>> /\ status' = "aborted"
  BY <1>1, <1>3 DEF P!updateFdChannel, P!assert
<1>5. Registered' = Registered /\ \A d \in Registered : RecordOf(d)' = RecordOf(d)
  BY <1>4 DEF Registered, RecordOf
<1>6. MapOK'
  BY <1>1, <1>2, <1>4 DEF MapOK
<1>7. PollTables'
  <2>1. \A d \in Registered : Listed(d)' \/ Masked(d)'
    BY <1>2, <1>3, <1>5 DEF Listed, Masked, PollTables
  <2> QED BY <1>4, <1>5, <2>1 DEF PollTables
<1>8. CaresAsBefore
  BY <1>2, <1>3, <1>5 DEF CaresAsBefore, Cares, Silent, Masked
<1> QED BY <1>1, <1>5, <1>6, <1>7, <1>8

(* Nothing the tables tell of a registered channel changes.                 *)
LEMMA PollSame ==
    ASSUME MapOK, PollTables, multiplexer = "poll", UNCHANGED <<multiplexer, fdMap_, fdlist_>>,
           status' \in {"running", "aborted", "exited"},
           Registered \subseteq open', open' \subseteq Channels,
           \A d, e \in open' : FdOf[d] = FdOf[e] => d = e,
           events_' \in [Channels -> SUBSET Events], index_' \in [Channels -> Int],
           \A d \in Registered : events_'[d] = events_[d] /\ index_'[d] = index_[d]
    PROVE  MapOK' /\ PollTables' /\ Registered' = Registered /\ CaresAsBefore
<1>1. Registered' = Registered
  BY DEF Registered
<1>2. fdMap_' \in [DOMAIN fdMap_' -> open']
  BY DEF MapOK, Registered, Range
<1>3. MapOK'
  BY <1>2 DEF MapOK
<1>4. \A d \in Registered : RecordOf(d)' = RecordOf(d) /\ index_'[d] = index_[d] /\ events_'[d] = events_[d]
  BY DEF RecordOf
<1>5. \A d \in Registered : Listed(d)' \/ Masked(d)'
  BY <1>4 DEF PollTables, Listed, Masked
<1>6. PollTables'
  <2>1. fdlist_' = fdlist_ /\ fdMap_' = fdMap_
    OBVIOUS
  <2>2. \A d \in Registered : index_'[d] + 1 \in 1..Len(fdlist_)
    BY <1>4 DEF PollTables
  <2>3. \A d, e \in Registered : index_'[d] = index_'[e] => d = e
    BY <1>4 DEF PollTables
  <2>4. \A i \in 1..Len(fdlist_) : \E d \in Registered : index_'[d] + 1 = i
    BY <1>4 DEF PollTables
  <2> QED BY <1>1, <1>5, <2>1, <2>2, <2>3, <2>4 DEF PollTables
<1>7. CaresAsBefore
  BY <1>1, <1>4 DEF CaresAsBefore, Cares, Silent
<1> QED BY <1>1, <1>3, <1>6, <1>7

LEMMA PollDisableAll ==
    ASSUME MapOK, PollTables, multiplexer = "poll", multiplexer' = multiplexer,
           NEW c \in Channels, P!DisableAll(c)
    PROVE  /\ MapOK' /\ PollTables' /\ Registered' = Registered /\ c \in Registered
           /\ CaresOnly(c, {}) /\ NothingReported /\ status' = status
<1> DEFINE i == index_[c] + 1
           rec == [fdlist_[i] EXCEPT !.fd = -FdOf[c] - 1]
<1>1. /\ ~P!Disabled(c) /\ c \in Registered /\ c \in open
      /\ open' = open /\ events_' = [events_ EXCEPT ![c] = {}]
      /\ P!disableAllEvent(c) /\ NothingReported
  BY PollNames DEF P!DisableAll, P!ClearEvents, P!SetEvents, P!PollResultIsNone, P!None, NothingReported
<1>2. /\ events_' \in [Channels -> SUBSET Events] /\ events_'[c] = {}
      /\ \A d \in Channels \ {c} : events_'[d] = events_[d]
  BY <1>1 DEF MapOK
<1>3. /\ P!IndexInRange(c) /\ FdOf[c] \in Nat /\ P!Masked(FdOf[c]) = -FdOf[c] - 1
      /\ i \in 1..Len(fdlist_) /\ RecordOf(c) = fdlist_[i] /\ RecordOf(c) \in Record
      /\ P!Slot(c) = RecordOf(c)
  BY <1>1, PollNames
<1>4. /\ fdlist_' = [fdlist_ EXCEPT ![i] = rec]
      /\ UNCHANGED <<index_, fdMap_, status>>
  BY <1>1, <1>3 DEF P!disableAllEvent, P!assert, P!MaskedRecord
<1>5. rec \in Record /\ rec.fd = -FdOf[c] - 1
  BY <1>3 DEF Record
<1> HIDE DEF rec
<1>6. /\ fdlist_' \in Seq(Record) /\ Len(fdlist_') = Len(fdlist_)
      /\ \A j \in 1..Len(fdlist_) : fdlist_'[j] = IF j = i THEN rec ELSE fdlist_[j]
  BY <1>3, <1>4, <1>5, ExceptSeq DEF PollTables
<1>7. Registered' = Registered
  BY <1>4 DEF Registered
<1>8. \A d \in Registered \ {c} : RecordOf(d)' = RecordOf(d) /\ events_'[d] = events_[d]
  <2>1. \A d \in Registered \ {c} : d \in Channels /\ index_[d] + 1 \in 1..Len(fdlist_) /\ index_[d] + 1 # i
    BY <1>1, MapFacts DEF PollTables, MapOK
  <2> QED BY <1>2, <1>4, <1>6, <2>1 DEF RecordOf
<1>9. RecordOf(c)' = rec
  BY <1>3, <1>4, <1>6 DEF RecordOf
<1> HIDE DEF i
<1>10. MapOK'
  BY <1>1, <1>2, <1>4 DEF MapOK
<1>11. PollTables'
  <2>1. \A d \in Registered : Listed(d)' \/ Masked(d)'
    BY <1>2, <1>5, <1>8, <1>9 DEF Listed, Masked, PollTables
  <2> QED BY <1>4, <1>6, <1>7, <2>1 DEF PollTables
<1>12. CaresOnly(c, {})
  <2>1. Cares(c)' = {}
    BY <1>5, <1>9 DEF Cares, Silent
  <2>2. ASSUME NEW d \in Channels \ {c} PROVE Cares(d)' = Cares(d)
    BY <1>7, <1>8, <2>2 DEF Cares, Silent
  <2> QED BY <2>1, <2>2 DEF CaresOnly
<1> QED BY <1>1, <1>4, <1>7, <1>10, <1>11, <1>12

(* The last record is that of the channel that fdMap_ finds by its fd.      *)
LEMMA BackChannel ==
    ASSUME MapOK, PollTables, Registered # {}
    PROVE  \E b \in Registered : index_[b] + 1 = Len(fdlist_) /\ fdMap_[P!BackFd] = b
<1>1. Len(fdlist_) \in Nat /\ Len(fdlist_) \in 1..Len(fdlist_)
  BY PollNames, LenProperties DEF PollTables
<1>2. PICK b \in Registered : index_[b] + 1 = Len(fdlist_)
  BY <1>1 DEF PollTables
<1>3. /\ RecordOf(b) = fdlist_[Len(fdlist_)] /\ RecordOf(b) \in Record /\ FdOf[b] \in Nat
      /\ RecordOf(b).fd = FdOf[b] \/ RecordOf(b).fd = -FdOf[b] - 1
  BY <1>2, PollNames DEF Listed, Masked
<1>4. P!BackFd = FdOf[b]
  BY <1>3, PollNames DEF P!BackFd
<1> QED BY <1>2, <1>4, MapFacts

LEMMA PollRemove ==
    ASSUME MapOK, PollTables, multiplexer = "poll", multiplexer' = multiplexer,
           NEW c \in Channels, P!Remove(c)
    PROVE  /\ MapOK' /\ PollTables' /\ Registered' = Registered \ {c} /\ c \in Registered
           /\ Cares(c) = {} /\ CaresAsBefore /\ NothingReported /\ status' = status
<1> DEFINE i == index_[c] + 1
           n == Len(fdlist_)
           swapped == [fdlist_ EXCEPT ![i] = fdlist_[n]]
<1>1. /\ P!Disabled(c) /\ c \in Registered /\ UNCHANGED <<open, events_>>
      /\ P!removeFdChannel(c) /\ NothingReported
  BY PollNames DEF P!Remove, P!PollResultIsNone, P!None, NothingReported
<1>2. /\ Masked(c) /\ P!SlotIs(c, P!Masked(FdOf[c])) /\ index_[c] + 1 \in 1..n
      /\ fdMap_[FdOf[c]] = c /\ c \in open /\ open \subseteq Channels
      /\ Registered \subseteq Channels
  BY <1>1, PollNames, MapFacts
<1>3. PICK b \in Registered : index_[b] + 1 = n /\ fdMap_[P!BackFd] = b
  BY <1>1, BackChannel
<1>4. /\ index_' = [index_ EXCEPT ![b] = index_[c]] /\ fdlist_' = SubSeq(swapped, 1, n - 1)
      /\ fdMap_' = [fd \in DOMAIN fdMap_ \ {FdOf[c]} |-> fdMap_[fd]]
      /\ status' = status
  BY <1>1, <1>2, <1>3 DEF P!removeFdChannel, P!assert, P!IndexAfterSwap
<1>5. Taken(c)
  BY <1>1, <1>4 DEF Taken
<1>6. /\ fdMap_' \in [DOMAIN fdMap_' -> open'] /\ IsFiniteSet(DOMAIN fdMap_')
      /\ \A fd \in DOMAIN fdMap_' : FdOf[fdMap_'[fd]] = fd
      /\ Registered' = Registered \ {c}
      /\ Cardinality(DOMAIN fdMap_') = Cardinality(DOMAIN fdMap_) - 1
  BY <1>1, <1>5, MapRemove
<1>7. n \in Nat /\ n \in 1..n /\ i \in 1..n
  BY <1>2, LenProperties DEF PollTables
<1>8. /\ fdlist_' \in Seq(Record) /\ Len(fdlist_') = n - 1
      /\ \A j \in 1..(n - 1) : fdlist_'[j] = IF j = i THEN fdlist_[n] ELSE fdlist_[j]
  <2> HIDE DEF i, n, swapped
  <2>1. fdlist_[n] \in Record
    BY <1>7, ElementOfSeq DEF PollTables, n
  <2>2. /\ swapped \in Seq(Record) /\ Len(swapped) = n
        /\ \A j \in 1..n : swapped[j] = IF j = i THEN fdlist_[n] ELSE fdlist_[j]
    BY <1>7, <2>1, ExceptSeq DEF PollTables, n, swapped
  <2>3. \A j \in 1..(n - 1) : j \in 1..n
    BY <1>7
  <2>4. /\ fdlist_' \in Seq(Record) /\ Len(fdlist_') = n - 1
        /\ \A j \in 1..(n - 1) : fdlist_'[j] = swapped[j]
    <3>1. \A j \in 1..(n - 1) : 1 + j - 1 = j
      OBVIOUS
    <3> QED BY <1>4, <1>7, <2>2, <2>3, <3>1, SubSeqProperties
  <2> QED BY <2>2, <2>3, <2>4
<1>9. ASSUME NEW d \in Registered \ {c}
      PROVE  /\ index_'[d] + 1 \in 1..(n - 1) /\ RecordOf(d)' = RecordOf(d)
             /\ index_'[d] = IF d = b THEN index_[c] ELSE index_[d]
  <2>1. /\ d \in Channels /\ c \in Channels /\ index_[d] \in Int /\ index_[c] \in Int
        /\ index_[d] + 1 \in 1..n /\ index_[d] # index_[c]
        /\ index_' = [index_ EXCEPT ![b] = index_[c]] /\ index_ \in [Channels -> Int]
    BY <1>1, <1>2, <1>4, PollNames DEF PollTables, MapOK
  <2>2. CASE d = b
    <3>1. index_'[d] = index_[c] /\ index_[c] + 1 \in 1..(n - 1)
      BY <1>2, <1>3, <1>7, <2>1, <2>2
    <3>2. RecordOf(d)' = fdlist_'[i] /\ i \in 1..(n - 1)
      BY <3>1 DEF RecordOf
    <3>3. RecordOf(d) = fdlist_[n]
      BY <1>3, <2>2 DEF RecordOf
    <3> HIDE DEF i, n
    <3> QED BY <1>8, <2>2, <3>1, <3>2, <3>3
  <2>3. CASE d # b
    <3>1. index_'[d] = index_[d]
      BY <2>1, <2>3
    <3>2. index_[d] # index_[b] /\ index_[b] \in Int
      BY <1>2, <1>3, <2>3 DEF PollTables, MapOK
    <3>3. index_[d] + 1 \in 1..(n - 1) /\ index_[d] + 1 # i
      BY <1>3, <1>7, <2>1, <3>2
    <3>4. RecordOf(d)' = fdlist_'[index_[d] + 1] /\ RecordOf(d) = fdlist_[index_[d] + 1]
      BY <3>1 DEF RecordOf
    <3> HIDE DEF i, n
    <3> QED BY <1>8, <2>3, <3>1, <3>3, <3>4
  <2> QED BY <2>2, <2>3
<1> HIDE DEF i, n
<1>10. MapOK'
  <2>1. index_' \in [Channels -> Int]
    BY <1>1, <1>2, <1>4 DEF MapOK
  <2> QED BY <1>1, <1>4, <1>6, <2>1 DEF MapOK
<1>11. PollTables'
  <2>1. \A d \in Registered \ {c} : Listed(d)' \/ Masked(d)'
    BY <1>1, <1>9 DEF Listed, Masked, PollTables
  <2>2. \A d, e \in Registered \ {c} : index_'[d] = index_'[e] => d = e
    BY <1>1, <1>3, <1>9 DEF PollTables
  <2>3. ASSUME NEW j \in 1..(n - 1) PROVE \E d \in Registered \ {c} : index_'[d] + 1 = j
    <3>1. j \in 1..n /\ j # n
      BY <1>7
    <3>2. PICK d \in Registered : index_[d] + 1 = j
      BY <3>1 DEF PollTables, n
    <3>3. d # b
      BY <1>3, <3>1, <3>2
    <3>4. CASE d # c
      BY <1>9, <3>2, <3>3, <3>4
    <3>5. CASE d = c
      BY <1>3, <1>9, <3>2, <3>3, <3>5
    <3> QED BY <3>4, <3>5
  <2> QED BY <1>6, <1>7, <1>8, <1>9, <2>1, <2>2, <2>3 DEF PollTables, n
<1>12. Cares(c) = {} /\ CaresAsBefore
  <2>1. Cares(c) = {} /\ Cares(c)' = {}
    BY <1>2, <1>6 DEF Cares, Silent, Masked
  <2>2. \A d \in Channels \ {c} : Cares(d)' = Cares(d)
    BY <1>1, <1>6, <1>9 DEF Cares, Silent
  <2> QED BY <2>1, <2>2 DEF CaresAsBefore
<1> QED BY <1>1, <1>4, <1>6, <1>10, <1>11, <1>12

(* What a poll reports, in the terms of the interface.                      *)
Answer(rd) ==
    /\ ready' = rd /\ status' = status
    /\ activeChannels' # {} /\ activeChannels' \subseteq Registered
    /\ \A c \in activeChannels' : revents_'[c] = rd[c] \cap Cares(c) /\ revents_'[c] # {}

(* An open fd has one channel.                                              *)
LEMMA ReadyOnFd ==
    ASSUME MapOK, NEW c \in open, NEW rd \in Ready
    PROVE  P!HoldsOn(FdOf[c], rd) = rd[c] /\ E!HoldsOn(FdOf[c], rd) = rd[c]
<1>1. {d \in open : FdOf[d] = FdOf[c]} = {c}
  BY DEF MapOK
<1>2. UNION {rd[d] : d \in {d \in open : FdOf[d] = FdOf[c]}} = rd[c]
  BY <1>1
<1> QED BY <1>2 DEF P!HoldsOn, E!HoldsOn

LEMMA PollPoll ==
    ASSUME MapOK, PollTables, multiplexer = "poll", multiplexer' = multiplexer,
           NEW rd \in Ready, P!Poll(rd)
    PROVE  /\ MapOK' /\ PollTables' /\ Registered' = Registered /\ CaresAsBefore
           /\ Answer(rd)
<1> DEFINE R == {i \in 1..Len(fdlist_) : P!DueAt(i, rd) # {}}
           chan(i) == fdMap_[fdlist_[i].fd]
<1>1. /\ R # {} /\ ready' = rd /\ P!fillActiveChannels(R, rd)
      /\ UNCHANGED <<open, events_, index_, fdlist_, fdMap_>>
  BY DEF P!Poll
<1>2. ASSUME NEW i \in R
      PROVE  \E c \in Registered :
               /\ index_[c] + 1 = i /\ fdlist_[i].fd \in DOMAIN fdMap_ /\ chan(i) = c
               /\ P!DueAt(i, rd) = rd[c] \cap Cares(c)
  <2>1. PICK c \in Registered : index_[c] + 1 = i
    BY DEF PollTables
  <2>2. RecordOf(c) = fdlist_[i] /\ FdOf[c] \in Nat /\ c \in open
    BY <2>1, PollNames, MapFacts
  <2>3. ~(fdlist_[i].fd < 0)
    BY DEF P!DueAt
  <2>4. ~Masked(c)
    BY <2>2, <2>3 DEF Masked
  <2>5. fdlist_[i].fd = FdOf[c] /\ fdlist_[i].events = events_[c]
    BY <2>2, <2>4 DEF PollTables, Listed
  <2>6. P!DueAt(i, rd) = (events_[c] \union {kErrorEvent}) \cap rd[c]
    BY <2>2, <2>3, <2>5, ReadyOnFd DEF P!DueAt, P!kErrorEvent, kErrorEvent
  <2>7. Cares(c) = events_[c] \union {kErrorEvent}
    BY <2>2, <2>4, <2>5 DEF Cares, Silent
  <2> QED BY <2>1, <2>5, <2>6, <2>7, MapFacts
<1>3. \A i \in R : fdlist_[i].fd \in DOMAIN fdMap_ /\ chan(i) \in Registered /\ index_[chan(i)] + 1 = i
  BY <1>2
<1>4. /\ activeChannels' = {chan(i) : i \in R}
      /\ revents_' = [c \in Channels |-> IF c \in activeChannels'
                      THEN P!Revents(CHOOSE i \in R : chan(i) = c, rd) ELSE {}]
      /\ UNCHANGED status
  BY <1>1, <1>3 DEF P!fillActiveChannels
<1>5. ASSUME NEW c \in activeChannels'
      PROVE  c \in Registered /\ revents_'[c] = rd[c] \cap Cares(c) /\ revents_'[c] # {}
  <2>1. PICK i \in R : chan(i) = c
    BY <1>4
  <2>2. c \in Registered /\ index_[c] + 1 = i /\ c \in Channels
    BY <1>3, <2>1, MapFacts
  <2>3. (CHOOSE j \in R : chan(j) = c) = i
    BY <1>3, <2>1, <2>2
  <2>4. revents_'[c] = P!DueAt(i, rd)
    BY <1>4, <2>2, <2>3 DEF P!Revents
  <2>5. P!DueAt(i, rd) = rd[c] \cap Cares(c) /\ P!DueAt(i, rd) # {}
    BY <1>2, <2>1
  <2> QED BY <2>2, <2>4, <2>5
<1>6. activeChannels' # {}
  BY <1>1, <1>4
<1>7. Answer(rd)
  BY <1>1, <1>4, <1>5, <1>6 DEF Answer
<1> HIDE DEF R, chan
<1>8. MapOK' /\ PollTables' /\ Registered' = Registered /\ CaresAsBefore
  BY <1>1, <1>4, MapFacts, PollSame DEF MapOK
<1> QED BY <1>7, <1>8

LEMMA PollOther ==
    ASSUME MapOK, PollTables, multiplexer = "poll", multiplexer' = multiplexer,
           \/ \E c \in Channels : P!Construct(c) \/ P!Destroy(c)
           \/ P!PollInterrupted
    PROVE  /\ MapOK' /\ PollTables' /\ Registered' = Registered /\ CaresAsBefore
           /\ NothingReported /\ status' = status
<1>1. ASSUME NEW c \in Channels, P!Construct(c)
      PROVE  /\ MapOK' /\ PollTables' /\ Registered' = Registered /\ CaresAsBefore
             /\ NothingReported /\ status' = status
  <2>1. /\ open' = open \union {c} /\ \A d \in open : FdOf[d] # FdOf[c]
        /\ UNCHANGED <<events_, index_, status, fdlist_, fdMap_>> /\ NothingReported
    BY <1>1 DEF P!Construct, P!ConstructFdChannel, P!PollResultIsNone, P!None, NothingReported
  <2>2. \A d, e \in open' : FdOf[d] = FdOf[e] => d = e
    BY <2>1 DEF MapOK
  <2> QED BY <2>1, <2>2, MapFacts, PollSame DEF MapOK
<1>2. ASSUME NEW c \in Channels, P!Destroy(c)
      PROVE  /\ MapOK' /\ PollTables' /\ Registered' = Registered /\ CaresAsBefore
             /\ NothingReported /\ status' = status
  <2>1. /\ open' = open \ {c} /\ c \notin Registered
        /\ events_' = [events_ EXCEPT ![c] = {}] /\ index_' = [index_ EXCEPT ![c] = -1]
        /\ UNCHANGED <<status, fdlist_, fdMap_>> /\ NothingReported
    BY <1>2, PollNames DEF P!Destroy, P!DestroyFdChannel, P!PollResultIsNone, P!None, NothingReported
  <2>2. /\ events_' \in [Channels -> SUBSET Events] /\ index_' \in [Channels -> Int]
        /\ \A d \in Registered : events_'[d] = events_[d] /\ index_'[d] = index_[d]
    BY <2>1, MapFacts DEF MapOK
  <2>3. \A d, e \in open' : FdOf[d] = FdOf[e] => d = e
    BY <2>1 DEF MapOK
  <2> QED BY <2>1, <2>2, <2>3, MapFacts, PollSame DEF MapOK
<1>3. ASSUME P!PollInterrupted
      PROVE  /\ MapOK' /\ PollTables' /\ Registered' = Registered /\ CaresAsBefore
             /\ NothingReported /\ status' = status
  <2>1. UNCHANGED <<open, events_, index_, status, fdlist_, fdMap_>> /\ NothingReported
    BY <1>3 DEF P!PollInterrupted, P!PollResultIsNone, P!None, NothingReported
  <2> QED BY <2>1, MapFacts, PollSame DEF MapOK
<1> QED BY <1>1, <1>2, <1>3
-----------------------------------------------------------------------------
(* Epoller.                                                                 *)
LEMMA EpollNames ==
    ASSUME MapOK, EpollTables
    PROVE  /\ E!Registered = Registered /\ Added \subseteq Registered
           /\ \A c \in Registered : IF E!Disabled(c)
                THEN index_[c] = 2 /\ c \notin Added
                ELSE index_[c] = 1 /\ c \in Added
           /\ \A c \in Channels : E!Disabled(c) => c \in Registered
           /\ \A c \in open : FdOf[c] \in DOMAIN epollset <=> c \in Added
           /\ \A fd \in DOMAIN epollset : \E c \in Added : FdOf[c] = fd
<1>1. E!Registered = Registered /\ Added \subseteq Registered
  BY DEF E!Registered, E!Range, Registered, Range, Added
<1>2. \A c \in Registered : E!Disabled(c) <=> index_[c] = 2
  BY <1>1 DEF E!Disabled, E!kDeleted
<1>3. \A c \in Registered : c \in Added <=> index_[c] = 1
  BY DEF Added
<1>4. \A c \in Registered : c \notin Added => index_[c] = 2
  BY DEF EpollTables
<1>5. \A c \in Channels : E!Disabled(c) => c \in Registered
  BY <1>1 DEF E!Disabled
<1>6. \A c \in open : FdOf[c] \in DOMAIN epollset <=> c \in Added
  BY <1>1, MapFacts DEF EpollTables, MapOK
<1>7. \A fd \in DOMAIN epollset : \E c \in Added : FdOf[c] = fd
  BY DEF EpollTables
<1> QED BY <1>1, <1>2, <1>3, <1>4, <1>5, <1>6, <1>7

LEMMA EpollSame ==
    ASSUME MapOK, EpollTables, multiplexer = "epoll", UNCHANGED <<multiplexer, fdMap_>>,
           DOMAIN epollset' = DOMAIN epollset, \A fd \in DOMAIN epollset : epollset'[fd] = epollset[fd],
           listSize' \in Nat \ {0}, status' \in {"running", "aborted", "exited"},
           Registered \subseteq open', open' \subseteq Channels,
           \A d, e \in open' : FdOf[d] = FdOf[e] => d = e,
           events_' \in [Channels -> SUBSET Events], index_' \in [Channels -> Int],
           \A d \in Registered : events_'[d] = events_[d] /\ index_'[d] = index_[d]
    PROVE  MapOK' /\ EpollTables' /\ Registered' = Registered /\ CaresAsBefore
<1>1. Registered' = Registered
  BY DEF Registered
<1>2. fdMap_' \in [DOMAIN fdMap_' -> open']
  BY DEF MapOK, Registered, Range
<1>3. MapOK'
  BY <1>2 DEF MapOK
<1>4. Added' = Added
  BY <1>1 DEF Added
<1>5. EpollTables'
  <2>1. \A d \in Added : FdOf[d] \in DOMAIN epollset /\ epollset'[FdOf[d]] = events_'[d]
    BY DEF EpollTables, Added
  <2>2. \A d \in Registered \ Added : index_'[d] = 2
    BY DEF EpollTables
  <2> QED BY <1>1, <1>4, <2>1, <2>2 DEF EpollTables
<1>6. CaresAsBefore
  BY <1>1 DEF CaresAsBefore, Cares, Silent
<1> QED BY <1>1, <1>3, <1>5, <1>6

LEMMA EpollUpdate ==
    ASSUME MapOK, EpollTables, multiplexer = "epoll", multiplexer' = multiplexer,
           NEW c \in Channels, NEW ev \in SUBSET Events, E!Update(c, ev), ~E!Disabled(c)
    PROVE  /\ MapOK' /\ EpollTables' /\ Registered' = Registered \union {c}
           /\ CaresOnly(c, ev \union {kErrorEvent}) /\ NothingReported
           /\ status' = status
<1>1. /\ ~E!Disabled(c) /\ c \in open /\ open' = open /\ events_' = [events_ EXCEPT ![c] = ev]
      /\ E!updateFdChannel(c, ev) /\ NothingReported
  BY DEF E!Update, E!SetEvents, E!PollResultIsNone, E!None, NothingReported
<1>2. /\ events_' \in [Channels -> SUBSET Events] /\ events_'[c] = ev
      /\ \A d \in Channels \ {c} : events_'[d] = events_[d]
  BY <1>1 DEF MapOK
<1>3. /\ Inserted(c) /\ UNCHANGED <<listSize, status>>
  BY <1>1 DEF E!updateFdChannel, E!Put, Inserted
<1>4. /\ fdMap_' \in [DOMAIN fdMap_' -> open'] /\ IsFiniteSet(DOMAIN fdMap_')
      /\ \A fd \in DOMAIN fdMap_' : FdOf[fdMap_'[fd]] = fd
      /\ Registered' = Registered \union {c}
  BY <1>1, <1>3, MapInsert
<1>5. /\ index_' \in [Channels -> Int] /\ index_'[c] = 1
      /\ \A d \in Channels \ {c} : index_'[d] = index_[d]
      /\ epollset' = E!Put(epollset, FdOf[c], ev)
  <2>1. CASE c \in Registered
    <3>1. FdOf[c] \in DOMAIN fdMap_ /\ index_[c] = 1 /\ FdOf[c] \in DOMAIN epollset
      BY <1>1, <2>1, MapFacts, EpollNames
    <3>2. index_' = index_ /\ epollset' = E!Put(epollset, FdOf[c], ev)
      BY <1>1, <3>1 DEF E!updateFdChannel, E!EPOLL_CTL_MOD
    <3> QED BY <3>1, <3>2 DEF MapOK
  <2>2. CASE c \notin Registered
    <3>1. FdOf[c] \notin DOMAIN fdMap_ /\ FdOf[c] \notin DOMAIN epollset
      BY <1>1, <2>2, MapFacts, EpollNames
    <3>2. index_' = [index_ EXCEPT ![c] = 1] /\ epollset' = E!Put(epollset, FdOf[c], ev)
      BY <1>1, <3>1 DEF E!updateFdChannel, E!EPOLL_CTL_ADD, E!kAdded
    <3> QED BY <3>2 DEF MapOK
  <2> QED BY <2>1, <2>2
<1>6. /\ DOMAIN epollset' = DOMAIN epollset \union {FdOf[c]} /\ epollset'[FdOf[c]] = ev
      /\ \A fd \in DOMAIN epollset \ {FdOf[c]} : epollset'[fd] = epollset[fd]
  BY <1>5 DEF E!Put
<1>7. MapOK'
  BY <1>1, <1>2, <1>3, <1>4, <1>5 DEF MapOK
<1>8. Added' = Added \union {c}
  BY <1>4, <1>5, MapFacts DEF Added
<1>9. EpollTables'
  <2>1. DOMAIN epollset' = {FdOf[d] : d \in Added'}
    BY <1>6, <1>8 DEF EpollTables
  <2>2. ASSUME NEW d \in Added' PROVE epollset'[FdOf[d]] = events_'[d]
    <3>1. CASE d = c
      BY <1>2, <1>6, <3>1
    <3>2. CASE d # c
      <4>1. d \in Added /\ d \in open /\ d \in Channels /\ FdOf[d] # FdOf[c]
        BY <1>1, <1>8, <3>2, MapFacts DEF Added, MapOK
      <4>2. FdOf[d] \in DOMAIN epollset /\ epollset[FdOf[d]] = events_[d]
        BY <4>1 DEF EpollTables
      <4> QED BY <1>2, <1>6, <3>2, <4>1, <4>2
    <3> QED BY <3>1, <3>2
  <2>3. \A d \in Registered' \ Added' : d \in Registered \ Added /\ d \in Channels \ {c}
    BY <1>4, <1>8, MapFacts
  <2>4. \A d \in Registered' \ Added' : index_'[d] = 2
    BY <1>5, <2>3 DEF EpollTables
  <2> QED BY <1>3, <2>1, <2>2, <2>4 DEF EpollTables
<1>10. CaresOnly(c, ev \union {kErrorEvent})
  <2>1. Cares(c)' = ev \union {kErrorEvent}
    BY <1>2, <1>4, <1>5 DEF Cares, Silent
  <2>2. \A d \in Channels \ {c} : Cares(d)' = Cares(d)
    BY <1>2, <1>4, <1>5 DEF Cares, Silent
  <2> QED BY <2>1, <2>2 DEF CaresOnly
<1> QED BY <1>1, <1>3, <1>4, <1>7, <1>9, <1>10

(* The kernel refuses the change of an fd that it does not list.            *)
LEMMA EpollUpdateDisabled ==
    ASSUME MapOK, EpollTables, multiplexer = "epoll", multiplexer' = multiplexer,
           NEW c \in Channels, NEW ev \in SUBSET Events, E!Update(c, ev), E!Disabled(c)
    PROVE  /\ MapOK' /\ EpollTables' /\ Registered' = Registered
           /\ CaresAsBefore /\ NothingReported /\ status' = status
<1>1. /\ c \in Registered /\ c \in open /\ open' = open /\ events_' = [events_ EXCEPT ![c] = ev]
      /\ E!updateFdChannel(c, ev) /\ NothingReported
  BY EpollNames DEF E!Update, E!SetEvents, E!PollResultIsNone, E!None, NothingReported
<1>2. /\ events_' \in [Channels -> SUBSET Events] /\ Registered \subseteq Channels
      /\ \A d \in Channels \ {c} : events_'[d] = events_[d]
  BY <1>1, MapFacts DEF MapOK
<1>3. /\ FdOf[c] \in DOMAIN fdMap_ /\ FdOf[c] \notin DOMAIN epollset
      /\ index_[c] = 2 /\ c \notin Added
  BY <1>1, MapFacts, EpollNames
<1>4. Inserted(c) /\ UNCHANGED <<listSize, status, index_, epollset>>
  BY <1>1, <1>3 DEF E!updateFdChannel, E!Put, E!EPOLL_CTL_MOD, Inserted
<1>5. fdMap_' = fdMap_
  BY <1>1, <1>4, MapInsert
<1>6. Registered' = Registered /\ Added' = Added
  BY <1>4, <1>5 DEF Registered, Added
<1>7. MapOK'
  BY <1>1, <1>2, <1>4, <1>5 DEF MapOK
<1>8. EpollTables'
  <2>1. \A d \in Added : epollset'[FdOf[d]] = events_'[d]
    BY <1>2, <1>3, <1>4 DEF EpollTables, Added
  <2> QED BY <1>4, <1>6, <2>1 DEF EpollTables
<1>9. CaresAsBefore
  BY <1>2, <1>3, <1>4, <1>6 DEF CaresAsBefore, Cares, Silent
<1> QED BY <1>1, <1>4, <1>6, <1>7, <1>8, <1>9

LEMMA EpollDisableAll ==
    ASSUME MapOK, EpollTables, multiplexer = "epoll", multiplexer' = multiplexer,
           NEW c \in Channels, E!DisableAll(c)
    PROVE  /\ MapOK' /\ EpollTables' /\ Registered' = Registered /\ c \in Registered
           /\ CaresOnly(c, {}) /\ NothingReported /\ status' = status
<1>1. /\ ~E!Disabled(c) /\ c \in Registered /\ c \in open
      /\ open' = open /\ events_' = [events_ EXCEPT ![c] = {}]
      /\ E!disableAllEvent(c) /\ NothingReported
  BY EpollNames DEF E!DisableAll, E!ClearEvents, E!SetEvents, E!PollResultIsNone, E!None, NothingReported
<1>2. /\ events_' \in [Channels -> SUBSET Events] /\ events_'[c] = {}
      /\ \A d \in Channels \ {c} : events_'[d] = events_[d]
  BY <1>1 DEF MapOK
<1>3. index_[c] = 1 /\ c \in Added
  BY <1>1, EpollNames
<1>4. /\ index_' = [index_ EXCEPT ![c] = 2] /\ epollset' = E!Without(epollset, FdOf[c])
      /\ UNCHANGED <<status, fdMap_, listSize>>
  BY <1>1, <1>3 DEF E!disableAllEvent, E!assert, E!kAdded, E!kDeleted, E!AfterDisable, E!EPOLL_CTL_DEL
<1>5. /\ index_' \in [Channels -> Int] /\ index_'[c] = 2
      /\ \A d \in Channels \ {c} : index_'[d] = index_[d]
  BY <1>4 DEF MapOK
<1>6. /\ DOMAIN epollset' = DOMAIN epollset \ {FdOf[c]}
      /\ \A fd \in DOMAIN epollset' : epollset'[fd] = epollset[fd]
  BY <1>4 DEF E!Without
<1>7. Registered' = Registered
  BY <1>4 DEF Registered
<1>8. MapOK'
  BY <1>1, <1>2, <1>4, <1>5 DEF MapOK
<1>9. Added' = Added \ {c} /\ Added \subseteq Registered /\ Registered \subseteq Channels
  BY <1>5, <1>7, MapFacts DEF Added
<1>10. EpollTables'
  <2>1. \A d \in Added \ {c} : FdOf[d] # FdOf[c]
    BY <1>1, <1>9, MapFacts
  <2>2. DOMAIN epollset' = {FdOf[d] : d \in Added'}
    BY <1>6, <1>9, <2>1 DEF EpollTables
  <2>3. \A d \in Added' : epollset'[FdOf[d]] = events_'[d]
    BY <1>2, <1>6, <1>9, <2>2 DEF EpollTables
  <2>4. \A d \in Registered' \ Added' : index_'[d] = 2
    BY <1>5, <1>7, <1>9 DEF EpollTables
  <2> QED BY <1>4, <2>2, <2>3, <2>4 DEF EpollTables
<1>11. CaresOnly(c, {})
  <2>1. Cares(c)' = {}
    BY <1>5 DEF Cares, Silent
  <2>2. \A d \in Channels \ {c} : Cares(d)' = Cares(d)
    BY <1>2, <1>5, <1>7 DEF Cares, Silent
  <2> QED BY <2>1, <2>2 DEF CaresOnly
<1> QED BY <1>1, <1>4, <1>7, <1>8, <1>10, <1>11

LEMMA EpollRemove ==
    ASSUME MapOK, EpollTables, multiplexer = "epoll", multiplexer' = multiplexer,
           NEW c \in Channels, E!Remove(c), events_[c] = {}
    PROVE  /\ MapOK' /\ EpollTables' /\ Registered' = Registered \ {c} /\ c \in Registered
           /\ Cares(c) = {} /\ CaresAsBefore /\ NothingReported /\ status' = status
<1>1. /\ E!Disabled(c) /\ c \in Registered /\ UNCHANGED <<open, events_>>
      /\ E!removeFdChannel(c) /\ NothingReported
  BY EpollNames DEF E!Remove, E!PollResultIsNone, E!None, NothingReported
<1>2. /\ index_[c] = 2 /\ c \notin Added
      /\ FdOf[c] \in DOMAIN fdMap_ /\ fdMap_[FdOf[c]] = c /\ Registered \subseteq Channels
  BY <1>1, EpollNames, MapFacts
<1>3. /\ index_' = [index_ EXCEPT ![c] = -1] /\ epollset' = epollset
      /\ Taken(c) /\ UNCHANGED <<status, listSize>>
  BY <1>1, <1>2 DEF E!removeFdChannel, E!assert, E!kNew, E!kAdded, E!kDeleted, E!Without, Taken
<1>4. /\ fdMap_' \in [DOMAIN fdMap_' -> open'] /\ IsFiniteSet(DOMAIN fdMap_')
      /\ \A fd \in DOMAIN fdMap_' : FdOf[fdMap_'[fd]] = fd
      /\ Registered' = Registered \ {c}
  BY <1>1, <1>3, MapRemove
<1>5. /\ index_' \in [Channels -> Int]
      /\ \A d \in Channels \ {c} : index_'[d] = index_[d]
  BY <1>3 DEF MapOK
<1>6. MapOK'
  BY <1>1, <1>3, <1>4, <1>5 DEF MapOK
<1>7. Added' = Added
  BY <1>2, <1>4, <1>5 DEF Added
<1>8. EpollTables'
  <2>1. \A d \in Registered' \ Added' : index_'[d] = 2
    BY <1>1, <1>2, <1>4, <1>5, <1>7 DEF EpollTables
  <2> QED BY <1>1, <1>3, <1>7, <2>1 DEF EpollTables
<1>9. Cares(c) = {} /\ CaresAsBefore
  <2>1. Cares(c) = {} /\ Cares(c)' = {}
    BY <1>2, <1>4 DEF Cares, Silent
  <2>2. \A d \in Channels \ {c} : Cares(d)' = Cares(d)
    BY <1>1, <1>4, <1>5 DEF Cares, Silent
  <2> QED BY <2>1, <2>2 DEF CaresAsBefore
<1> QED BY <1>1, <1>3, <1>4, <1>6, <1>8, <1>9

(* A removal whose assert fails.                                            *)
LEMMA EpollRemoveFails ==
    ASSUME MapOK, EpollTables, multiplexer = "epoll", multiplexer' = multiplexer,
           NEW c \in Channels, E!Remove(c), events_[c] # {}
    PROVE  /\ MapOK' /\ EpollTables' /\ Registered' = Registered /\ E!Disabled(c)
           /\ CaresAsBefore /\ NothingReported
<1>1. /\ E!Disabled(c) /\ UNCHANGED <<open, events_>> /\ E!removeFdChannel(c) /\ NothingReported
  BY DEF E!Remove, E!PollResultIsNone, E!None, NothingReported
<1>2. UNCHANGED <<index_, epollset, fdMap_, listSize>> /\ status' = "aborted"
  BY <1>1 DEF E!removeFdChannel, E!assert
<1> QED BY <1>1, <1>2, MapFacts, EpollSame DEF MapOK, EpollTables

LEMMA EpollPoll ==
    ASSUME MapOK, EpollTables, multiplexer = "epoll", multiplexer' = multiplexer,
           NEW rd \in Ready, NEW F \in SUBSET DOMAIN epollset, E!Poll(rd, F)
    PROVE  /\ MapOK' /\ EpollTables' /\ Registered' = Registered /\ CaresAsBefore
           /\ Answer(rd)
<1> DEFINE R == {fd \in DOMAIN epollset : E!Due(fd, rd) # {}}
<1>1. /\ R # {} /\ F \subseteq R /\ ready' = rd /\ E!fillActiveChannels(F, rd)
      /\ Cardinality(F) = (IF Cardinality(R) <= listSize THEN Cardinality(R) ELSE listSize)
      /\ listSize' = IF Cardinality(F) >= listSize THEN 2 * listSize ELSE listSize
      /\ UNCHANGED <<open, events_, index_, fdMap_, epollset>>
  BY SameCardinality DEF E!Poll, E!GrownList
<1>2. ASSUME NEW fd \in R
      PROVE  \E c \in Registered :
               /\ FdOf[c] = fd /\ fd \in DOMAIN fdMap_ /\ fdMap_[fd] = c
               /\ E!Due(fd, rd) = rd[c] \cap Cares(c)
  <2>1. PICK c \in Added : FdOf[c] = fd
    BY EpollNames
  <2>2. c \in Registered /\ c \in open /\ index_[c] = 1
    BY MapFacts DEF Added
  <2>3. E!Due(fd, rd) = (events_[c] \union {kErrorEvent}) \cap rd[c]
    BY <2>1, <2>2, ReadyOnFd DEF E!Due, E!kErrorEvent, kErrorEvent, EpollTables
  <2>4. Cares(c) = events_[c] \union {kErrorEvent}
    BY <2>2 DEF Cares, Silent
  <2> QED BY <2>1, <2>2, <2>3, <2>4, MapFacts
<1>3. /\ IsFiniteSet(R) /\ IsFiniteSet(F) /\ Cardinality(R) \in Nat \ {0}
      /\ listSize \in Nat \ {0}
  <2>1. R \subseteq DOMAIN fdMap_
    BY <1>2
  <2> QED BY <1>1, <2>1, FS_Subset, FS_EmptySet, FS_CardinalityType DEF MapOK, EpollTables
<1>4. /\ Cardinality(F) \in Nat \ {0} /\ Cardinality(F) <= listSize /\ listSize' \in Nat \ {0}
      /\ Cardinality(F) <= listSize' /\ F # {}
  <2>1. Cardinality(F) \in Nat \ {0} /\ Cardinality(F) <= listSize
    BY <1>1, <1>3
  <2>2. listSize' \in Nat \ {0} /\ Cardinality(F) <= listSize'
    BY <1>1, <1>3, <2>1
  <2> QED BY <1>3, <2>1, <2>2, FS_EmptySet
<1>5. /\ activeChannels' = {fdMap_[fd] : fd \in F}
      /\ revents_' = [c \in Channels |-> IF c \in activeChannels'
                                         THEN E!Revents(FdOf[c], rd) ELSE {}]
      /\ UNCHANGED status
  <2>1. F \subseteq DOMAIN fdMap_
    BY <1>1, <1>2
  <2> QED BY <1>1, <1>4, <2>1, SameCardinality DEF E!fillActiveChannels
<1>6. ASSUME NEW c \in activeChannels'
      PROVE  c \in Registered /\ revents_'[c] = rd[c] \cap Cares(c) /\ revents_'[c] # {}
  <2>1. PICK fd \in F : fdMap_[fd] = c
    BY <1>5
  <2>2. fd \in R
    BY <1>1
  <2>3. c \in Registered /\ FdOf[c] = fd /\ E!Due(fd, rd) = rd[c] \cap Cares(c)
    BY <1>2, <2>1, <2>2
  <2>4. c \in Channels /\ revents_'[c] = E!Due(fd, rd)
    BY <1>5, <2>3, MapFacts DEF E!Revents
  <2> QED BY <2>2, <2>3, <2>4
<1>7. Answer(rd)
  BY <1>1, <1>4, <1>5, <1>6 DEF Answer
<1> HIDE DEF R
<1>8. MapOK' /\ EpollTables' /\ Registered' = Registered /\ CaresAsBefore
  BY <1>1, <1>4, <1>5, MapFacts, EpollSame DEF MapOK
<1> QED BY <1>7, <1>8

LEMMA EpollOther ==
    ASSUME MapOK, EpollTables, multiplexer = "epoll", multiplexer' = multiplexer,
           \/ \E c \in Channels : E!Construct(c) \/ E!Destroy(c)
           \/ E!PollInterrupted
    PROVE  /\ MapOK' /\ EpollTables' /\ Registered' = Registered /\ CaresAsBefore
           /\ NothingReported /\ status' \in {status, "exited"}
<1>0. listSize \in Nat \ {0}
  BY DEF EpollTables
<1>1. ASSUME NEW c \in Channels, E!Construct(c)
      PROVE  /\ MapOK' /\ EpollTables' /\ Registered' = Registered /\ CaresAsBefore
             /\ NothingReported /\ status' = status
  <2>1. /\ open' = open \union {c} /\ \A d \in open : FdOf[d] # FdOf[c]
        /\ UNCHANGED <<events_, index_, status, epollset, listSize, fdMap_>> /\ NothingReported
    BY <1>1 DEF E!Construct, E!ConstructFdChannel, E!PollResultIsNone, E!None, NothingReported
  <2>2. \A d, e \in open' : FdOf[d] = FdOf[e] => d = e
    BY <2>1 DEF MapOK
  <2> QED BY <1>0, <2>1, <2>2, MapFacts, EpollSame DEF MapOK
<1>2. ASSUME NEW c \in Channels, E!Destroy(c)
      PROVE  /\ MapOK' /\ EpollTables' /\ Registered' = Registered /\ CaresAsBefore
             /\ NothingReported /\ status' = status
  <2>1. /\ open' = open \ {c} /\ c \in open /\ c \notin Registered
        /\ events_' = [events_ EXCEPT ![c] = {}] /\ index_' = [index_ EXCEPT ![c] = -1]
        /\ UNCHANGED <<status, listSize, fdMap_>> /\ NothingReported
        /\ epollset' = E!Without(epollset, FdOf[c])
    BY <1>2, EpollNames DEF E!Destroy, E!DestroyFdChannel, E!PollResultIsNone, E!None, NothingReported,
                            E!EPOLL_CTL_DEL
  <2>2. /\ events_' \in [Channels -> SUBSET Events] /\ index_' \in [Channels -> Int]
        /\ \A d \in Registered : events_'[d] = events_[d] /\ index_'[d] = index_[d]
    BY <2>1, MapFacts DEF MapOK
  <2>3. \A d, e \in open' : FdOf[d] = FdOf[e] => d = e
    BY <2>1 DEF MapOK
  <2>4. FdOf[c] \notin DOMAIN epollset
    BY <2>1, EpollNames
  <2>5. DOMAIN epollset' = DOMAIN epollset /\ \A fd \in DOMAIN epollset : epollset'[fd] = epollset[fd]
    BY <2>1, <2>4 DEF E!Without
  <2> QED BY <1>0, <2>1, <2>2, <2>3, <2>5, MapFacts, EpollSame DEF MapOK
<1>3. ASSUME E!PollInterrupted
      PROVE  /\ MapOK' /\ EpollTables' /\ Registered' = Registered /\ CaresAsBefore
             /\ NothingReported /\ status' = "exited"
  <2>1. /\ UNCHANGED <<open, events_, index_, fdMap_, epollset, listSize>> /\ NothingReported
        /\ status' = "exited"
    BY <1>3 DEF E!PollInterrupted, E!PollResultIsNone, E!None, NothingReported
  <2> QED BY <1>0, <2>1, MapFacts, EpollSame DEF MapOK
<1> QED BY <1>1, <1>2, <1>3
-----------------------------------------------------------------------------
(* What the interface sees of a step, in the terms of the lemmas above.     *)
Seen ==
    \/ \E c \in Channels, ev \in SUBSET Events :
         /\ Registered' = Registered \union {c}
         /\ CaresOnly(c, ev \union {kErrorEvent}) /\ NothingReported
    \/ \E c \in Channels :
         /\ c \in Registered /\ Registered' = Registered
         /\ CaresOnly(c, {}) /\ NothingReported
    \/ \E c \in Channels :
         /\ c \in Registered /\ Registered' = Registered \ {c}
         /\ Cares(c) = {} /\ CaresAsBefore /\ NothingReported
    \/ \E rd \in Ready : Registered' = Registered /\ CaresAsBefore /\ Answer(rd)
    \/ Registered' = Registered /\ CaresAsBefore /\ NothingReported

(* The two steps that meet a disabled channel in the wrong way, and apart   *)
(* from them only an fd beyond the array of PollerX makes a step abort.     *)
MeetsDisabled ==
    \E c \in Channels :
       \/ /\ multiplexer = "poll" /\ P!Disabled(c)
          /\ \E ev \in SUBSET Events : P!Update(c, ev)
       \/ /\ multiplexer = "epoll" /\ E!Disabled(c) /\ events_[c] # {}
          /\ E!Remove(c)
Survives ==
    \/ status' \in {status, "exited"} \/ MeetsDisabled
    \/ \E c \in Channels : FdOf[c] > FdLimit

LEMMA PollStep ==
    ASSUME IInv, multiplexer = "poll", multiplexer' = multiplexer, P!Next
    PROVE  IInv' /\ Seen /\ Survives
<1>1. MapOK /\ PollTables
  BY DEF IInv
<1> DEFINE Good == MapOK' /\ PollTables' /\ Seen /\ Survives
<1>2. ASSUME NEW c \in Channels, NEW ev \in SUBSET Events, P!Update(c, ev) PROVE Good
  <2>1. CASE ~P!Disabled(c)
    <3>1. /\ MapOK' /\ PollTables' /\ Registered' = Registered \union {c}
          /\ CaresOnly(c, ev \union {kErrorEvent}) /\ NothingReported
          /\ status' = status \/ FdOf[c] > FdLimit
      BY ONLY <1>1, <1>2, <2>1, c \in Channels, ev \in SUBSET Events, multiplexer = "poll",
              multiplexer' = multiplexer, PollUpdate
    <3> QED BY <3>1 DEF Seen, Survives
  <2>2. CASE P!Disabled(c)
    <3>1. /\ MapOK' /\ PollTables' /\ Registered' = Registered
          /\ CaresAsBefore /\ NothingReported
      BY ONLY <1>1, <1>2, <2>2, c \in Channels, ev \in SUBSET Events, multiplexer = "poll",
              multiplexer' = multiplexer, PollUpdateDisabled
    <3>2. MeetsDisabled
      BY <1>2, <2>2 DEF MeetsDisabled
    <3> QED BY <3>1, <3>2 DEF Seen, Survives
  <2> QED BY <2>1, <2>2
<1>3. ASSUME NEW c \in Channels, P!DisableAll(c) PROVE Good
  BY <1>1, <1>3, PollDisableAll DEF Seen, Survives
<1>4. ASSUME NEW c \in Channels, P!Remove(c) PROVE Good
  BY <1>1, <1>4, PollRemove DEF Seen, Survives
<1>5. ASSUME NEW rd \in Ready, P!Poll(rd) PROVE Good
  BY <1>1, <1>5, PollPoll DEF Seen, Survives, Answer
<1>6. ASSUME \/ \E c \in Channels : P!Construct(c) \/ P!Destroy(c)
             \/ P!PollInterrupted
      PROVE  Good
  BY <1>1, <1>6, PollOther DEF Seen, Survives
<1>7. Good
  <2>1. P!Events = Events /\ P!Ready = Ready
    BY DEF P!Events, Events, P!kReadEvent, kReadEvent, P!kWriteEvent, kWriteEvent, P!Ready, Ready
  <2>2. /\ \A c \in Channels, e \in Events : events_[c] \union {e} \in SUBSET Events
        /\ \A c \in Channels : events_[c] \ {P!kWriteEvent} \in SUBSET Events
    BY <1>1 DEF MapOK
  <2>3. CASE \E c \in Channels : \E e \in Events : P!Update(c, events_[c] \cup {e})
    BY <1>2, <2>2, <2>3
  <2>4. CASE \E c \in Channels : P!Update(c, events_[c] \ {P!kWriteEvent})
    BY <1>2, <2>2, <2>4
  <2>5. CASE \E c \in Channels : P!DisableAll(c) \/ P!Remove(c)
    BY <1>3, <1>4, <2>5
  <2>6. CASE \E rd \in Ready : P!Poll(rd)
    BY <1>5, <2>6
  <2> QED BY <1>6, <2>1, <2>3, <2>4, <2>5, <2>6 DEF P!Next
<1> QED BY <1>7 DEF IInv

LEMMA EpollStep ==
    ASSUME IInv, multiplexer = "epoll", multiplexer' = multiplexer, E!Next
    PROVE  IInv' /\ Seen /\ Survives
<1>1. MapOK /\ EpollTables
  BY DEF IInv
<1> DEFINE Good == MapOK' /\ EpollTables' /\ Seen /\ Survives
<1>2. ASSUME NEW c \in Channels, NEW ev \in SUBSET Events, E!Update(c, ev) PROVE Good
  <2>1. CASE ~E!Disabled(c)
    <3>1. /\ MapOK' /\ EpollTables' /\ Registered' = Registered \union {c}
          /\ CaresOnly(c, ev \union {kErrorEvent}) /\ NothingReported
          /\ status' = status
      BY ONLY <1>1, <1>2, <2>1, c \in Channels, ev \in SUBSET Events, multiplexer = "epoll",
              multiplexer' = multiplexer, EpollUpdate
    <3> QED BY <3>1 DEF Seen, Survives
  <2>2. CASE E!Disabled(c)
    <3>1. /\ MapOK' /\ EpollTables' /\ Registered' = Registered
          /\ CaresAsBefore /\ NothingReported /\ status' = status
      BY ONLY <1>1, <1>2, <2>2, c \in Channels, ev \in SUBSET Events, multiplexer = "epoll",
              multiplexer' = multiplexer, EpollUpdateDisabled
    <3> QED BY <3>1 DEF Seen, Survives
  <2> QED BY <2>1, <2>2
<1>3. ASSUME NEW c \in Channels, E!DisableAll(c) PROVE Good
  BY <1>1, <1>3, EpollDisableAll DEF Seen, Survives
<1>4. ASSUME NEW c \in Channels, E!Remove(c) PROVE Good
  <2>1. CASE events_[c] = {}
    BY <1>1, <1>4, <2>1, EpollRemove DEF Seen, Survives
  <2>2. CASE events_[c] # {}
    <3>1. /\ MapOK' /\ EpollTables' /\ Registered' = Registered /\ E!Disabled(c)
          /\ CaresAsBefore /\ NothingReported
      BY ONLY <1>1, <1>4, <2>2, c \in Channels, multiplexer = "epoll",
              multiplexer' = multiplexer, EpollRemoveFails
    <3>2. MeetsDisabled
      BY <1>4, <2>2, <3>1 DEF MeetsDisabled
    <3> QED BY <3>1, <3>2 DEF Seen, Survives
  <2> QED BY <2>1, <2>2
<1>5. ASSUME NEW rd \in Ready, NEW F \in SUBSET DOMAIN epollset, E!Poll(rd, F) PROVE Good
  BY <1>1, <1>5, EpollPoll DEF Seen, Survives, Answer
<1>6. ASSUME \/ \E c \in Channels : E!Construct(c) \/ E!Destroy(c)
             \/ E!PollInterrupted
      PROVE  Good
  BY <1>1, <1>6, EpollOther DEF Seen, Survives
<1>7. Good
  <2>1. E!Events = Events /\ E!Ready = Ready
    BY DEF E!Events, Events, E!kReadEvent, kReadEvent, E!kWriteEvent, kWriteEvent, E!Ready, Ready
  <2>2. /\ \A c \in Channels, e \in Events : events_[c] \union {e} \in SUBSET Events
        /\ \A c \in Channels : events_[c] \ {E!kWriteEvent} \in SUBSET Events
    BY <1>1 DEF MapOK
  <2>3. CASE \E c \in Channels : \E e \in Events : E!Update(c, events_[c] \cup {e})
    BY <1>2, <2>2, <2>3
  <2>4. CASE \E c \in Channels : E!Update(c, events_[c] \ {E!kWriteEvent})
    BY <1>2, <2>2, <2>4
  <2>5. CASE \E c \in Channels : E!DisableAll(c) \/ E!Remove(c)
    BY <1>3, <1>4, <2>5
  <2>6. CASE \E rd \in Ready : \E F \in SUBSET DOMAIN epollset : E!Poll(rd, F)
    BY <1>5, <2>6
  <2> QED BY <1>6, <2>1, <2>3, <2>4, <2>5, <2>6 DEF E!Next
<1> QED BY <1>7 DEF IInv

LEMMA Step ==
    ASSUME IInv, [Next]_vars
    PROVE  IInv' /\ (Seen \/ UNCHANGED vars) /\ Survives
<1>1. CASE multiplexer = "poll" /\ P!Next /\ multiplexer' = multiplexer
  BY <1>1, PollStep
<1>2. CASE multiplexer = "epoll" /\ E!Next /\ multiplexer' = multiplexer
  BY <1>2, EpollStep
<1>3. CASE UNCHANGED vars
  <2>1. /\ open' = open /\ events_' = events_ /\ index_' = index_ /\ status' = status
        /\ multiplexer' = multiplexer /\ fdMap_' = fdMap_ /\ fdlist_' = fdlist_
        /\ epollset' = epollset /\ listSize' = listSize
    BY <1>3 DEF vars, channels
  <2>2. MapOK' = MapOK
    BY <2>1 DEF MapOK
  <2>3. PollTables' = PollTables
    BY <2>1 DEF PollTables, Registered, Listed, Masked, RecordOf
  <2>4. EpollTables' = EpollTables
    BY <2>1 DEF EpollTables, Registered, Added
  <2> QED BY <1>3, <2>1, <2>2, <2>3, <2>4 DEF IInv, Survives
<1> QED BY <1>1, <1>2, <1>3 DEF Next
-----------------------------------------------------------------------------
(* What the interface calls registered and interest.                        *)
LEMMA NamesOfInterface ==
    IInv => /\ registered = Registered
            /\ interest = [c \in Channels |-> Cares(c)]
<1> SUFFICES ASSUME IInv PROVE registered = Registered /\ interest = [c \in Channels |-> Cares(c)]
  OBVIOUS
<1>1. registered = Registered
  BY DEF registered, Registered
<1>2. ASSUME NEW c \in Channels
      PROVE  interest[c] = Cares(c)
  <2>1. CASE multiplexer = "poll"
    BY <1>1, <2>1, PollNames DEF IInv, interest, Cares, Silent, Masked
  <2>2. CASE multiplexer = "epoll"
    BY <1>1, <2>2, EpollNames DEF IInv, interest, Cares, Silent
  <2> QED BY <2>1, <2>2 DEF IInv, MapOK
<1>3. interest = [c \in Channels |-> interest[c]]
  BY DEF interest
<1> QED BY <1>1, <1>2, <1>3

(* Each step of a multiplexer is one that the interface allows.             *)
LEMMA SeenByInterface ==
    ASSUME IInv, IInv', Seen
    PROVE  Interface!Next
<1>1. registered = Registered /\ interest = [c \in Channels |-> Cares(c)]
  BY NamesOfInterface
<1>2. registered' = Registered' /\ interest' = [c \in Channels |-> Cares(c)']
  <2>1. (IInv => /\ registered = Registered
                 /\ interest = [c \in Channels |-> Cares(c)])'
    BY NamesOfInterface, PTL
  <2> QED BY <2>1
<1>3. ASSUME NothingReported PROVE Interface!PollResultIsNone
  BY <1>3 DEF NothingReported, Interface!PollResultIsNone, Interface!None, reported
<1>4. ASSUME NEW c \in Channels, NEW ev, CaresOnly(c, ev)
      PROVE  interest' = [interest EXCEPT ![c] = ev]
  BY <1>1, <1>2, <1>4 DEF CaresOnly
<1>5. ASSUME CaresAsBefore PROVE interest' = interest
  BY <1>1, <1>2, <1>5 DEF CaresAsBefore
<1>6. ASSUME NEW c \in Channels, NEW ev \in SUBSET Events,
             Registered' = Registered \union {c}, CaresOnly(c, ev \union {kErrorEvent}), NothingReported
      PROVE  Interface!Next
  <2>1. Interface!Update(c, ev \union {kErrorEvent})
    BY <1>1, <1>2, <1>3, <1>4, <1>6 DEF Interface!Update
  <2>2. ev \union {kErrorEvent} \in SUBSET Conditions
    BY DEF Conditions
  <2> QED BY <2>1, <2>2 DEF Interface!Next
<1>7. ASSUME NEW c \in Channels, c \in Registered, Registered' = Registered,
             CaresOnly(c, {}), NothingReported
      PROVE  Interface!Next
  <2>1. Interface!DisableAll(c)
    BY <1>1, <1>2, <1>3, <1>4, <1>7 DEF Interface!DisableAll
  <2> QED BY <2>1 DEF Interface!Next
<1>8. ASSUME NEW c \in Channels, c \in Registered, Registered' = Registered \ {c},
             Cares(c) = {}, CaresAsBefore, NothingReported
      PROVE  Interface!Next
  <2>1. Interface!Remove(c)
    BY <1>1, <1>2, <1>3, <1>5, <1>8 DEF Interface!Remove
  <2> QED BY <2>1 DEF Interface!Next
<1>9. ASSUME NEW rd \in Ready, Registered' = Registered, CaresAsBefore, Answer(rd)
      PROVE  Interface!Next
  <2>1. /\ ready' = rd /\ activeChannels' # {} /\ activeChannels' \subseteq Registered
        /\ \A c \in activeChannels' : revents_'[c] = rd[c] \cap Cares(c) /\ revents_'[c] # {}
        /\ Registered \subseteq Channels
    BY <1>9, MapFacts DEF Answer, IInv
  <2>2. \A c \in Channels : reported'[c] = IF c \in activeChannels' THEN revents_'[c] ELSE {}
    BY DEF reported
  <2>3. reported' # Interface!None
    <3>1. PICK c \in activeChannels' : c \in Channels /\ revents_'[c] # {}
      BY <2>1
    <3> QED BY <2>2, <3>1 DEF Interface!None
  <2>4. ready' \in Interface!Ready
    BY <2>1 DEF Interface!Ready, Ready
  <2>5. \A c \in Channels : reported'[c] # {} =>
          c \in registered /\ reported'[c] = ready'[c] \cap interest[c]
    BY <1>1, <2>1, <2>2
  <2>6. Interface!Poll
    BY <1>1, <1>2, <1>5, <1>9, <2>3, <2>4, <2>5 DEF Interface!Poll
  <2> QED BY <2>6 DEF Interface!Next
<1>10. ASSUME Registered' = Registered, CaresAsBefore, NothingReported
       PROVE  Interface!Next
  <2>1. Interface!Idle
    BY <1>1, <1>2, <1>3, <1>5, <1>10 DEF Interface!Idle
  <2> QED BY <2>1 DEF Interface!Next
<1> QED BY <1>6, <1>7, <1>8, <1>9, <1>10 DEF Seen

LEMMA InterfaceInit == getDefaultIOMultiplexer => Interface!Init
<1> SUFFICES ASSUME getDefaultIOMultiplexer PROVE Interface!Init
  OBVIOUS
<1>1. /\ fdMap_ = <<>> /\ activeChannels = {} /\ ready = [c \in Channels |-> {}]
  BY DEF getDefaultIOMultiplexer, P!Init, P!ChannelsInit, P!None, E!Init, E!ChannelsInit, E!None
<1>2. registered = {}
  BY <1>1 DEF registered, Range
<1> QED BY <1>1, <1>2 DEF Interface!Init, Interface!None, interest, reported
-----------------------------------------------------------------------------
(* The tables that Poller and Epoller keep (IInv says how) are right in     *)
(* every state, for any channels, any fds and any order of insertions,      *)
(* disablings, removals, polls and reuses of fds.                           *)
THEOREM Invariance == Spec => []IInv
<1>1. IInv /\ [Next]_vars => IInv'
  BY Step
<1> QED BY InitInv, <1>1, PTL DEF Spec

(* Poller's vector, map and indexes, or Epoller's map and the kernel's      *)
(* list, agree with the channels: TablesAgree.                              *)
THEOREM TablesStayInAgreement == Spec => []TablesAgree
<1>1. IInv => TablesAgree
  <2> SUFFICES ASSUME IInv PROVE TablesAgree
    OBVIOUS
  <2>1. CASE multiplexer = "poll"
    <3>1. MapOK /\ PollTables
      BY <2>1 DEF IInv
    <3>2. \A c \in Registered : /\ P!IndexInRange(c)
                                /\ P!Slot(c).fd \in {FdOf[c], P!Masked(FdOf[c])}
                                /\ P!Slot(c).events = events_[c] \/ P!Disabled(c)
      BY <3>1, PollNames DEF Listed, Masked
    <3>3. P!Bookkeeping
      BY <3>1, <3>2, PollNames, MapFacts, SameCardinality DEF P!Bookkeeping, MapOK, PollTables
    <3> QED BY <2>1, <3>3 DEF TablesAgree
  <2>2. CASE multiplexer = "epoll"
    <3>1. MapOK /\ EpollTables
      BY <2>2 DEF IInv
    <3>2. {c \in Registered : ~E!Disabled(c)} = Added
      BY <3>1, EpollNames
    <3>3. E!KernelAgrees
      BY <3>1, <3>2, EpollNames DEF E!KernelAgrees, EpollTables
    <3> QED BY <2>2, <3>3 DEF TablesAgree
  <2> QED BY <2>1, <2>2 DEF IInv, MapOK
<1> QED BY <1>1, Invariance, PTL

(* Every reported fd finds its channel and no assert fails but the ones on  *)
(* a disabled channel that is updated (AbortsOnlyForDisabled), as long as   *)
(* no fd is beyond the array that PollerX has instead of a hash map.        *)
THEOREM OnlyDisabledChannelsAbort ==
    ASSUME \A c \in Channels : FdOf[c] <= FdLimit
    PROVE  Spec => AbortsOnlyForDisabled
<1> DEFINE Aborts == status' = "aborted" => MeetsDisabled
<1>1. IInv /\ [Next]_vars => [Aborts]_vars
  <2> SUFFICES ASSUME IInv, Next PROVE Aborts
    OBVIOUS
  <2>1. Survives
    BY Step
  <2>2. ~\E c \in Channels : FdOf[c] > FdLimit
    BY FdChannelAssumption, DefaultIOMultiplexerAssumption
  <2>3. status = "running"
    BY DEF Next, P!Next, E!Next
  <2> QED BY <2>1, <2>2, <2>3 DEF Survives
<1>2. [Aborts]_vars <=> [status' = "aborted" =>
         \E c \in Channels :
            \/ /\ multiplexer = "poll" /\ P!Disabled(c)
               /\ \E ev \in SUBSET Events : P!Update(c, ev)
            \/ /\ multiplexer = "epoll" /\ E!Disabled(c) /\ events_[c] # {}
               /\ E!Remove(c)]_vars
  BY DEF MeetsDisabled
<1> QED BY <1>1, <1>2, Invariance, PTL DEF Spec, AbortsOnlyForDisabled

(* The loop cannot tell Poller from Epoller: both implement IOMultiplexer   *)
(* (Refines), so a poll reports to each channel exactly the ready events    *)
(* that it cares about, whatever was registered and removed before.         *)
THEOREM BothImplementTheInterface == Spec => Refines
<1>1. getDefaultIOMultiplexer => Interface!Init
  BY InterfaceInit
<1>2. IInv /\ IInv' /\ [Next]_vars => [Interface!Next]_(Interface!mvars)
  <2> SUFFICES ASSUME IInv, IInv', [Next]_vars PROVE Interface!Next \/ UNCHANGED Interface!mvars
    OBVIOUS
  <2>1. CASE Seen
    BY <2>1, SeenByInterface
  <2>2. CASE UNCHANGED vars
    BY <2>2 DEF vars, channels, Interface!mvars, registered, interest, reported,
                P!Disabled, P!Registered, P!Range, P!SlotIs, P!IndexInRange, P!Slot,
                E!Disabled, E!Registered, E!Range, Range
  <2> QED BY <2>1, <2>2, Step
<1> QED BY <1>1, <1>2, Invariance, PTL DEF Spec, Refines, Interface!Spec
=============================================================================
