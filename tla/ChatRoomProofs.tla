---------------------------- MODULE ChatRoomProofs ----------------------------
(***************************************************************************)
(* Proofs about ChatRoom, for any set of clients and any number of lines:  *)
(* who is in the room, and that everybody sees the same conversation.      *)
(***************************************************************************)
EXTENDS ChatRoom, SequenceTheorems, TLAPS

Author == Clients \union {<<"garbled", c>> : c \in Clients}
Message == Author \X Nat
Stream == Seq(Message \union {Closed})
Functor == ({"send"} \X Message) \union {<<"destroy">>}
ConnStates == {"none", "kConnected", "closing", "kDisConnected"}

ClientObjects ==
    [process : {"new", "running", "ended"}, next_retryInterval_ : Nat,
     retryTimer : BOOLEAN, stop_ : BOOLEAN, conn : ConnStates,
     tcpConnectionPtr_ : BOOLEAN, m_connection : BOOLEAN,
     pendingFuncs_ : Seq(Functor), latch : {0, 1}, lines : Nat, sending : BOOLEAN]

TypeOK ==
    /\ client \in [Clients -> ClientObjects]
    /\ listening \in BOOLEAN /\ backlog \in Seq(Clients) /\ severed \subseteq Clients
    /\ up \in [Clients -> Stream] /\ down \in [Clients -> Stream]
    /\ received \in [Clients -> Seq(Message)]
    /\ server \in {"down", "up", "aborted"}
    /\ conn \in [Clients -> ConnStates] /\ m_connections \subseteq Clients
    /\ pendingFuncs_ \in Seq(Clients)
    /\ log \in Seq(Message) /\ joined \in [Clients -> Nat]
    /\ strays \subseteq {"up", "down"} \X Clients /\ misread \subseteq Clients

Distinct(s) == \A i, j \in DOMAIN s : s[i] = s[j] => i = j
Holds(s, e) == \E i \in DOMAIN s : s[i] = e
Waiting(c) == Holds(backlog, c)
InRoom(c) == conn[c] \in {"kConnected", "closing"}
Receiving(c) == InRoom(c) /\ ~Gone(c)
Whole(c) == Receiving(c) /\ <<"down", c>> \notin strays

(* A client that has no connection yet has left no trace: it connects once. *)
Fresh(c) == client[c].process # "ended" /\ client[c].conn = "none"

FreshClient(c) ==
    /\ client[c].retryTimer => client[c].process = "running"
    /\ client[c].retryTimer \/ client[c].process = "new" => Fresh(c)
    /\ Fresh(c) => /\ conn[c] = "none" /\ ~Waiting(c) /\ c \notin severed
                   /\ up[c] = <<>> /\ down[c] = <<>> /\ received[c] = <<>>
                   /\ client[c].pendingFuncs_ = <<>>
                   /\ client[c].latch = 1 /\ ~client[c].sending

FreshInv == \A c \in Clients : FreshClient(c)

(* The queues in front of the room and behind it hold a client once.        *)
RosterInv ==
    /\ RosterIsRight
    /\ Distinct(backlog) /\ Distinct(pendingFuncs_)
    /\ \A c \in Clients : /\ Waiting(c) => conn[c] = "none"
                          /\ Holds(pendingFuncs_, c) => conn[c] = "closing"

(* Nothing is sent to a client after the end of its stream, and nothing is  *)
(* there for one that has just been taken.                                  *)
IsOpen(s) == \A i \in DOMAIN s : s[i] # Closed
EndsOnce(s) == \A i \in DOMAIN s : s[i] = Closed => i = Len(s)

StreamOf(c) ==
    /\ IF c \in severed THEN EndsOnce(down[c]) ELSE IsOpen(down[c])
    /\ Gone(c) => down[c] = <<>> /\ client[c].conn = "none"
    /\ InRoom(c) \/ Waiting(c) => c \notin severed
    /\ Waiting(c) => received[c] = <<>> /\ down[c] = <<>>

StreamInv == \A c \in Clients : StreamOf(c)

(* What a client sees is a run of the log that starts where it joined.      *)
Seen(c) == received[c] \o Messages(down[c])

IsRun(s, t, start) ==
    /\ start + Len(s) <= Len(t)
    /\ \A i \in 1..Len(s) : s[i] = t[start + i]

RunOf(c) ==
    /\ IsRun(Seen(c), log, joined[c])
    /\ Whole(c) => joined[c] + Len(Seen(c)) = Len(log)

RunInv == \A c \in Clients : RunOf(c)

(* The lines of a client are in the order typed: in the log, behind them on *)
(* the way to the server, behind these in its loop, and then the next one.  *)
Entries(s) == {s[i] : i \in DOMAIN s}

InOrder(s) ==
    \A i, j \in DOMAIN s :
        i < j /\ Closed \notin {s[i], s[j]} /\ s[i][1] = s[j][1] => s[i][2] < s[j][2]

SendsIn(q) == {f[2] : f \in {g \in Entries(q) : g[1] = "send"}}

SendsInOrder(q) ==
    \A i, j \in DOMAIN q :
        i < j /\ q[i][1] = "send" /\ q[j][1] = "send" => q[i][2][2] < q[j][2][2]

Sends(c) == SendsIn(client[c].pendingFuncs_)
Typed(c) == IF client[c].sending THEN client[c].lines - 1 ELSE client[c].lines
Earlier(c, m) == m[2] <= Typed(c) /\ \A n \in Sends(c) : m[2] < n[2]

LinesOf(c) ==
    /\ InOrder(up[c])
    /\ \A m \in Entries(up[c]) \ {Closed} :
         m[1] = c /\ \A l \in Entries(log) : l[1] = c => l[2] < m[2]
    /\ ~Gone(c) =>
         /\ \A m \in Entries(log) : m[1] = c => Earlier(c, m)
         /\ \A m \in Entries(up[c]) \ {Closed} : Earlier(c, m)
         /\ \A m \in Sends(c) : m[1] = c /\ m[2] <= Typed(c)
         /\ SendsInOrder(client[c].pendingFuncs_)

GarbledOnce ==
    \A m \in Entries(log) : \A c \in Clients : m[1] = <<"garbled", c>> => c \in misread

LinesInv == InOrder(log) /\ GarbledOnce /\ \A c \in Clients : LinesOf(c)

IInv == TypeOK /\ FreshInv /\ RosterInv /\ StreamInv /\ RunInv /\ LinesInv
-----------------------------------------------------------------------------
LEMMA MessagesAreNotClosed == \A m \in Message : m # Closed
  BY DEF Message, Closed

LEMMA GarbledFacts ==
    ASSUME NEW c \in Clients
    PROVE  /\ Garbled(c) \in Message /\ Garbled(c)[1] = <<"garbled", c>>
           /\ \A d \in Clients : /\ Garbled(c)[1] # d
                                 /\ Garbled(c)[1] = <<"garbled", d>> => c = d
  BY GarbledAssumption DEF Garbled, Message, Author

LEMMA FunctorFacts ==
    /\ \A m \in Message : <<"send", m>> \in Functor
    /\ <<"destroy">> \in Functor
    /\ \A f \in Functor : f[1] = "send" => f[2] \in Message
    /\ <<"destroy">>[1] # "send"
    /\ \A m \in Message : <<"send", m>>[1] = "send" /\ <<"send", m>>[2] = m
  BY DEF Functor

(* The entries of a queue after its first was taken, or one was added.      *)
LEMMA TailEntries ==
    ASSUME NEW S, NEW s \in Seq(S), s # <<>>
    PROVE  /\ Tail(s) \in Seq(S) /\ Head(s) \in S /\ Head(s) = s[1] /\ 1 \in DOMAIN s
           /\ Len(s) \in Nat \ {0} /\ Len(Tail(s)) = Len(s) - 1
           /\ DOMAIN s = 1..Len(s) /\ DOMAIN Tail(s) = 1..Len(Tail(s))
           /\ \A i \in DOMAIN Tail(s) : i + 1 \in DOMAIN s /\ Tail(s)[i] = s[i + 1]
           /\ \A i \in DOMAIN Tail(s) : i + 1 # 1
           /\ \A i, j \in DOMAIN Tail(s) : /\ i < j => i + 1 < j + 1
                                           /\ i + 1 = j + 1 => i = j
  BY HeadTailProperties, LenProperties, ElementOfSeq

LEMMA AppendEntries ==
    ASSUME NEW S, NEW s \in Seq(S), NEW e \in S
    PROVE  /\ Append(s, e) \in Seq(S) /\ Append(s, e) # <<>>
           /\ Len(s) \in Nat /\ Len(Append(s, e)) = Len(s) + 1
           /\ DOMAIN s = 1..Len(s) /\ DOMAIN Append(s, e) = 1..(Len(s) + 1)
           /\ Append(s, e)[Len(s) + 1] = e
           /\ Len(s) + 1 \in DOMAIN Append(s, e) /\ Len(s) + 1 \notin DOMAIN s
           /\ \A i \in DOMAIN Append(s, e) : i = Len(s) + 1 \/ i \in DOMAIN s
           /\ \A i \in DOMAIN s : /\ i \in DOMAIN Append(s, e) /\ Append(s, e)[i] = s[i]
                                  /\ ~(Len(s) + 1 < i)
           /\ ~(Len(s) + 1 < Len(s) + 1)
  BY AppendProperties, LenProperties

LEMMA QueueAppend ==
    ASSUME NEW S, NEW s \in Seq(S), NEW e \in S
    PROVE  /\ \A d : Holds(Append(s, e), d) => Holds(s, d) \/ d = e
           /\ \A d : Holds(s, d) \/ d = e => Holds(Append(s, e), d)
           /\ Distinct(s) /\ ~Holds(s, e) => Distinct(Append(s, e))
<1> DEFINE t == Append(s, e)
<1>1. /\ Len(s) + 1 \in DOMAIN t /\ t[Len(s) + 1] = e
      /\ \A i \in DOMAIN t : i = Len(s) + 1 \/ (i \in DOMAIN s /\ t[i] = s[i])
      /\ \A i \in DOMAIN s : i \in DOMAIN t /\ t[i] = s[i]
  BY AppendEntries
<1> HIDE DEF t
<1>2. /\ \A d : Holds(t, d) => Holds(s, d) \/ d = e
      /\ \A d : Holds(s, d) \/ d = e => Holds(t, d)
      /\ Distinct(s) /\ ~Holds(s, e) => Distinct(t)
  BY ONLY <1>1 DEF Holds, Distinct
<1> QED BY <1>2 DEF t

LEMMA QueueTail ==
    ASSUME NEW S, NEW s \in Seq(S), s # <<>>
    PROVE  /\ Holds(s, Head(s)) /\ \A d : Holds(Tail(s), d) => Holds(s, d)
           /\ Distinct(s) => Distinct(Tail(s)) /\ ~Holds(Tail(s), Head(s))
<1> DEFINE t == Tail(s)
<1>1. /\ Head(s) = s[1] /\ 1 \in DOMAIN s
      /\ \A i \in DOMAIN t : i + 1 \in DOMAIN s /\ t[i] = s[i + 1] /\ i + 1 # 1
      /\ \A i, j \in DOMAIN t : i + 1 = j + 1 => i = j
  BY TailEntries
<1> HIDE DEF t
<1>2. Holds(s, Head(s)) /\ \A d : Holds(t, d) => Holds(s, d)
  BY <1>1 DEF Holds
<1>3. ASSUME Distinct(s) PROVE Distinct(t) /\ ~Holds(t, Head(s))
  BY <1>1, <1>3 DEF Holds, Distinct
<1> QED BY <1>2, <1>3 DEF t

(* Streams to clients: what is added to them, taken from them and seen.     *)
LEMMA StreamFacts ==
    ASSUME NEW s \in Stream
    PROVE  /\ IsOpen(s) => EndsOnce(s) /\ EndsOnce(Append(s, Closed))
           /\ \A m \in Message : IsOpen(s) => IsOpen(Append(s, m))
           /\ s # <<>> => /\ IsOpen(s) => IsOpen(Tail(s))
                          /\ EndsOnce(s) => EndsOnce(Tail(s))
           /\ IsOpen(<<>>) /\ EndsOnce(<<Closed>>) /\ EndsOnce(<<>>)
<1>1. ASSUME IsOpen(s)
      PROVE  /\ EndsOnce(s) /\ EndsOnce(Append(s, Closed))
             /\ \A m \in Message : IsOpen(Append(s, m))
  <2>1. \A m \in Message \union {Closed} :
          /\ Len(Append(s, m)) = Len(s) + 1 /\ Append(s, m)[Len(s) + 1] = m
          /\ \A i \in DOMAIN Append(s, m) : i = Len(s) + 1 \/ i \in DOMAIN s
          /\ \A i \in DOMAIN s : Append(s, m)[i] = s[i]
    BY AppendEntries DEF Stream
  <2> QED BY <1>1, <2>1, MessagesAreNotClosed DEF IsOpen, EndsOnce
<1>2. ASSUME s # <<>>, EndsOnce(s) PROVE EndsOnce(Tail(s))
  <2>1. /\ Len(s) \in Nat /\ Len(Tail(s)) = Len(s) - 1
        /\ DOMAIN Tail(s) = 1..Len(Tail(s))
        /\ \A i \in DOMAIN Tail(s) : i + 1 \in DOMAIN s /\ Tail(s)[i] = s[i + 1]
    BY <1>2, TailEntries DEF Stream
  <2>2. \A i \in DOMAIN Tail(s) : i \in Int
    BY <2>1
  <2>3. \A i \in DOMAIN Tail(s) : Tail(s)[i] = Closed => i + 1 = Len(s)
    BY <1>2, <2>1 DEF EndsOnce
  <2>4. \A i, n \in Int : i + 1 = n => i = n - 1
    OBVIOUS
  <2> QED BY <2>1, <2>2, <2>3, <2>4 DEF EndsOnce
<1>3. ASSUME s # <<>>, IsOpen(s) PROVE IsOpen(Tail(s))
  BY <1>3, TailEntries DEF IsOpen, Stream
<1>4. IsOpen(<<>>) /\ EndsOnce(<<Closed>>) /\ EndsOnce(<<>>)
  BY DEF IsOpen, EndsOnce
<1> QED BY <1>1, <1>2, <1>3, <1>4

(* What a client has seen of a stream is the messages in front of its end.  *)
LEMMA OpenFacts ==
    ASSUME NEW s \in Stream, IsOpen(s)
    PROVE  Messages(s) = s /\ s \in Seq(Message) /\ Messages(Append(s, Closed)) = s
<1>0. Len(s) \in Nat /\ DOMAIN s = 1..Len(s) /\ s \in Seq(Message \union {Closed})
  BY LenProperties DEF Stream
<1>1. Messages(s) = s
  <2>1. s # <<>> => Len(s) \in DOMAIN s
    BY <1>0
  <2> QED BY <2>1 DEF Messages, IsOpen
<1>2. s \in Seq(Message)
  <2>1. \A i \in 1..Len(s) : s[i] \in Message
    BY <1>0, ElementOfSeq DEF IsOpen
  <2>2. s = [i \in 1..Len(s) |-> s[i]]
    BY <1>0
  <2> QED BY <1>0, <2>1, <2>2, IsASeq
<1>3. Messages(Append(s, Closed)) = s
  <2> DEFINE t == Append(s, Closed)
  <2>1. /\ t # <<>> /\ Len(t) = Len(s) + 1 /\ t[Len(t)] = Closed
        /\ \A i \in 1..Len(s) : t[i] = s[i]
    BY <1>0, AppendEntries
  <2> HIDE DEF t
  <2>2. Messages(t) = SubSeq(t, 1, Len(s))
    BY <1>0, <2>1 DEF Messages
  <2>3. SubSeq(t, 1, Len(s)) = s
    <3> DEFINE u == SubSeq(t, 1, Len(s))
    <3>1. /\ u \in Seq(Message \union {Closed})
          /\ Len(u) = IF 1 <= Len(s) THEN Len(s) - 1 + 1 ELSE 0
          /\ \A i \in 1..Len(s) - 1 + 1 : u[i] = t[1 + i - 1]
      <4>1. \A i \in 1..Len(s) : t[i] \in Message \union {Closed}
        BY <1>0, <2>1, ElementOfSeq
      <4> QED BY <1>0, <4>1, SubSeqProperties
    <3> HIDE DEF u
    <3>2. Len(u) = Len(s) /\ \A i \in 1..Len(s) : u[i] = s[i]
      BY <1>0, <2>1, <3>1
    <3>3. u = s
      BY <1>0, <3>1, <3>2, SeqEqual
    <3> QED BY <3>3 DEF u
  <2> QED BY <2>2, <2>3 DEF t
<1> QED BY <1>1, <1>2, <1>3

LEMMA MessagesFacts ==
    ASSUME NEW s \in Stream
    PROVE  /\ EndsOnce(s) => Messages(s) \in Seq(Message)
           /\ EndsOnce(s) /\ s # <<>> =>
                IF Head(s) = Closed THEN Messages(s) = <<>> /\ Messages(Tail(s)) = <<>>
                ELSE Messages(s) = <<Head(s)>> \o Messages(Tail(s))
           /\ Messages(<<>>) = <<>> /\ Messages(<<Closed>>) = <<>>
<1>1. Messages(<<>>) = <<>> /\ Messages(<<Closed>>) = <<>>
  <2>1. SubSeq(<<Closed>>, 1, 0) = <<>>
    BY SubSeqEmpty
  <2> QED BY <2>1 DEF Messages
<1>2. \A u \in Seq(Message) : u # <<>> =>
        /\ Head(u) \in Message /\ Tail(u) \in Seq(Message) /\ u = <<Head(u)>> \o Tail(u)
  BY HeadTailProperties, ConcatProperties, SeqEqual
<1>3. \A u \in Seq(Message) : u \in Stream /\ IsOpen(u)
  <2> SUFFICES ASSUME NEW u \in Seq(Message) PROVE u \in Stream /\ IsOpen(u)
    OBVIOUS
  <2>1. \A i \in DOMAIN u : u[i] \in Message
    BY ElementOfSeq, LenProperties
  <2> QED BY <2>1, MessagesAreNotClosed, SeqMonotonic DEF IsOpen, Stream
<1>4. ASSUME EndsOnce(s)
      PROVE  s \in Seq(Message) \/ \E u \in Seq(Message) : s = Append(u, Closed)
  <2>1. CASE IsOpen(s)
    BY <2>1, OpenFacts
  <2>2. CASE ~IsOpen(s)
    <3>1. s # <<>> /\ s \in Seq(Message \union {Closed})
      BY <2>2 DEF IsOpen, Stream
    <3>2. PICK u \in Seq(Message \union {Closed}), e \in Message \union {Closed} :
            s = Append(u, e)
      BY <3>1, SequenceEmptyOrAppend
    <3>3. /\ Len(s) = Len(u) + 1 /\ s[Len(u) + 1] = e
          /\ \A i \in DOMAIN s : i = Len(u) + 1 \/ i \in DOMAIN u
          /\ \A i \in DOMAIN u : i \in DOMAIN s /\ s[i] = u[i] /\ i # Len(u) + 1
      BY <3>2, AppendEntries
    <3>4. IsOpen(u) /\ e = Closed
      BY <1>4, <2>2, <3>3 DEF EndsOnce, IsOpen
    <3>5. u \in Seq(Message)
      BY <3>4, OpenFacts DEF Stream
    <3> QED BY <3>2, <3>4, <3>5
  <2> QED BY <2>1, <2>2
<1>5. ASSUME NEW u \in Seq(Message), s = Append(u, Closed)
      PROVE  /\ Messages(s) = u
             /\ IF Head(s) = Closed THEN u = <<>> /\ Tail(s) = <<>>
                ELSE /\ u = <<Head(s)>> \o Messages(Tail(s))
  <2>1. u \in Stream /\ IsOpen(u) /\ Messages(s) = u
    BY <1>3, <1>5, OpenFacts
  <2>2. /\ Head(s) = IF u = <<>> THEN Closed ELSE Head(u)
        /\ Tail(s) = IF u = <<>> THEN <<>> ELSE Append(Tail(u), Closed)
    BY <1>5, HeadTailAppend
  <2>3. CASE u = <<>>
    BY <2>1, <2>2, <2>3
  <2>4. CASE u # <<>>
    <3>1. Head(u) \in Message /\ Tail(u) \in Seq(Message) /\ u = <<Head(u)>> \o Tail(u)
      BY <1>2, <2>4
    <3>2. Messages(Tail(s)) = Tail(u)
      BY <1>3, <2>2, <2>4, <3>1, OpenFacts
    <3> QED BY <2>1, <2>2, <2>4, <3>1, <3>2, MessagesAreNotClosed
  <2> QED BY <2>3, <2>4
<1>6. ASSUME s \in Seq(Message)
      PROVE  /\ Messages(s) = s
             /\ s # <<>> => Head(s) # Closed /\ s = <<Head(s)>> \o Messages(Tail(s))
  <2>1. Messages(s) = s
    BY <1>3, <1>6, OpenFacts
  <2>2. ASSUME s # <<>> PROVE Head(s) # Closed /\ s = <<Head(s)>> \o Messages(Tail(s))
    <3>1. Head(s) \in Message /\ Tail(s) \in Seq(Message) /\ s = <<Head(s)>> \o Tail(s)
      BY <1>2, <1>6, <2>2
    <3>2. Messages(Tail(s)) = Tail(s)
      BY <1>3, <3>1, OpenFacts
    <3> QED BY <3>1, <3>2, MessagesAreNotClosed
  <2> QED BY <2>1, <2>2
<1> QED BY <1>1, <1>4, <1>5, <1>6

(* Runs: the log grows, and the run with it or not; a part is a run too.    *)
LEMMA RunGrows ==
    ASSUME NEW s \in Seq(Message), NEW t \in Seq(Message), NEW start \in Nat,
           NEW m \in Message, IsRun(s, t, start)
    PROVE  /\ IsRun(s, Append(t, m), start)
           /\ start + Len(s) = Len(t) =>
                /\ IsRun(Append(s, m), Append(t, m), start)
                /\ start + Len(Append(s, m)) = Len(Append(t, m))
<1> DEFINE a == Append(s, m)
           b == Append(t, m)
<1>1. /\ Len(s) \in Nat /\ Len(t) \in Nat /\ Len(a) = Len(s) + 1 /\ Len(b) = Len(t) + 1
      /\ a[Len(s) + 1] = m /\ b[Len(t) + 1] = m
      /\ \A i \in 1..Len(s) : a[i] = s[i]
      /\ \A i \in 1..Len(t) : b[i] = t[i]
  BY AppendProperties, LenProperties
<1>2. start + Len(s) <= Len(t) /\ \A i \in 1..Len(s) : s[i] = t[start + i]
  BY DEF IsRun
<1> HIDE DEF a, b
<1>3. \A i \in 1..Len(s) : start + i \in 1..Len(t)
  BY <1>1, <1>2
<1>4. \A i \in 1..Len(s) : s[i] = b[start + i]
  BY <1>1, <1>2, <1>3
<1>5. IsRun(s, b, start)
  BY <1>1, <1>2, <1>4 DEF IsRun
<1>6. ASSUME start + Len(s) = Len(t) PROVE IsRun(a, b, start) /\ start + Len(a) = Len(b)
  <2>1. \A i \in 1..Len(a) : i \in 1..Len(s) \/ (i = Len(s) + 1 /\ start + i = Len(t) + 1)
    BY <1>1, <1>6
  <2>2. \A i \in 1..Len(a) : a[i] = b[start + i]
    BY <1>1, <1>4, <2>1
  <2>3. start + Len(a) = Len(b) /\ Len(b) \in Nat
    BY <1>1, <1>6
  <2>4. start + Len(a) <= Len(b)
    BY <2>3
  <2> QED BY <2>2, <2>3, <2>4, Zenon DEF IsRun
<1> QED BY <1>5, <1>6 DEF a, b

LEMMA RunPrefix ==
    ASSUME NEW s \in Seq(Message), NEW u \in Seq(Message), NEW t \in Seq(Message),
           NEW start \in Nat, IsRun(s \o u, t, start)
    PROVE  IsRun(s, t, start)
<1>1. /\ Len(s) \in Nat /\ Len(u) \in Nat /\ Len(t) \in Nat
      /\ Len(s \o u) = Len(s) + Len(u)
      /\ \A i \in 1..Len(s) : (s \o u)[i] = s[i]
  BY ConcatProperties, LenProperties
<1> DEFINE w == s \o u
<1>2. /\ start + Len(w) <= Len(t) /\ Len(w) = Len(s) + Len(u)
      /\ \A i \in 1..Len(w) : w[i] = t[start + i]
      /\ \A i \in 1..Len(s) : w[i] = s[i]
  BY <1>1 DEF IsRun
<1> HIDE DEF w
<1>3. start + Len(s) <= Len(t) /\ \A i \in 1..Len(s) : i \in 1..Len(w)
  BY <1>1, <1>2
<1>4. \A i \in 1..Len(s) : s[i] = t[start + i]
  BY ONLY <1>2, <1>3, Zenon
<1> QED BY ONLY <1>3, <1>4 DEF IsRun

LEMMA RunIsSubSeq ==
    ASSUME NEW s \in Seq(Message), NEW t \in Seq(Message), NEW start \in Nat,
           IsRun(s, t, start)
    PROVE  start + Len(s) <= Len(t) /\ s = SubSeq(t, start + 1, start + Len(s))
<1> DEFINE u == SubSeq(t, start + 1, start + Len(s))
<1>1. /\ Len(s) \in Nat /\ Len(t) \in Nat /\ start + Len(s) <= Len(t)
      /\ \A i \in 1..Len(s) : s[i] = t[start + i]
      /\ \A i \in 1..Len(t) : t[i] \in Message
  BY LenProperties, ElementOfSeq DEF IsRun
<1>2. /\ u \in Seq(Message)
      /\ Len(u) = IF start + 1 <= start + Len(s) THEN (start + Len(s)) - (start + 1) + 1 ELSE 0
      /\ \A i \in 1..((start + Len(s)) - (start + 1) + 1) : u[i] = t[(start + 1) + i - 1]
  <2>1. \A i \in (start + 1)..(start + Len(s)) : t[i] \in Message
    BY <1>1
  <2>2. start + 1 \in Int /\ start + Len(s) \in Int
    BY <1>1
  <2> QED BY ONLY <2>1, <2>2, SubSeqProperties
<1> HIDE DEF u
<1>3. Len(u) = Len(s) /\ \A i \in 1..Len(s) : u[i] = s[i]
  <2>1. Len(u) = Len(s)
    BY <1>1, <1>2
  <2>2. \A i \in 1..Len(s) : /\ i \in 1..((start + Len(s)) - (start + 1) + 1)
                             /\ (start + 1) + i - 1 = start + i
    BY <1>1
  <2> QED BY <1>1, <1>2, <2>1, <2>2
<1>4. s = u
  BY <1>2, <1>3, SeqEqual
<1> QED BY <1>1, <1>4 DEF u

(* Order: taking the first of a queue, adding to it, and losing its rest.   *)
LEMMA EntriesFacts ==
    ASSUME NEW S, NEW s \in Seq(S)
    PROVE  /\ Entries(s) \subseteq S
           /\ \A e \in S : Entries(Append(s, e)) = Entries(s) \union {e}
           /\ s # <<>> => Head(s) \in Entries(s) /\ Entries(Tail(s)) \subseteq Entries(s)
<1>1. Entries(s) \subseteq S
  BY ElementOfSeq, LenProperties DEF Entries
<1>2. ASSUME NEW e \in S PROVE Entries(Append(s, e)) = Entries(s) \union {e}
  <2> DEFINE t == Append(s, e)
  <2>1. /\ Len(s) + 1 \in DOMAIN t /\ t[Len(s) + 1] = e
        /\ \A i \in DOMAIN t : i = Len(s) + 1 \/ (i \in DOMAIN s /\ t[i] = s[i])
        /\ \A i \in DOMAIN s : i \in DOMAIN t /\ t[i] = s[i]
    BY AppendEntries
  <2> HIDE DEF t
  <2>2. Entries(t) = Entries(s) \union {e}
    BY ONLY <2>1, Zenon DEF Entries
  <2> QED BY <2>2 DEF t
<1>3. ASSUME s # <<>> PROVE Head(s) \in Entries(s) /\ Entries(Tail(s)) \subseteq Entries(s)
  <2> DEFINE t == Tail(s)
  <2>1. /\ Head(s) = s[1] /\ 1 \in DOMAIN s
        /\ \A i \in DOMAIN t : i + 1 \in DOMAIN s /\ t[i] = s[i + 1]
    BY <1>3, TailEntries
  <2> HIDE DEF t
  <2>2. Head(s) \in Entries(s)
    BY ONLY <2>1, Zenon DEF Entries
  <2>3. ASSUME NEW i \in DOMAIN t PROVE t[i] \in Entries(s)
    <3>1. i + 1 \in DOMAIN s /\ t[i] = s[i + 1]
      BY <2>1
    <3> QED BY ONLY <3>1, Zenon DEF Entries
  <2>4. Entries(t) \subseteq Entries(s)
    BY ONLY <2>3, Zenon DEF Entries
  <2> QED BY <2>2, <2>4 DEF t
<1> QED BY <1>1, <1>2, <1>3

Before(x, y) == Closed \notin {x, y} /\ x[1] = y[1] => x[2] < y[2]

LEMMA OrderFacts ==
    ASSUME NEW S, NEW s \in Seq(S), InOrder(s)
    PROVE  /\ \A e \in S : (\A x \in Entries(s) : Before(x, e)) => InOrder(Append(s, e))
           /\ s # <<>> => /\ InOrder(Tail(s))
                          /\ \A x \in Entries(Tail(s)) : Before(Head(s), x)
           /\ \A n \in 0..Len(s) : InOrder(SubSeq(s, 1, n)) /\ Entries(SubSeq(s, 1, n)) \subseteq Entries(s)
<1> USE DEF Before
<1>1. ASSUME NEW e \in S, \A x \in Entries(s) : Before(x, e) PROVE InOrder(Append(s, e))
  <2> DEFINE t == Append(s, e)
  <2>1. /\ t[Len(s) + 1] = e
        /\ \A i \in DOMAIN t : i = Len(s) + 1 \/ (i \in DOMAIN s /\ t[i] = s[i])
        /\ \A i \in DOMAIN s : ~(Len(s) + 1 < i)
        /\ ~(Len(s) + 1 < Len(s) + 1)
    BY AppendEntries
  <2>2. \A i \in DOMAIN s : s[i] \in Entries(s)
    BY DEF Entries
  <2> HIDE DEF t
  <2>3. SUFFICES ASSUME NEW i \in DOMAIN t, NEW j \in DOMAIN t, i < j PROVE Before(t[i], t[j])
    BY DEF InOrder, t
  <2>4. i \in DOMAIN s /\ t[i] = s[i]
    BY <2>1, <2>3
  <2>5. CASE j = Len(s) + 1
    BY <1>1, <2>1, <2>2, <2>4, <2>5
  <2>6. CASE j # Len(s) + 1
    BY <2>1, <2>3, <2>4, <2>6 DEF InOrder
  <2> QED BY <2>5, <2>6
<1>2. ASSUME s # <<>>
      PROVE  InOrder(Tail(s)) /\ \A x \in Entries(Tail(s)) : Before(Head(s), x)
  <2> DEFINE t == Tail(s)
  <2>1. /\ Head(s) = s[1] /\ 1 \in DOMAIN s
        /\ \A i \in DOMAIN t : i + 1 \in DOMAIN s /\ t[i] = s[i + 1] /\ 1 < i + 1
        /\ \A i, j \in DOMAIN t : i < j => i + 1 < j + 1
    <3>1. /\ DOMAIN t = 1..Len(t) /\ Len(t) \in Nat
          /\ \A i \in 1..Len(t) : 1 < i + 1
      BY <1>2, TailEntries, LenProperties
    <3> QED BY <1>2, <3>1, TailEntries
  <2> HIDE DEF t
  <2>2. InOrder(t) /\ \A x \in Entries(t) : Before(s[1], x)
    BY <2>1 DEF InOrder, Entries
  <2> QED BY <2>1, <2>2 DEF t
<1>3. ASSUME NEW n \in 0..Len(s)
      PROVE  InOrder(SubSeq(s, 1, n)) /\ Entries(SubSeq(s, 1, n)) \subseteq Entries(s)
  <2> DEFINE t == SubSeq(s, 1, n)
  <2>1. Len(s) \in Nat /\ DOMAIN s = 1..Len(s) /\ \A i \in 1..n : s[i] \in S
    BY LenProperties, ElementOfSeq
  <2>2. /\ t \in Seq(S) /\ Len(t) = IF 1 <= n THEN n - 1 + 1 ELSE 0
        /\ \A i \in 1..n - 1 + 1 : t[i] = s[1 + i - 1]
    BY <2>1, SubSeqProperties
  <2> HIDE DEF t
  <2>3. DOMAIN t = 1..n /\ \A i \in 1..n : i \in DOMAIN s /\ t[i] = s[i]
    BY <2>1, <2>2, LenProperties
  <2>4. InOrder(t) /\ Entries(t) \subseteq Entries(s)
    BY <2>3 DEF InOrder, Entries
  <2> QED BY <2>4 DEF t
<1> QED BY <1>1, <1>2, <1>3

LEMMA CutFacts ==
    ASSUME NEW s \in Stream, NEW n \in 0..Len(s), InOrder(s)
    PROVE  InOrder(Cut(s, n)) /\ Entries(Cut(s, n)) \ {Closed} \subseteq Entries(s) \ {Closed}
<1> DEFINE t == SubSeq(s, 1, n)
<1>1. t \in Seq(Message \union {Closed}) /\ s \in Seq(Message \union {Closed})
  BY SubSeqProperties, LenProperties DEF Stream
<1>2. InOrder(t) /\ Entries(t) \subseteq Entries(s)
  BY ONLY <1>1, OrderFacts, InOrder(s), n \in 0..Len(s)
<1> HIDE DEF t
<1>3. InOrder(Append(t, Closed)) /\ Entries(Append(t, Closed)) = Entries(t) \union {Closed}
  BY <1>1, <1>2, OrderFacts, EntriesFacts DEF Before
<1> QED BY <1>2, <1>3 DEF Cut, t

(* What a client still sees of a stream that is cut.                        *)
LEMMA CutOpen ==
    ASSUME NEW s \in Stream, IsOpen(s), NEW n \in 0..Len(s)
    PROVE  /\ EndsOnce(Cut(s, n))
           /\ Messages(Cut(s, n)) = SubSeq(s, 1, n)
<1> DEFINE t == SubSeq(s, 1, n)
<1>1. Len(s) \in Nat /\ DOMAIN s = 1..Len(s) /\ \A i \in 1..n : s[i] \in Message \union {Closed}
  BY LenProperties, ElementOfSeq DEF Stream
<1>2. /\ t \in Seq(Message \union {Closed}) /\ Len(t) = IF 1 <= n THEN n - 1 + 1 ELSE 0
      /\ \A i \in 1..n - 1 + 1 : t[i] = s[1 + i - 1]
  BY <1>1, SubSeqProperties
<1> HIDE DEF t
<1>3. DOMAIN t = 1..n /\ \A i \in 1..n : i \in DOMAIN s /\ t[i] = s[i]
  BY <1>1, <1>2, LenProperties
<1>4. t \in Stream /\ IsOpen(t)
  BY <1>2, <1>3 DEF IsOpen, Stream
<1>5. EndsOnce(Append(t, Closed)) /\ Messages(Append(t, Closed)) = t
  BY <1>4, StreamFacts, OpenFacts
<1> QED BY <1>5 DEF Cut, t

LEMMA CutRun ==
    ASSUME NEW r \in Seq(Message), NEW s \in Seq(Message), NEW n \in 0..Len(s),
           NEW t \in Seq(Message), NEW start \in Nat, IsRun(r \o s, t, start)
    PROVE  /\ r \o SubSeq(s, 1, n) \in Seq(Message)
           /\ IsRun(r \o SubSeq(s, 1, n), t, start)
<1> DEFINE p == SubSeq(s, 1, n)
<1>1. Len(s) \in Nat /\ n \in Nat /\ n <= Len(s) /\ \A i \in 1..Len(s) : s[i] \in Message
  BY LenProperties, ElementOfSeq
<1>2. /\ p \in Seq(Message) /\ Len(p) = n
      /\ \A i \in 1..n : p[i] = s[i]
  <2>1. /\ p \in Seq(Message) /\ Len(p) = IF 1 <= n THEN n - 1 + 1 ELSE 0
        /\ \A i \in 1..n - 1 + 1 : p[i] = s[1 + i - 1]
    BY <1>1, SubSeqProperties
  <2> HIDE DEF p
  <2> QED BY <1>1, <2>1
<1> HIDE DEF p
<1>3. /\ r \o p \in Seq(Message) /\ Len(r) \in Nat
      /\ Len(r \o p) = Len(r) + n /\ Len(r \o s) = Len(r) + Len(s)
      /\ \A i \in 1..(Len(r) + n) : (r \o p)[i] = IF i <= Len(r) THEN r[i] ELSE p[i - Len(r)]
      /\ \A i \in 1..(Len(r) + Len(s)) : (r \o s)[i] = IF i <= Len(r) THEN r[i] ELSE s[i - Len(r)]
  BY <1>1, <1>2, ConcatProperties, LenProperties
<1>4. ASSUME NEW i \in 1..(Len(r) + n)
      PROVE  i \in 1..(Len(r) + Len(s)) /\ (r \o p)[i] = (r \o s)[i]
  BY <1>1, <1>2, <1>3
<1> DEFINE a == r \o p
           b == r \o s
<1>5. /\ start + Len(b) <= Len(t) /\ Len(t) \in Nat
      /\ \A i \in 1..Len(b) : b[i] = t[start + i]
  BY LenProperties DEF IsRun
<1>6. IsRun(a, t, start)
  <2>1. Len(a) = Len(r) + n /\ Len(b) = Len(r) + Len(s)
    BY <1>3
  <2>2. \A i \in 1..Len(a) : i \in 1..Len(b) /\ a[i] = b[i]
    BY <1>4, <2>1
  <2> HIDE DEF a, b
  <2>3. start + Len(a) <= Len(t)
    BY <1>1, <1>3, <1>5, <2>1
  <2>4. \A i \in 1..Len(a) : a[i] = t[start + i]
    BY ONLY <1>5, <2>2, Zenon
  <2> QED BY ONLY <2>3, <2>4 DEF IsRun
<1> QED BY <1>3, <1>6 DEF p

LEMMA SendsFacts ==
    ASSUME NEW q \in Seq(Functor), SendsInOrder(q)
    PROVE  /\ SendsIn(q) \subseteq Message
           /\ SendsInOrder(Append(q, <<"destroy">>)) /\ SendsIn(Append(q, <<"destroy">>)) = SendsIn(q)
           /\ \A m \in Message :
                /\ SendsIn(Append(q, <<"send", m>>)) = SendsIn(q) \union {m}
                /\ (\A l \in SendsIn(q) : l[2] < m[2]) => SendsInOrder(Append(q, <<"send", m>>))
           /\ q # <<>> =>
                /\ SendsInOrder(Tail(q)) /\ SendsIn(Tail(q)) \subseteq SendsIn(q)
                /\ Head(q)[1] = "send" =>
                     /\ Head(q)[2] \in SendsIn(q)
                     /\ \A n \in SendsIn(Tail(q)) : Head(q)[2][2] < n[2]
<1>1. Entries(q) \subseteq Functor /\ SendsIn(q) \subseteq Message
  BY EntriesFacts, FunctorFacts DEF SendsIn
<1>2. ASSUME NEW f \in Functor
      PROVE  /\ SendsIn(Append(q, f)) = SendsIn(q) \union (IF f[1] = "send" THEN {f[2]} ELSE {})
             /\ (f[1] = "send" => \A l \in SendsIn(q) : l[2] < f[2][2])
                  => SendsInOrder(Append(q, f))
  <2> DEFINE t == Append(q, f)
  <2>1. Entries(t) = Entries(q) \union {f}
    BY EntriesFacts
  <2>2. /\ t[Len(q) + 1] = f
        /\ \A i \in DOMAIN t : i = Len(q) + 1 \/ (i \in DOMAIN q /\ t[i] = q[i])
        /\ \A i \in DOMAIN q : ~(Len(q) + 1 < i)
        /\ ~(Len(q) + 1 < Len(q) + 1)
    BY AppendEntries
  <2> HIDE DEF t
  <2>3. SendsIn(t) = SendsIn(q) \union (IF f[1] = "send" THEN {f[2]} ELSE {})
    BY ONLY <2>1 DEF SendsIn
  <2>4. ASSUME f[1] = "send" => \A l \in SendsIn(q) : l[2] < f[2][2] PROVE SendsInOrder(t)
    <3>1. \A i \in DOMAIN q : q[i][1] = "send" => q[i][2] \in SendsIn(q)
      BY DEF SendsIn, Entries
    <3>2. SUFFICES ASSUME NEW i \in DOMAIN t, NEW j \in DOMAIN t, i < j,
                          t[i][1] = "send", t[j][1] = "send"
                   PROVE  t[i][2][2] < t[j][2][2]
      BY DEF SendsInOrder
    <3>3. i \in DOMAIN q /\ t[i] = q[i]
      BY <2>2, <3>2
    <3>4. CASE j = Len(q) + 1
      BY <2>2, <2>4, <3>1, <3>2, <3>3, <3>4
    <3>5. CASE j # Len(q) + 1
      BY <2>2, <3>2, <3>3, <3>5 DEF SendsInOrder
    <3> QED BY <3>4, <3>5
  <2> QED BY <2>3, <2>4 DEF t
<1>3. SendsInOrder(Append(q, <<"destroy">>)) /\ SendsIn(Append(q, <<"destroy">>)) = SendsIn(q)
  BY <1>2, FunctorFacts
<1>4. ASSUME NEW m \in Message
      PROVE  /\ SendsIn(Append(q, <<"send", m>>)) = SendsIn(q) \union {m}
             /\ (\A l \in SendsIn(q) : l[2] < m[2]) => SendsInOrder(Append(q, <<"send", m>>))
  <2> DEFINE f == <<"send", m>>
  <2>1. f \in Functor /\ f[1] = "send" /\ f[2] = m
    BY FunctorFacts
  <2> HIDE DEF f
  <2>2. /\ SendsIn(Append(q, f)) = SendsIn(q) \union {m}
        /\ (\A l \in SendsIn(q) : l[2] < m[2]) => SendsInOrder(Append(q, f))
    BY <1>2, <2>1
  <2> QED BY <2>2 DEF f
<1>5. ASSUME q # <<>>
      PROVE  /\ SendsInOrder(Tail(q)) /\ SendsIn(Tail(q)) \subseteq SendsIn(q)
             /\ Head(q)[1] = "send" =>
                   /\ Head(q)[2] \in SendsIn(q)
                   /\ \A n \in SendsIn(Tail(q)) : Head(q)[2][2] < n[2]
  <2> DEFINE t == Tail(q)
  <2>1. /\ Head(q) = q[1] /\ 1 \in DOMAIN q
        /\ \A i \in DOMAIN t : i + 1 \in DOMAIN q /\ t[i] = q[i + 1] /\ 1 < i + 1
        /\ \A i, j \in DOMAIN t : i < j => i + 1 < j + 1
    <3>1. /\ DOMAIN t = 1..Len(t) /\ Len(t) \in Nat
          /\ \A i \in 1..Len(t) : 1 < i + 1
      BY <1>5, TailEntries, LenProperties
    <3> QED BY <1>5, <3>1, TailEntries
  <2> HIDE DEF t
  <2>2. SendsInOrder(t)
    BY <2>1 DEF SendsInOrder
  <2>3. SendsIn(t) \subseteq SendsIn(q)
    BY <2>1 DEF SendsIn, Entries
  <2>4. ASSUME q[1][1] = "send"
        PROVE  q[1][2] \in SendsIn(q) /\ \A n \in SendsIn(t) : q[1][2][2] < n[2]
    BY <2>1, <2>4 DEF SendsIn, Entries, SendsInOrder
  <2> QED BY <2>1, <2>2, <2>3, <2>4 DEF t
<1> QED BY <1>1, <1>3, <1>4, <1>5
-----------------------------------------------------------------------------
LEMMA InitInv == Init => IInv
<1> SUFFICES ASSUME Init PROVE IInv
  OBVIOUS
<1> USE DEF Init, ClientInit
<1>1. NewClient \in ClientObjects /\ Len(<<>>) = 0 /\ DOMAIN <<>> = {}
  BY DEF NewClient, ClientObjects, ConnStates
<1>2. TypeOK
  <2>1. /\ <<>> \in Seq(Message) /\ <<>> \in Seq(Clients)
        /\ <<>> \in Seq(Message \union {Closed})
    BY EmptySeq
  <2> QED BY <1>1, <2>1 DEF TypeOK, Stream, ConnStates
<1>3. FreshInv /\ RosterInv
  BY DEF FreshInv, FreshClient, Fresh, Waiting, Holds, NewClient, RosterInv, RosterIsRight, Distinct
<1>4. StreamInv
  BY <1>1 DEF StreamInv, StreamOf, IsOpen, Gone, InRoom, Waiting, Holds, NewClient
<1>5. ASSUME NEW c \in Clients PROVE Seen(c) = <<>> /\ joined[c] = 0 /\ ~Receiving(c)
  BY DEF Seen, Messages, InRoom, Receiving
<1>6. RunInv
  <2> SUFFICES ASSUME NEW c \in Clients
               PROVE  IsRun(Seen(c), log, joined[c]) /\ ~Receiving(c)
    BY DEF RunInv, RunOf, Whole
  <2>1. Seen(c) = <<>> /\ joined[c] = 0 /\ Len(log) = 0 /\ ~Receiving(c)
    BY <1>1, <1>5
  <2> QED BY <1>1, <2>1 DEF IsRun
<1>7. LinesInv
  BY DEF LinesInv, LinesOf, InOrder, GarbledOnce, Entries, Sends, SendsIn, SendsInOrder, NewClient
<1> QED BY <1>2, <1>3, <1>4, <1>6, <1>7 DEF IInv

LEMMA TypeStep == IInv /\ [Next]_vars => TypeOK'
<1> SUFFICES ASSUME TypeOK, [Next]_vars PROVE TypeOK'
  BY DEF IInv
<1> USE DEF TypeOK
<1>1. <<>> \in Stream /\ <<>> \in Seq(Clients) /\ Closed \in Message \union {Closed}
  BY EmptySeq DEF Stream
<1>2. \A s \in Stream : \A m \in Message \union {Closed} : Append(s, m) \in Stream
  BY AppendProperties DEF Stream
<1>3. \A s \in Stream : s # <<>> => Tail(s) \in Stream /\ Head(s) \in Message \union {Closed}
  BY TailEntries DEF Stream
<1>4. \A s \in Stream : \A n \in 0..Len(s) : Cut(s, n) \in Stream
  <2> SUFFICES ASSUME NEW s \in Stream, NEW n \in 0..Len(s) PROVE Cut(s, n) \in Stream
    OBVIOUS
  <2>1. SubSeq(s, 1, n) \in Stream
    BY SubSeqProperties, LenProperties DEF Stream
  <2> QED BY <1>1, <1>2, <2>1 DEF Cut
<1>5. ASSUME NEW c \in Clients, EndClient(c)
      PROVE  /\ client' \in [Clients -> ClientObjects] /\ {up', down'} \subseteq [Clients -> Stream]
             /\ strays' \subseteq {"up", "down"} \X Clients
  <2>1. NewClient \in ClientObjects /\ [NewClient EXCEPT !.process = "ended"] \in ClientObjects
    <3>1. <<>> \in Seq(Functor)
      BY EmptySeq
    <3> QED BY <3>1 DEF NewClient, ClientObjects, ConnStates
  <2>2. client' \in [Clients -> ClientObjects]
    BY <1>5, <2>1 DEF EndClient
  <2>3. down' \in [Clients -> Stream]
    BY <1>1, <1>5 DEF EndClient
  <2>4. up' \in [Clients -> Stream]
    <3>1. CASE up' = up
      BY <3>1
    <3>2. CASE \E n \in 0..Len(up[c]) : up' = [up EXCEPT ![c] = Cut(up[c], n)]
      <4>1. PICK n \in 0..Len(up[c]) : up' = [up EXCEPT ![c] = Cut(up[c], n)]
        BY <3>2
      <4>2. Cut(up[c], n) \in Stream
        BY <1>4
      <4> QED BY <4>1, <4>2
    <3> QED BY <1>5, <3>1, <3>2 DEF EndClient
  <2>5. strays' \subseteq strays
    BY <1>5 DEF EndClient
  <2> QED BY <2>2, <2>3, <2>4, <2>5
<1>6. ASSUME NEW c \in Clients, NEW r \in ClientObjects, Connector_start(c, r)
      PROVE  client' \in [Clients -> ClientObjects] /\ backlog' \in Seq(Clients)
  <2>1. OnRawConnection(r) \in ClientObjects /\ RetryAfterFailure(r) \in ClientObjects
    BY DEF OnRawConnection, RetryAfterFailure, ClientObjects, ConnStates
  <2>2. Append(backlog, c) \in Seq(Clients)
    BY AppendProperties
  <2> QED BY <1>6, <2>1, <2>2 DEF Connector_start
<1>7. ASSUME NEW c \in Clients, ClientStep(c), UNCHANGED serverVars PROVE TypeOK'
  <2>1. client[c] \in ClientObjects
    OBVIOUS
  <2>2. CASE Start(c)
    <3>1. [client[c] EXCEPT !.process = "running"] \in ClientObjects
      BY <2>1 DEF ClientObjects
    <3> QED BY <1>6, <1>7, <2>2, <3>1 DEF Start, serverVars
  <2>3. CASE restart(c)
    <3>1. NextInterval(client[c].next_retryInterval_) \in Nat
      BY <2>1, ChatClientAssumption DEF ClientObjects, NextInterval
    <3>2. [client[c] EXCEPT !.retryTimer = FALSE,
             !.next_retryInterval_ = NextInterval(client[c].next_retryInterval_)] \in ClientObjects
      BY <2>1, <3>1 DEF ClientObjects
    <3> QED BY <1>6, <1>7, <2>3, <3>2 DEF restart, serverVars
  <2>4. CASE Connector_stop(c)
    <3>1. [client[c] EXCEPT !.stop_ = TRUE] \in ClientObjects
      BY <2>1 DEF ClientObjects
    <3> QED BY <1>7, <2>4, <3>1 DEF Connector_stop, serverVars, network
  <2>5. CASE TypeLine(c)
    <3> DEFINE n == client[c].lines + 1
    <3>1. n \in Nat
      BY <2>1 DEF ClientObjects
    <3> HIDE DEF n
    <3>2. [client[c] EXCEPT !.sending = TRUE, !.lines = n] \in ClientObjects
      BY <2>1, <3>1 DEF ClientObjects
    <3> QED BY <1>5, <1>7, <2>5, <3>2 DEF TypeLine, serverVars, n
  <2>6. CASE SendLine(c)
    <3>1. <<"send", <<c, client[c].lines>>>> \in Functor
      BY <2>1 DEF Functor, Message, Author, ClientObjects
    <3>2. Append(client[c].pendingFuncs_, <<"send", <<c, client[c].lines>>>>) \in Seq(Functor)
      BY <2>1, <3>1, AppendProperties DEF ClientObjects
    <3>3. [client[c] EXCEPT !.sending = FALSE,
             !.pendingFuncs_ = Append(client[c].pendingFuncs_, <<"send", <<c, client[c].lines>>>>)]
          \in ClientObjects
      BY <2>1, <3>2 DEF ClientObjects
    <3> QED BY <1>5, <1>7, <2>6, <3>3 DEF SendLine, serverVars
  <2>7. client[c].pendingFuncs_ # <<>> =>
          /\ PopFunctor(c) \in ClientObjects
          /\ Head(client[c].pendingFuncs_) \in Functor
    <3>1. client[c].pendingFuncs_ # <<>> =>
            /\ Tail(client[c].pendingFuncs_) \in Seq(Functor)
            /\ Head(client[c].pendingFuncs_) \in Functor
      BY <2>1, TailEntries DEF ClientObjects
    <3> QED BY <2>1, <3>1 DEF ClientObjects, PopFunctor
  <2>8. CASE RunSendFunctor(c)
    <3>1. CASE EndClient(c)
      BY <1>5, <1>7, <2>8, <3>1 DEF RunSendFunctor, serverVars
    <3>2. CASE ~EndClient(c)
      <4>1. Head(client[c].pendingFuncs_)[2] \in Message
        BY <2>7, <2>8, FunctorFacts DEF RunSendFunctor
      <4>2. up' \in [Clients -> Stream]
        <5>1. Append(up[c], Head(client[c].pendingFuncs_)[2]) \in Stream
          BY <1>2, <4>1
        <5> QED BY <2>8, <3>2, <5>1 DEF RunSendFunctor
      <4>3. strays' \subseteq {"up", "down"} \X Clients
        <5>1. strays' \subseteq strays \union {<<"up", c>>}
          BY <2>8, <3>2 DEF RunSendFunctor, WithStrays
        <5> QED BY <5>1
      <4> QED BY <1>7, <2>7, <2>8, <3>2, <4>2, <4>3 DEF RunSendFunctor, serverVars
    <3> QED BY <3>1, <3>2
  <2>9. CASE RunDestroyFunctor(c)
    <3>1. [PopFunctor(c) EXCEPT !.conn = "kDisConnected", !.m_connection = FALSE] \in ClientObjects
      BY <2>7, <2>9 DEF RunDestroyFunctor, ClientObjects, ConnStates
    <3> QED BY <1>7, <2>9, <3>1 DEF RunDestroyFunctor, serverVars, network
  <2>10. CASE ClientRead(c)
    <3>1. Tail(down[c]) \in Stream /\ Head(down[c]) \in Message \union {Closed}
      BY <1>3, <2>10 DEF ClientRead
    <3>2. Append(client[c].pendingFuncs_, <<"destroy">>) \in Seq(Functor)
      BY <2>1, FunctorFacts, AppendProperties DEF ClientObjects
    <3>3. [client[c] EXCEPT !.conn = "closing", !.tcpConnectionPtr_ = FALSE,
             !.pendingFuncs_ = Append(client[c].pendingFuncs_, <<"destroy">>)] \in ClientObjects
      BY <2>1, <3>2 DEF ClientObjects, ConnStates
    <3>4. Head(down[c]) # Closed => Append(received[c], Head(down[c])) \in Seq(Message)
      BY <3>1, AppendProperties
    <3> QED BY <1>7, <2>10, <3>1, <3>3, <3>4 DEF ClientRead, serverVars
  <2>11. CASE Kill(c) \/ Misread(c)
    BY <1>5, <1>7, <2>11 DEF Kill, Misread, serverVars
  <2> QED BY <1>7, <2>2, <2>3, <2>4, <2>5, <2>6, <2>8, <2>9, <2>10, <2>11 DEF ClientStep
<1>8. CASE StartServer
  BY <1>8 DEF StartServer, clientVars
<1>9. EndServer => /\ server' \in {"down"} /\ listening' \in BOOLEAN
                   /\ backlog' \in Seq(Clients) /\ m_connections' \subseteq Clients
                   /\ pendingFuncs_' \in Seq(Clients) /\ joined' \in [Clients -> Nat]
                   /\ conn' \in [Clients -> ConnStates]
  BY <1>1 DEF EndServer, ConnStates
<1>10. Connected \subseteq Clients
  BY DEF Connected
<1>11. ASSUME NEW sent \in [Clients -> Stream], NEW s \in SUBSET ({"up", "down"} \X Clients),
              Leave(Connected, sent, s)
       PROVE  /\ down' \in [Clients -> Stream] /\ severed' \subseteq Clients
              /\ strays' \subseteq {"up", "down"} \X Clients
  <2>1. PICK kept \in [Connected -> 0..(Len(log) + 1)] :
          /\ \A c \in Connected : kept[c] <= Len(sent[c])
          /\ down' = [c \in Clients |-> IF c \in Connected THEN Cut(sent[c], kept[c]) ELSE sent[c]]
    BY <1>11 DEF Leave
  <2>2. Len(log) \in Nat /\ \A c \in Clients : Len(sent[c]) \in Nat
    BY LenProperties DEF Stream
  <2>3. \A c \in Connected : kept[c] \in 0..Len(sent[c])
    BY <1>10, <2>1, <2>2
  <2>4. down' \in [Clients -> Stream]
    BY <1>4, <1>10, <2>1, <2>3
  <2>5. severed' \subseteq Clients /\ strays' \subseteq {"up", "down"} \X Clients
    BY <1>10, <1>11 DEF Leave
  <2> QED BY <2>4, <2>5
<1>17. ASSUME NEW c \in Clients, NEW m \in Message, OnMessage(c, m) \/ OnMessageFails(c, m),
              log' \in Seq(Message), up' \in [Clients -> Stream], misread' \subseteq Clients,
              UNCHANGED clientVars
       PROVE  TypeOK'
  <2>1. \A S : \A s : Broadcast(m, S, s) \in [Clients -> Stream]
    BY <1>2 DEF Broadcast
  <2>2. Receivers(c) \subseteq Clients
    BY DEF Receivers
  <2>3. \A S \in SUBSET Clients : \A s \in WithStrays({"down"} \X S) : s \subseteq {"up", "down"} \X Clients
    BY DEF WithStrays
  <2>4. CASE OnMessage(c, m)
    BY <1>17, <2>1, <2>2, <2>3, <2>4 DEF OnMessage, clientVars
  <2>5. CASE OnMessageFails(c, m)
    <3>1. PICK S \in SUBSET {d \in Receivers(c) : ~Gone(d)} :
            \E s \in WithStrays({"down"} \X S) : Leave(Connected, Broadcast(m, S, s), s)
      BY <2>5 DEF OnMessageFails
    <3>2. PICK s \in WithStrays({"down"} \X S) : Leave(Connected, Broadcast(m, S, s), s)
      BY <3>1
    <3>3. /\ down' \in [Clients -> Stream] /\ severed' \subseteq Clients
          /\ strays' \subseteq {"up", "down"} \X Clients
      BY <1>11, <2>1, <2>2, <2>3, <3>2
    <3> QED BY <1>9, <1>17, <2>5, <3>3 DEF OnMessageFails, clientVars
  <2> QED BY <1>17, <2>4, <2>5
<1>18. CASE KillServer
  <2>1. /\ down' \in [Clients -> Stream] /\ severed' \subseteq Clients
        /\ strays' \subseteq {"up", "down"} \X Clients
    BY <1>11, <1>18 DEF KillServer
  <2> QED BY <1>9, <1>18, <2>1 DEF KillServer, clientVars
<1>12. CASE OnNewConnection
  <2>1. Tail(backlog) \in Seq(Clients) /\ Head(backlog) \in Clients
    BY <1>12, TailEntries DEF OnNewConnection
  <2>2. Len(log) \in Nat
    BY LenProperties
  <2> QED BY <1>12, <2>1, <2>2 DEF OnNewConnection, clientVars, ConnStates
<1>13. CASE OnDisConnection
  <2>1. Tail(pendingFuncs_) \in Seq(Clients) /\ Head(pendingFuncs_) \in Clients
    BY <1>13, TailEntries DEF OnDisConnection
  <2> QED BY <1>13, <2>1 DEF OnDisConnection, Erased, clientVars, network, ConnStates
<1>14. ASSUME NEW c \in Clients, ReadMessage(c) PROVE TypeOK'
  <2> DEFINE m == Head(up[c])
  <2>1. Tail(up[c]) \in Stream /\ m \in Message
    BY <1>3, <1>14 DEF ReadMessage
  <2>2. log' \in Seq(Message) /\ up' \in [Clients -> Stream]
    BY <1>14, <2>1, AppendProperties DEF ReadMessage
  <2> QED BY <1>14, <1>17, <2>1, <2>2 DEF ReadMessage
<1>19. ASSUME NEW c \in Clients, ReadStray(c) PROVE TypeOK'
  <2>1. misread' \subseteq Clients /\ up' = up /\ UNCHANGED clientVars
    BY <1>19 DEF ReadStray
  <2>2. CASE EndServer /\ Leave(Connected, down, strays) /\ log' = log
    <3>1. /\ down' \in [Clients -> Stream] /\ severed' \subseteq Clients
          /\ strays' \subseteq {"up", "down"} \X Clients
      BY <1>11, <2>2
    <3> QED BY <1>9, <2>1, <2>2, <3>1 DEF clientVars
  <2>3. CASE log' = Append(log, Garbled(c)) /\ (OnMessage(c, Garbled(c)) \/ OnMessageFails(c, Garbled(c)))
    <3>1. Garbled(c) \in Message
      BY GarbledFacts
    <3>2. log' \in Seq(Message)
      BY <2>3, <3>1, AppendProperties
    <3> QED BY <1>17, <2>1, <2>3, <3>1, <3>2
  <2> QED BY <1>19, <2>2, <2>3 DEF ReadStray
<1>15. ASSUME NEW c \in Clients, ReadClose(c) PROVE TypeOK'
  BY <1>15, AppendProperties DEF ReadClose, clientVars, network, ConnStates
<1>16. CASE UNCHANGED vars
  BY <1>16 DEF vars, clientVars, network, serverVars
<1> QED BY <1>7, <1>8, <1>12, <1>13, <1>14, <1>15, <1>16, <1>18, <1>19 DEF Next, ServerRead
-----------------------------------------------------------------------------
(* A client's step concerns that client only: it is one of those of a       *)
(* client that has no connection, of one that gets one, of one that has     *)
(* one, or the end of the process.                                          *)
StaysOut(c) ==
    /\ Fresh(c) /\ Fresh(c)' /\ client'[c].process = "running" /\ UNCHANGED <<up, down, received, backlog>>
    /\ client'[c].pendingFuncs_ = client[c].pendingFuncs_
    /\ client'[c].latch = client[c].latch /\ client'[c].sending = client[c].sending
    /\ client'[c].lines = client[c].lines

Connects(c) ==
    /\ Fresh(c) /\ client'[c].conn = "kConnected"
    /\ client'[c].process = "running" /\ ~client'[c].retryTimer
    /\ UNCHANGED <<up, down, received>> /\ backlog' = Append(backlog, c)
    /\ client'[c].pendingFuncs_ = client[c].pendingFuncs_
    /\ client'[c].sending = client[c].sending /\ client'[c].lines = client[c].lines

(* What the steps of a client that has a connection do with its lines.      *)
Types(c) ==
    /\ ~client[c].sending /\ client'[c].sending /\ UNCHANGED <<up, down, received>>
    /\ client'[c].lines = client[c].lines + 1
    /\ client'[c].pendingFuncs_ = client[c].pendingFuncs_

PendsLine(c) ==
    /\ client[c].sending /\ ~client'[c].sending /\ UNCHANGED <<up, down, received>>
    /\ client'[c].lines = client[c].lines
    /\ client'[c].pendingFuncs_ =
         Append(client[c].pendingFuncs_, <<"send", <<c, client[c].lines>>>>)

RunsFunctor(c) ==
    /\ client[c].pendingFuncs_ # <<>>
    /\ client'[c].pendingFuncs_ = Tail(client[c].pendingFuncs_)
    /\ client'[c].lines = client[c].lines /\ client'[c].sending = client[c].sending
    /\ UNCHANGED <<down, received>>
    /\ \/ UNCHANGED up
       \/ /\ Head(client[c].pendingFuncs_)[1] = "send"
          /\ up' = [up EXCEPT ![c] = Append(up[c], Head(client[c].pendingFuncs_)[2])]

Reads(c) ==
    /\ down[c] # <<>> /\ down' = [down EXCEPT ![c] = Tail(down[c])]
    /\ client'[c].lines = client[c].lines /\ client'[c].sending = client[c].sending
    /\ UNCHANGED up
    /\ \/ /\ Head(down[c]) = Closed /\ UNCHANGED received
          /\ client'[c].pendingFuncs_ = Append(client[c].pendingFuncs_, <<"destroy">>)
       \/ /\ Head(down[c]) # Closed /\ UNCHANGED client
          /\ received' = [received EXCEPT ![c] = Append(received[c], Head(down[c]))]

Proceeds(c) ==
    /\ client[c].conn # "none" /\ client'[c].conn # "none"
    /\ client[c].process = "running" /\ client'[c].process = "running"
    /\ ~client'[c].retryTimer /\ UNCHANGED backlog
    /\ Types(c) \/ PendsLine(c) \/ RunsFunctor(c) \/ Reads(c)

OnlyClient(c) ==
    /\ UNCHANGED <<severed, serverVars>>
    /\ \A d \in Clients : <<"down", d>> \in strays => <<"down", d>> \in strays'
    /\ \A d \in Clients \ {c} : /\ client'[d] = client[d] /\ up'[d] = up[d]
                                /\ down'[d] = down[d] /\ received'[d] = received[d]

Ends(c) ==
    /\ EndClient(c) /\ UNCHANGED <<backlog, received>>
    /\ client[c].process = "running" /\ client'[c].process = "ended"
    /\ client'[c].conn = "none" /\ ~client'[c].retryTimer
    /\ client'[c].pendingFuncs_ = <<>> /\ down'[c] = <<>>

LEMMA ClientStepKinds ==
    ASSUME TypeOK, FreshInv, NEW c \in Clients, ClientStep(c), UNCHANGED serverVars
    PROVE  OnlyClient(c) /\ (StaysOut(c) \/ Connects(c) \/ Proceeds(c) \/ Ends(c))
<1> USE DEF TypeOK
<1>1. client[c] \in ClientObjects /\ NewClient.process = "new"
  BY DEF NewClient
<1>2. ASSUME EndClient(c), Running(c), UNCHANGED <<listening, backlog, severed, received>>
      PROVE  OnlyClient(c) /\ Ends(c)
  <2>1. /\ client'[c] = [NewClient EXCEPT !.process = "ended"]
        /\ \A d \in Clients \ {c} : client'[d] = client[d]
    BY <1>2 DEF EndClient
  <2>2. /\ down'[c] = <<>>
        /\ \A d \in Clients \ {c} : down'[d] = down[d] /\ up'[d] = up[d]
    BY <1>2 DEF EndClient
  <2>3. \A d \in Clients : <<"down", d>> \in strays => <<"down", d>> \in strays'
    BY <1>2 DEF EndClient
  <2> QED BY <1>2, <2>1, <2>2, <2>3 DEF OnlyClient, Ends, Running, NewClient
<1>3. ASSUME NEW r \in ClientObjects, Connector_start(c, r), Fresh(c),
             UNCHANGED <<listening, up, down, severed, strays, received>>,
             r.process = "running", r.conn = "none", ~r.retryTimer,
             r.pendingFuncs_ = client[c].pendingFuncs_, r.latch = client[c].latch,
             r.sending = client[c].sending, r.lines = client[c].lines
      PROVE  OnlyClient(c) /\ (StaysOut(c) \/ Connects(c))
  <2>1. CASE client' = [client EXCEPT ![c] = r] /\ backlog' = backlog
    BY <1>3, <2>1 DEF OnlyClient, StaysOut, Fresh, Gone
  <2>2. CASE client' = [client EXCEPT ![c] = RetryAfterFailure(r)] /\ backlog' = backlog
    <3>1. client'[c] = [r EXCEPT !.retryTimer = TRUE]
      BY <2>2 DEF RetryAfterFailure
    <3> QED BY <1>3, <2>2, <3>1 DEF OnlyClient, StaysOut, Fresh, Gone, ClientObjects
  <2>3. CASE client' = [client EXCEPT ![c] = OnRawConnection(r)] /\ backlog' = Append(backlog, c)
    <3>1. client'[c] = OnRawConnection(r)
      BY <2>3
    <3> QED BY <1>3, <2>3, <3>1 DEF OnlyClient, Connects, Fresh, OnRawConnection, ClientObjects
  <2> QED BY <1>3, <2>1, <2>2, <2>3 DEF Connector_start
<1>4. CASE Start(c)
  <2> DEFINE r == [client[c] EXCEPT !.process = "running"]
  <2>1. r \in ClientObjects /\ Fresh(c) /\ ~client[c].retryTimer
    BY <1>1, <1>4 DEF Start, ClientObjects, FreshInv, FreshClient
  <2>2. /\ r.process = "running" /\ r.conn = "none" /\ r.retryTimer = client[c].retryTimer
        /\ r.pendingFuncs_ = client[c].pendingFuncs_ /\ r.latch = client[c].latch
        /\ r.sending = client[c].sending /\ r.lines = client[c].lines
    BY <1>1, <2>1 DEF Fresh, ClientObjects
  <2>3. Connector_start(c, r) /\ UNCHANGED <<listening, up, down, severed, strays, received>>
    BY <1>4 DEF Start
  <2> HIDE DEF r
  <2> QED BY <1>3, <2>1, <2>2, <2>3
<1>5. CASE restart(c)
  <2> DEFINE i == NextInterval(client[c].next_retryInterval_)
             r == [client[c] EXCEPT !.retryTimer = FALSE, !.next_retryInterval_ = i]
  <2>1. i \in Nat
    BY <1>1, ChatClientAssumption DEF ClientObjects, NextInterval
  <2>2. Connector_start(c, r) /\ UNCHANGED <<listening, up, down, severed, strays, received>>
    BY <1>5 DEF restart
  <2> HIDE DEF i
  <2>3. r \in ClientObjects /\ Fresh(c) /\ client[c].process = "running"
    BY <1>1, <1>5, <2>1 DEF restart, ClientObjects, FreshInv, FreshClient, Running
  <2>4. /\ r.process = "running" /\ r.conn = "none" /\ ~r.retryTimer
        /\ r.pendingFuncs_ = client[c].pendingFuncs_ /\ r.latch = client[c].latch
        /\ r.sending = client[c].sending /\ r.lines = client[c].lines
    BY <1>1, <2>3 DEF Fresh, ClientObjects
  <2> HIDE DEF r
  <2> QED BY <1>3, <2>2, <2>3, <2>4
<1>6. CASE Connector_stop(c)
  <2>1. /\ client'[c] = [client[c] EXCEPT !.stop_ = TRUE]
        /\ \A d \in Clients \ {c} : client'[d] = client[d]
    BY <1>6 DEF Connector_stop
  <2> QED BY <1>1, <1>6, <2>1 DEF Connector_stop, OnlyClient, StaysOut, Fresh, Running, network,
                                  ClientObjects
<1>7. ASSUME TypeLine(c) \/ SendLine(c) \/ RunSendFunctor(c) \/ RunDestroyFunctor(c)
               \/ ClientRead(c)
      PROVE  OnlyClient(c) /\ (Proceeds(c) \/ Ends(c))
  <2>1. ~Fresh(c) /\ client[c].process = "running" /\ client[c].conn # "none"
    BY <1>7 DEF FreshInv, FreshClient, Fresh, TypeLine, SendLine, RunSendFunctor,
                RunDestroyFunctor, ClientRead, Running
  <2>2. ~client[c].retryTimer /\ Running(c)
    BY <2>1 DEF FreshInv, FreshClient, Running
  <2> DEFINE r == client[c]
  <2>3. ASSUME NEW x, client' = [client EXCEPT ![c] = x], x.process = r.process,
               x.conn \in {r.conn, "closing", "kDisConnected"}, x.retryTimer = r.retryTimer,
               \A d \in Clients \ {c} : up'[d] = up[d] /\ down'[d] = down[d] /\ received'[d] = received[d],
               \A d \in Clients : <<"down", d>> \in strays => <<"down", d>> \in strays',
               UNCHANGED <<severed, backlog>>
        PROVE  /\ OnlyClient(c) /\ client'[c] = x
               /\ Types(c) \/ PendsLine(c) \/ RunsFunctor(c) \/ Reads(c) => Proceeds(c)
    <3>1. client'[c] = x /\ \A d \in Clients \ {c} : client'[d] = client[d]
      BY <2>3
    <3> QED BY <2>1, <2>2, <2>3, <3>1 DEF OnlyClient, Proceeds
  <2>4. CASE TypeLine(c) /\ ~EndClient(c)
    <3> DEFINE n == r.lines + 1
               x == [r EXCEPT !.sending = TRUE, !.lines = n]
    <3>1. client' = [client EXCEPT ![c] = x] /\ UNCHANGED <<up, down, backlog, severed, strays, received>>
          /\ ~r.sending
      BY <2>4 DEF TypeLine
    <3> HIDE DEF n
    <3>2. /\ x.process = r.process /\ x.conn = r.conn /\ x.retryTimer = r.retryTimer
          /\ x.pendingFuncs_ = r.pendingFuncs_ /\ x.sending /\ x.lines = n
      BY <1>1 DEF ClientObjects
    <3> HIDE DEF x
    <3>3. OnlyClient(c) /\ client'[c] = x /\ (Types(c) => Proceeds(c))
      BY <2>3, <3>1, <3>2
    <3> QED BY <3>1, <3>2, <3>3 DEF Types, n
  <2>5. CASE SendLine(c) /\ ~EndClient(c)
    <3> DEFINE q == Append(r.pendingFuncs_, <<"send", <<c, r.lines>>>>)
               x == [r EXCEPT !.sending = FALSE, !.pendingFuncs_ = q]
    <3>1. client' = [client EXCEPT ![c] = x] /\ UNCHANGED <<up, down, backlog, severed, strays, received>>
          /\ r.sending
      BY <2>5 DEF SendLine
    <3> HIDE DEF q
    <3>2. /\ x.process = r.process /\ x.conn = r.conn /\ x.retryTimer = r.retryTimer
          /\ x.pendingFuncs_ = q /\ ~x.sending /\ x.lines = r.lines
      BY <1>1 DEF ClientObjects
    <3> HIDE DEF x
    <3>3. OnlyClient(c) /\ client'[c] = x /\ (PendsLine(c) => Proceeds(c))
      BY <2>3, <3>1, <3>2
    <3> QED BY <3>1, <3>2, <3>3 DEF PendsLine, q
  <2>6. CASE (RunSendFunctor(c) /\ ~EndClient(c)) \/ RunDestroyFunctor(c)
    <3> DEFINE q == Tail(r.pendingFuncs_)
               x == [r EXCEPT !.pendingFuncs_ = q]
               y == [x EXCEPT !.conn = "kDisConnected", !.m_connection = FALSE]
    <3>1. /\ client' = [client EXCEPT ![c] = x] \/ client' = [client EXCEPT ![c] = y]
          /\ UNCHANGED <<down, backlog, severed, received>> /\ r.pendingFuncs_ # <<>>
          /\ \/ UNCHANGED up
             \/ /\ Head(client[c].pendingFuncs_)[1] = "send"
                /\ up' = [up EXCEPT ![c] = Append(up[c], Head(client[c].pendingFuncs_)[2])]
      BY <2>6 DEF RunSendFunctor, RunDestroyFunctor, PopFunctor, network
    <3>5. \A d \in Clients : <<"down", d>> \in strays => <<"down", d>> \in strays'
      BY <2>6 DEF RunSendFunctor, RunDestroyFunctor, WithStrays, network
    <3> HIDE DEF q
    <3>2. ASSUME NEW z \in {x, y}
          PROVE  /\ z.process = r.process /\ z.conn \in {r.conn, "kDisConnected"}
                 /\ z.retryTimer = r.retryTimer
                 /\ z.pendingFuncs_ = q /\ z.sending = r.sending /\ z.lines = r.lines
      BY <1>1 DEF ClientObjects
    <3> HIDE DEF x, y
    <3>3. PICK z \in {x, y} : client' = [client EXCEPT ![c] = z]
      BY <3>1
    <3>4. OnlyClient(c) /\ client'[c] = z /\ (RunsFunctor(c) => Proceeds(c))
      BY <2>3, <3>1, <3>2, <3>3, <3>5
    <3> QED BY <3>1, <3>2, <3>4 DEF RunsFunctor, q
  <2>7. CASE ClientRead(c)
    <3> DEFINE q == Append(r.pendingFuncs_, <<"destroy">>)
               x == [r EXCEPT !.conn = "closing", !.tcpConnectionPtr_ = FALSE, !.pendingFuncs_ = q]
    <3>1. CASE Head(down[c]) = Closed
      <4>1. client' = [client EXCEPT ![c] = x] /\ UNCHANGED received
        BY <2>7, <3>1 DEF ClientRead
      <4> HIDE DEF q
      <4>2. /\ x.process = r.process /\ x.conn = "closing" /\ x.retryTimer = r.retryTimer
            /\ x.pendingFuncs_ = q /\ x.sending = r.sending /\ x.lines = r.lines
        BY <1>1 DEF ClientObjects
      <4> HIDE DEF x
      <4>3. OnlyClient(c) /\ client'[c] = x /\ (Reads(c) => Proceeds(c))
        BY <2>3, <2>7, <4>1, <4>2 DEF ClientRead
      <4> QED BY <2>7, <3>1, <4>1, <4>2, <4>3 DEF Reads, q, ClientRead
    <3>2. CASE Head(down[c]) # Closed
      <4>1. client' = [client EXCEPT ![c] = r]
        BY <2>7, <3>2 DEF ClientRead
      <4>2. OnlyClient(c) /\ (Reads(c) => Proceeds(c))
        BY <2>3, <2>7, <3>2, <4>1 DEF ClientRead
      <4> QED BY <2>7, <3>2, <4>2 DEF Reads, ClientRead
    <3> QED BY <3>1, <3>2
  <2>8. CASE EndClient(c) /\ (TypeLine(c) \/ SendLine(c) \/ RunSendFunctor(c))
    BY <1>2, <2>2, <2>8 DEF TypeLine, SendLine, RunSendFunctor
  <2> QED BY <1>7, <2>4, <2>5, <2>6, <2>7, <2>8
<1>8. CASE Kill(c) \/ Misread(c)
  BY <1>2, <1>8 DEF Kill, Misread
<1> QED BY <1>4, <1>5, <1>6, <1>7, <1>8 DEF ClientStep

(* When the server ends, each connection that it had ends, somewhere in     *)
(* what is on its way and, for those in S, the message they were still      *)
(* given.                                                                   *)
ServerEnds(S, m) ==
    /\ EndServer /\ severed' = severed \cup Connected
    /\ S \subseteq {d \in Connected : Whole(d)}
    /\ \A d \in Clients \ Connected : down'[d] = down[d]
    /\ \A d \in S : \E n \in 0..Len(Append(down[d], m)) : down'[d] = Cut(Append(down[d], m), n)
    /\ \A d \in Connected \ S : \E n \in 0..Len(down[d]) : down'[d] = Cut(down[d], n)
    /\ UNCHANGED clientVars

LEMMA LeaveFacts ==
    ASSUME NEW sent \in [Clients -> Stream], NEW s, Leave(Connected, sent, s)
    PROVE  /\ severed' = severed \cup Connected
           /\ \A d \in Clients \ Connected : down'[d] = sent[d]
           /\ \A d \in Connected : \E n \in 0..Len(sent[d]) : down'[d] = Cut(sent[d], n)
<1>1. PICK kept \in [Connected -> 0..(Len(log) + 1)] :
        /\ \A c \in Connected : kept[c] <= Len(sent[c])
        /\ down' = [c \in Clients |-> IF c \in Connected THEN Cut(sent[c], kept[c]) ELSE sent[c]]
  BY DEF Leave
<1>2. \A d \in Clients : Len(sent[d]) \in Nat
  BY LenProperties DEF Stream
<1>3. Connected \subseteq Clients /\ \A d \in Connected : kept[d] \in 0..(Len(log) + 1)
  BY DEF Connected
<1>4. \A d \in Connected : kept[d] \in 0..Len(sent[d])
  <2>1. \A k, l : \A n \in Nat : k \in 0..l /\ k <= n => k \in 0..n
    OBVIOUS
  <2> QED BY <1>1, <1>2, <1>3, <2>1
<1>5. severed' = severed \cup Connected
  BY DEF Leave
<1> QED BY <1>1, <1>3, <1>4, <1>5

LEMMA KillServerFacts ==
    ASSUME TypeOK, EndServer, Leave(Connected, down, strays), UNCHANGED clientVars
    PROVE  ServerEnds({}, Closed)
  BY LeaveFacts DEF ServerEnds, TypeOK

(* A message is handled: it is sent to those in the room whose process is   *)
(* there, as far as no stray byte is in front of it.                        *)
SentToAll(m) ==
    /\ strays \subseteq strays'
    /\ \A d \in Clients : down'[d] = IF Receiving(d) /\ <<"down", d>> \notin strays'
                                     THEN Append(down[d], m) ELSE down[d]
    /\ UNCHANGED <<listening, backlog, severed, server, conn, m_connections,
                   pendingFuncs_, joined>>

Handles(m) ==
    /\ m \in Message /\ log' = Append(log, m) /\ UNCHANGED clientVars
    /\ SentToAll(m) \/ \E S \in SUBSET Clients : ServerEnds(S, m)

LEMMA HandleFacts ==
    ASSUME TypeOK, FreshInv, RosterInv, StreamInv, NEW c \in Clients, NEW m \in Message,
           OnMessage(c, m) \/ OnMessageFails(c, m),
           log' = Append(log, m), UNCHANGED clientVars
    PROVE  Handles(m)
<1>1. Receivers(c) \subseteq Clients /\ \A d \in Clients : d \in Receivers(c) <=> InRoom(d)
  BY DEF RosterInv, RosterIsRight, InRoom, Receivers, TypeOK
<1>2. CASE OnMessage(c, m)
  <2> DEFINE S == {d \in Receivers(c) : ~Gone(d)}
  <2>1. /\ strays' \in WithStrays({"down"} \X S) /\ down' = Broadcast(m, S, strays')
        /\ UNCHANGED <<listening, backlog, severed, server, conn, m_connections,
                       pendingFuncs_, joined>>
    BY <1>2 DEF OnMessage
  <2>2. \A d \in Clients : d \in S <=> Receiving(d)
    BY <1>1 DEF Receiving
  <2> HIDE DEF S
  <2>3. SentToAll(m)
    BY <2>1, <2>2 DEF WithStrays, Broadcast, SentToAll
  <2> QED BY <2>3 DEF Handles
<1>3. CASE OnMessageFails(c, m)
  <2>1. PICK S \in SUBSET {d \in Receivers(c) : ~Gone(d)} :
          \E s \in WithStrays({"down"} \X S) : Leave(Connected, Broadcast(m, S, s), s)
    BY <1>3 DEF OnMessageFails
  <2>2. PICK s \in WithStrays({"down"} \X S) : Leave(Connected, Broadcast(m, S, s), s)
    BY <2>1
  <2>3. ASSUME NEW d \in S PROVE d \in Clients /\ d \in Connected /\ Receiving(d)
    <3>1. d \in Clients /\ InRoom(d) /\ ~Gone(d)
      BY <1>1
    <3>2. d \notin severed /\ ~Fresh(d)
      BY <3>1 DEF StreamInv, StreamOf, FreshInv, FreshClient, InRoom
    <3> QED BY <3>1, <3>2 DEF Fresh, Gone, Connected, Receiving
  <2> DEFINE T == {d \in S : <<"down", d>> \notin s}
             sent == Broadcast(m, S, s)
  <2>4. strays \subseteq s
    BY DEF WithStrays
  <2>5. T \subseteq {d \in Connected : Whole(d)} /\ T \in SUBSET Clients /\ Connected \subseteq Clients
    BY <2>3, <2>4 DEF Whole, Connected
  <2>6. \A d \in Clients : sent[d] = IF d \in T THEN Append(down[d], m) ELSE down[d]
    BY DEF Broadcast
  <2>7. sent \in [Clients -> Stream]
    <3>1. \A d \in Clients : down[d] \in Stream /\ Append(down[d], m) \in Stream
      BY AppendProperties DEF TypeOK, Stream
    <3> QED BY <3>1 DEF Broadcast
  <2>8. Leave(Connected, sent, s)
    BY <2>2
  <2> HIDE DEF T, sent
  <2>9. /\ severed' = severed \cup Connected
        /\ \A d \in Clients \ Connected : down'[d] = sent[d]
        /\ \A d \in Connected : \E n \in 0..Len(sent[d]) : down'[d] = Cut(sent[d], n)
    BY <2>7, <2>8, LeaveFacts
  <2>10. /\ \A d \in Clients \ Connected : down'[d] = down[d]
         /\ \A d \in T : \E n \in 0..Len(Append(down[d], m)) : down'[d] = Cut(Append(down[d], m), n)
         /\ \A d \in Connected \ T : \E n \in 0..Len(down[d]) : down'[d] = Cut(down[d], n)
    <3>1. \A d \in Clients \ Connected : d \notin T
      BY <2>5
    <3> QED BY <2>5, <2>6, <2>9, <3>1
  <2>11. EndServer
    BY <1>3 DEF OnMessageFails
  <2>12. ServerEnds(T, m)
    BY <2>5, <2>9, <2>10, <2>11 DEF ServerEnds
  <2> QED BY <2>5, <2>12 DEF Handles
<1> QED BY <1>2, <1>3

(* A message is read: one that a client has sent, or what comes of a stray  *)
(* byte.                                                                    *)
ReadsLine(c) ==
    /\ conn[c] = "kConnected" /\ up[c] # <<>> /\ Head(up[c]) \in Message
    /\ up' = [up EXCEPT ![c] = Tail(up[c])] /\ misread' = misread

ReadsStray(c) ==
    /\ up' = up /\ c \notin misread /\ misread' = misread \cup {c}

LEMMA ReadMessageFacts ==
    ASSUME TypeOK, FreshInv, RosterInv, StreamInv, NEW c \in Clients, ReadMessage(c)
    PROVE  ReadsLine(c) /\ Handles(Head(up[c]))
<1> DEFINE m == Head(up[c])
<1>1. ReadsLine(c)
  <2>1. up[c] # <<>> /\ up[c] \in Seq(Message \union {Closed}) /\ m # Closed
    BY DEF ReadMessage, TypeOK, Stream
  <2>2. m \in Message
    BY <2>1, TailEntries
  <2> QED BY <2>2 DEF ReadMessage, ReadsLine
<1>2. m \in Message
  BY <1>1 DEF ReadsLine
<1>3. (OnMessage(c, m) \/ OnMessageFails(c, m)) /\ log' = Append(log, m) /\ UNCHANGED clientVars
  BY DEF ReadMessage
<1> HIDE DEF m
<1>4. Handles(m)
  BY <1>2, <1>3, HandleFacts
<1> QED BY <1>1, <1>4 DEF m

LEMMA ReadStrayFacts ==
    ASSUME TypeOK, FreshInv, RosterInv, StreamInv, NEW c \in Clients, ReadStray(c)
    PROVE  /\ ReadsStray(c)
           /\ Handles(Garbled(c)) \/ (ServerEnds({}, Closed) /\ log' = log)
<1>1. ReadsStray(c) /\ UNCHANGED clientVars
  BY DEF ReadStray, ReadsStray
<1>2. CASE EndServer /\ Leave(Connected, down, strays) /\ log' = log
  BY <1>1, <1>2, KillServerFacts
<1>3. CASE log' = Append(log, Garbled(c)) /\ (OnMessage(c, Garbled(c)) \/ OnMessageFails(c, Garbled(c)))
  <2>1. Garbled(c) \in Message
    BY GarbledFacts
  <2> QED BY <1>1, <1>3, <2>1, HandleFacts
<1> QED BY <1>1, <1>2, <1>3 DEF ReadStray
-----------------------------------------------------------------------------
(* A client that has no connection gets nothing, and is nowhere.            *)
LEMMA FreshStep == IInv /\ [Next]_vars => FreshInv'
<1> SUFFICES ASSUME TypeOK, FreshInv, RosterInv, StreamInv, [Next]_vars,
                    NEW d \in Clients
             PROVE  FreshClient(d)'
  BY DEF IInv, FreshInv
<1>1. FreshClient(d)
  BY DEF FreshInv
<1>2. /\ backlog \in Seq(Clients) /\ ~Holds(<<>>, d)
      /\ backlog # <<>> => \A e : Holds(Tail(backlog), e) => Holds(backlog, e)
      /\ \A c \in Clients \ {d} : Holds(Append(backlog, c), d) => Waiting(d)
  <2>1. backlog \in Seq(Clients) /\ ~Holds(<<>>, d)
    BY DEF TypeOK, Holds
  <2>2. backlog # <<>> => \A e : Holds(Tail(backlog), e) => Holds(backlog, e)
    BY <2>1, QueueTail
  <2>3. \A c \in Clients \ {d} : Holds(Append(backlog, c), d) => Waiting(d)
    BY <2>1, QueueAppend DEF Waiting
  <2> QED BY <2>1, <2>2, <2>3
<1>3. ASSUME NEW c \in Clients, ClientStep(c), UNCHANGED serverVars
      PROVE  FreshClient(d)'
  <2>1. OnlyClient(c) /\ (StaysOut(c) \/ Connects(c) \/ Proceeds(c) \/ Ends(c))
    BY <1>3, ClientStepKinds
  <2>2. backlog' = backlog \/ backlog' = Append(backlog, c)
    BY <2>1 DEF StaysOut, Connects, Proceeds, Ends
  <2>3. CASE c # d
    <3>1. /\ client'[d] = client[d] /\ up'[d] = up[d] /\ down'[d] = down[d]
          /\ received'[d] = received[d] /\ severed' = severed /\ conn' = conn
      BY <2>1, <2>3 DEF OnlyClient, serverVars
    <3>2. Waiting(d)' => Waiting(d)
      BY <1>2, <2>2, <2>3 DEF Waiting
    <3> QED BY <1>1, <3>1, <3>2 DEF FreshClient, Fresh
  <2>4. CASE c = d
    <3>1. CASE StaysOut(c)
      BY <1>1, <2>1, <2>4, <3>1 DEF StaysOut, OnlyClient, FreshClient, serverVars, Waiting
    <3>2. CASE Connects(c) \/ Proceeds(c) \/ Ends(c)
      BY <1>1, <2>4, <3>2 DEF Connects, Proceeds, Ends, FreshClient, Fresh
    <3> QED BY <2>1, <3>1, <3>2
  <2> QED BY <2>3, <2>4
<1>4. CASE StartServer \/ OnDisConnection \/ (\E c \in Clients : ReadClose(c)) \/ UNCHANGED vars
  <2>1. UNCHANGED <<client, received, backlog, up, down, severed>>
    BY <1>4 DEF StartServer, OnDisConnection, ReadClose, vars, clientVars, network
  <2>2. conn[d] = "none" => conn'[d] = "none"
    <3>1. CASE OnDisConnection
      <4>1. pendingFuncs_ \in Seq(Clients) /\ pendingFuncs_ # <<>>
        BY <3>1 DEF TypeOK, OnDisConnection
      <4>2. Head(pendingFuncs_) \in Clients /\ Holds(pendingFuncs_, Head(pendingFuncs_))
        BY <4>1, TailEntries, QueueTail
      <4>3. conn[Head(pendingFuncs_)] = "closing"
        BY <4>2 DEF RosterInv
      <4> QED BY <3>1, <4>3 DEF OnDisConnection, TypeOK
    <3>2. ASSUME NEW c \in Clients, ReadClose(c) PROVE conn[d] = "none" => conn'[d] = "none"
      BY <3>2 DEF ReadClose, TypeOK
    <3> QED BY <1>4, <3>1, <3>2 DEF StartServer, vars, serverVars
  <2> QED BY <1>1, <2>1, <2>2 DEF FreshClient, Fresh, Waiting
<1>5. CASE OnNewConnection
  <2>1. /\ UNCHANGED <<client, received, up, down, severed>> /\ backlog # <<>>
        /\ backlog' = Tail(backlog) /\ conn' = [conn EXCEPT ![Head(backlog)] = "kConnected"]
    BY <1>5 DEF OnNewConnection, clientVars
  <2>2. Waiting(Head(backlog)) /\ Head(backlog) \in Clients
    BY <1>2, <2>1, QueueTail, TailEntries DEF Waiting
  <2>3. Fresh(d) => conn'[d] = "none"
    BY <1>1, <2>1, <2>2 DEF FreshClient, TypeOK
  <2>4. Waiting(d)' => Waiting(d)
    BY <1>2, <2>1 DEF Waiting
  <2> QED BY <1>1, <2>1, <2>3, <2>4 DEF FreshClient, Fresh
<1>6. ASSUME NEW S, NEW m, ServerEnds(S, m),
             up' = up \/ \E c \in Clients : conn[c] = "kConnected"
                                            /\ up' = [up EXCEPT ![c] = Tail(up[c])]
      PROVE  FreshClient(d)'
  <2>1. client' = client /\ received' = received /\ ~Waiting(d)' /\ conn'[d] = "none"
    BY <1>2, <1>6 DEF ServerEnds, EndServer, clientVars, Waiting
  <2>2. Fresh(d) => d \notin Connected
    BY DEF Fresh, Connected
  <2>3. Fresh(d) => up'[d] = up[d] /\ down'[d] = down[d] /\ d \notin severed'
    BY <1>1, <1>6, <2>2 DEF ServerEnds, FreshClient, TypeOK
  <2> QED BY <1>1, <2>1, <2>3 DEF FreshClient, Fresh
<1>7. CASE KillServer
  BY <1>6, <1>7, KillServerFacts DEF KillServer
<1>8. ASSUME NEW m, Handles(m),
             up' = up \/ \E c \in Clients : conn[c] = "kConnected"
                                            /\ up' = [up EXCEPT ![c] = Tail(up[c])]
      PROVE  FreshClient(d)'
  <2>1. CASE \E S \in SUBSET Clients : ServerEnds(S, m)
    BY <1>6, <1>8, <2>1
  <2>2. CASE SentToAll(m)
    <3>1. Fresh(d) => up'[d] = up[d] /\ down'[d] = down[d]
      BY <1>1, <1>8, <2>2 DEF SentToAll, FreshClient, Receiving, InRoom, TypeOK
    <3>2. UNCHANGED <<client, received, backlog, severed, conn>>
      BY <1>8, <2>2 DEF Handles, SentToAll, clientVars
    <3> QED BY <1>1, <3>1, <3>2 DEF FreshClient, Fresh, Waiting
  <2> QED BY <1>8, <2>1, <2>2 DEF Handles
<1>9. ASSUME NEW c \in Clients, ReadMessage(c) PROVE FreshClient(d)'
  BY <1>8, <1>9, ReadMessageFacts DEF ReadsLine
<1>10. ASSUME NEW c \in Clients, ReadStray(c) PROVE FreshClient(d)'
  BY <1>6, <1>8, <1>10, ReadStrayFacts DEF ReadsStray
<1> QED BY <1>3, <1>4, <1>5, <1>7, <1>9, <1>10 DEF Next, ServerRead

(* The list of connections follows the connections.                         *)
LEMMA RosterStep == IInv /\ [Next]_vars => RosterInv'
<1> SUFFICES ASSUME TypeOK, FreshInv, RosterInv, StreamInv, [Next]_vars PROVE RosterInv'
  BY DEF IInv
<1>1. /\ backlog \in Seq(Clients) /\ pendingFuncs_ \in Seq(Clients)
      /\ conn \in [Clients -> ConnStates] /\ server # "aborted"
      /\ Distinct(backlog) /\ Distinct(pendingFuncs_)
      /\ m_connections = {c \in Clients : InRoom(c)}
      /\ \A c \in Clients : /\ Holds(backlog, c) => conn[c] = "none"
                            /\ Holds(pendingFuncs_, c) => conn[c] = "closing"
  BY DEF TypeOK, RosterInv, RosterIsRight, InRoom, Waiting
<1> DEFINE Roster(s, cn, m, b, p) ==
             /\ s # "aborted" /\ m = {c \in Clients : cn[c] \in {"kConnected", "closing"}}
             /\ Distinct(b) /\ Distinct(p)
             /\ \A c \in Clients : /\ Holds(b, c) => cn[c] = "none"
                                   /\ Holds(p, c) => cn[c] = "closing"
<1>2. Roster(server', conn', m_connections', backlog', pendingFuncs_') => RosterInv'
  BY DEF RosterInv, RosterIsRight, Waiting
<1>3. ASSUME NEW c \in Clients, ClientStep(c), UNCHANGED serverVars PROVE RosterInv'
  <2>1. StaysOut(c) \/ Connects(c) \/ Proceeds(c) \/ Ends(c)
    BY <1>3, ClientStepKinds
  <2>2. CASE Connects(c)
    <3>1. backlog' = Append(backlog, c) /\ conn[c] = "none" /\ ~Holds(backlog, c)
      BY <2>2 DEF Connects, FreshInv, FreshClient, Waiting
    <3>2. Distinct(backlog') /\ \A d : Holds(backlog', d) => Holds(backlog, d) \/ d = c
      BY <1>1, <3>1, QueueAppend
    <3> QED BY <1>1, <1>2, <1>3, <3>1, <3>2 DEF serverVars, InRoom
  <2>3. CASE backlog' = backlog
    BY <1>1, <1>2, <1>3, <2>3 DEF serverVars, InRoom
  <2> QED BY <2>1, <2>2, <2>3 DEF StaysOut, Proceeds, Ends
<1>4. CASE StartServer \/ UNCHANGED vars
  BY <1>1, <1>2, <1>4 DEF StartServer, vars, serverVars, network, InRoom
<1>5. EndServer => RosterInv'
  <2>1. Distinct(<<>>) /\ \A c : ~Holds(<<>>, c)
    BY DEF Distinct, Holds
  <2> QED BY <1>2, <2>1 DEF EndServer
<1>6. CASE OnNewConnection
  <2> DEFINE b == Head(backlog)
  <2>1. /\ backlog # <<>> /\ backlog' = Tail(backlog) /\ pendingFuncs_' = pendingFuncs_
        /\ conn' = [conn EXCEPT ![b] = "kConnected"]
        /\ server' = (IF b \in m_connections THEN "aborted" ELSE server)
        /\ m_connections' = m_connections \cup {b}
    BY <1>6 DEF OnNewConnection
  <2>2. b \in Clients /\ Holds(backlog, b)
    BY <1>1, <2>1, TailEntries, QueueTail
  <2>3. /\ Distinct(backlog') /\ ~Holds(backlog', b)
        /\ \A c : Holds(backlog', c) => Holds(backlog, c)
    BY <1>1, <2>1, QueueTail
  <2> HIDE DEF b
  <2>4. conn[b] = "none" /\ b \notin m_connections
    BY <1>1, <2>2 DEF InRoom
  <2>5. \A c \in Clients : conn'[c] = IF c = b THEN "kConnected" ELSE conn[c]
    BY <1>1, <2>1
  <2>6. m_connections' = {c \in Clients : conn'[c] \in {"kConnected", "closing"}}
    BY <1>1, <2>1, <2>2, <2>5 DEF InRoom
  <2> QED BY <1>1, <1>2, <2>1, <2>3, <2>4, <2>5, <2>6
<1>7. CASE OnDisConnection
  <2> DEFINE b == Head(pendingFuncs_)
  <2>1. /\ pendingFuncs_ # <<>> /\ pendingFuncs_' = Tail(pendingFuncs_) /\ backlog' = backlog
        /\ conn' = [conn EXCEPT ![b] = "kDisConnected"]
        /\ server' = (IF b \in m_connections THEN server ELSE "aborted")
        /\ m_connections' = m_connections \ {b}
    BY <1>7 DEF OnDisConnection, Erased, network
  <2>2. b \in Clients /\ Holds(pendingFuncs_, b)
    BY <1>1, <2>1, TailEntries, QueueTail
  <2>3. /\ Distinct(pendingFuncs_') /\ ~Holds(pendingFuncs_', b)
        /\ \A c : Holds(pendingFuncs_', c) => Holds(pendingFuncs_, c)
    BY <1>1, <2>1, QueueTail
  <2> HIDE DEF b
  <2>4. conn[b] = "closing" /\ b \in m_connections
    BY <1>1, <2>2 DEF InRoom
  <2>5. \A c \in Clients : conn'[c] = IF c = b THEN "kDisConnected" ELSE conn[c]
    BY <1>1, <2>1
  <2>6. m_connections' = {c \in Clients : conn'[c] \in {"kConnected", "closing"}}
    BY <1>1, <2>1, <2>2, <2>5 DEF InRoom
  <2> QED BY <1>1, <1>2, <2>1, <2>3, <2>4, <2>5, <2>6
<1>8. CASE KillServer
  BY <1>5, <1>8 DEF KillServer
<1>9. ASSUME NEW c \in Clients, ReadMessage(c) \/ ReadStray(c) PROVE RosterInv'
  <2>1. EndServer \/ \E m : OnMessage(c, m)
    BY <1>9 DEF ReadMessage, ReadStray, OnMessageFails
  <2> QED BY <1>1, <1>2, <1>5, <2>1 DEF OnMessage, InRoom
<1>10. ASSUME NEW c \in Clients, ReadClose(c) PROVE RosterInv'
  <2>1. /\ UNCHANGED <<server, m_connections, backlog>> /\ conn[c] = "kConnected"
        /\ conn' = [conn EXCEPT ![c] = "closing"]
        /\ pendingFuncs_' = Append(pendingFuncs_, c)
    BY <1>10 DEF ReadClose, network
  <2>2. ~Holds(pendingFuncs_, c)
    BY <1>1, <2>1
  <2>3. /\ Distinct(pendingFuncs_')
        /\ \A d : Holds(pendingFuncs_', d) => Holds(pendingFuncs_, d) \/ d = c
    BY <1>1, <2>1, <2>2, QueueAppend
  <2>4. \A d \in Clients : conn'[d] = IF d = c THEN "closing" ELSE conn[d]
    BY <1>1, <2>1
  <2>5. m_connections' = {d \in Clients : conn'[d] \in {"kConnected", "closing"}}
    BY <1>1, <2>1, <2>4 DEF InRoom
  <2> QED BY <1>1, <1>2, <2>1, <2>3, <2>4, <2>5
<1> QED BY <1>3, <1>4, <1>6, <1>7, <1>8, <1>9, <1>10 DEF Next, ServerRead

(* Nothing follows the end of a stream to a client.                         *)
LEMMA StreamStep == IInv /\ [Next]_vars => StreamInv'
<1> SUFFICES ASSUME TypeOK, FreshInv, RosterInv, StreamInv, [Next]_vars,
                    NEW d \in Clients
             PROVE  StreamOf(d)'
  BY DEF IInv, StreamInv
<1>1. /\ StreamOf(d) /\ FreshClient(d) /\ down[d] \in Stream /\ backlog \in Seq(Clients)
      /\ conn \in [Clients -> ConnStates] /\ down \in [Clients -> Stream]
      /\ ~Holds(<<>>, d)
  BY DEF StreamInv, FreshInv, TypeOK, Holds
<1>2. ASSUME NEW c \in Clients, ClientStep(c), UNCHANGED serverVars PROVE StreamOf(d)'
  <2>1. OnlyClient(c) /\ (StaysOut(c) \/ Connects(c) \/ Proceeds(c) \/ Ends(c))
    BY <1>2, ClientStepKinds
  <2>2. severed' = severed /\ conn' = conn
    BY <2>1 DEF OnlyClient, serverVars
  <2>3. CASE c # d
    <3>1. /\ client'[d] = client[d] /\ down'[d] = down[d] /\ received'[d] = received[d]
      BY <2>1, <2>3 DEF OnlyClient
    <3>2. backlog' = backlog \/ backlog' = Append(backlog, c)
      BY <2>1 DEF StaysOut, Connects, Proceeds, Ends
    <3>3. Waiting(d)' => Waiting(d)
      <4>1. Holds(Append(backlog, c), d) => Holds(backlog, d) \/ d = c
        BY <1>1, QueueAppend
      <4> QED BY <2>3, <3>2, <4>1 DEF Waiting
    <3> QED BY <1>1, <2>2, <3>1, <3>3 DEF StreamOf, Gone, InRoom
  <2>4. CASE c = d
    <3>1. CASE StaysOut(c)
      BY <1>1, <2>2, <2>4, <3>1 DEF StaysOut, StreamOf, Gone, InRoom, Waiting
    <3>2. CASE Connects(c)
      BY <1>1, <2>2, <2>4, <3>2 DEF Connects, StreamOf, FreshClient, Gone, InRoom
    <3>3. CASE Proceeds(c)
      <4>1. ~Gone(d)' /\ ~Gone(d) /\ backlog' = backlog
        BY <2>4, <3>3 DEF Proceeds, Gone
      <4>2. CASE UNCHANGED <<down, received>>
        BY <1>1, <2>2, <4>1, <4>2 DEF StreamOf, InRoom, Waiting
      <4>3. CASE Reads(c)
        <5>1. down[d] # <<>> /\ down'[d] = Tail(down[d])
          BY <1>1, <2>4, <4>3 DEF Reads
        <5>2. /\ IsOpen(down[d]) => IsOpen(down'[d])
              /\ EndsOnce(down[d]) => EndsOnce(down'[d])
          BY <1>1, <5>1, StreamFacts
        <5> QED BY <1>1, <2>2, <4>1, <5>1, <5>2 DEF StreamOf, InRoom, Waiting
      <4> QED BY <3>3, <4>2, <4>3 DEF Proceeds, Types, PendsLine, RunsFunctor
    <3>4. CASE Ends(c)
      <4>1. down'[d] = <<>> /\ client'[d].conn = "none" /\ backlog' = backlog /\ received' = received
        BY <2>4, <3>4 DEF Ends
      <4> QED BY <1>1, <2>2, <4>1, StreamFacts DEF StreamOf, InRoom, Waiting
    <3> QED BY <2>1, <3>1, <3>2, <3>3, <3>4
  <2> QED BY <2>3, <2>4
<1>3. CASE StartServer \/ OnDisConnection \/ (\E c \in Clients : ReadClose(c)) \/ UNCHANGED vars
  <2>1. UNCHANGED <<client, received, backlog, down, severed>>
    BY <1>3 DEF StartServer, OnDisConnection, ReadClose, vars, clientVars, network
  <2>2. InRoom(d)' => InRoom(d)
    BY <1>1, <1>3 DEF StartServer, OnDisConnection, ReadClose, vars, serverVars, InRoom
  <2> QED BY <1>1, <2>1, <2>2 DEF StreamOf, Gone, Waiting
<1>4. CASE OnNewConnection
  <2>1. /\ UNCHANGED <<client, received, down, severed>> /\ backlog # <<>>
        /\ backlog' = Tail(backlog) /\ conn' = [conn EXCEPT ![Head(backlog)] = "kConnected"]
    BY <1>4 DEF OnNewConnection, clientVars
  <2>2. Waiting(Head(backlog)) /\ (Waiting(d)' => Waiting(d))
    BY <1>1, <2>1, QueueTail DEF Waiting
  <2>3. InRoom(d)' => InRoom(d) \/ Waiting(d)
    BY <1>1, <2>1, <2>2 DEF InRoom
  <2> QED BY <1>1, <2>1, <2>2, <2>3 DEF StreamOf, Gone
<1>5. ASSUME NEW S, NEW m \in Message \union {Closed}, ServerEnds(S, m), S = {} \/ m \in Message
      PROVE  StreamOf(d)'
  <2>1. UNCHANGED <<client, received>> /\ ~InRoom(d)' /\ ~Waiting(d)'
    BY <1>1, <1>5 DEF ServerEnds, EndServer, clientVars, InRoom, Waiting
  <2>2. CASE d \notin Connected
    BY <1>1, <1>5, <2>1, <2>2 DEF ServerEnds, StreamOf, Gone
  <2>3. CASE d \in Connected
    <3>1. IsOpen(down[d]) /\ ~Gone(d)
      BY <1>1, <2>3 DEF Connected, StreamOf
    <3>2. \/ \E n \in 0..Len(down[d]) : down'[d] = Cut(down[d], n)
          \/ m \in Message /\ \E n \in 0..Len(Append(down[d], m)) : down'[d] = Cut(Append(down[d], m), n)
      BY <1>5, <2>3 DEF ServerEnds
    <3>3. m \in Message => Append(down[d], m) \in Stream /\ IsOpen(Append(down[d], m))
      BY <1>1, <3>1, StreamFacts, AppendProperties DEF Stream
    <3>4. EndsOnce(down'[d])
      BY <1>1, <3>1, <3>2, <3>3, CutOpen
    <3> QED BY <1>5, <2>1, <2>3, <3>1, <3>4 DEF ServerEnds, StreamOf, Gone
  <2> QED BY <2>2, <2>3
<1>6. CASE KillServer
  BY <1>5, <1>6, KillServerFacts DEF KillServer
<1>7. ASSUME NEW m, Handles(m) PROVE StreamOf(d)'
  <2>1. m \in Message
    BY <1>7 DEF Handles
  <2>2. CASE \E S \in SUBSET Clients : ServerEnds(S, m)
    BY <1>5, <2>1, <2>2
  <2>3. CASE SentToAll(m)
    <3>1. UNCHANGED <<client, received, backlog, severed, conn>>
      BY <1>7, <2>3 DEF Handles, SentToAll, clientVars
    <3>2. CASE ~(Receiving(d) /\ <<"down", d>> \notin strays')
      BY <1>1, <2>3, <3>1, <3>2 DEF SentToAll, StreamOf, Gone, InRoom, Waiting
    <3>3. CASE Receiving(d) /\ <<"down", d>> \notin strays'
      <4>1. d \notin severed /\ IsOpen(down[d]) /\ ~Gone(d) /\ conn[d] # "none"
        BY <1>1, <3>3 DEF StreamOf, Receiving, InRoom
      <4>2. IsOpen(down'[d])
        BY <1>1, <2>1, <2>3, <3>3, <4>1, StreamFacts DEF SentToAll
      <4>3. ~Waiting(d)
        BY <4>1 DEF RosterInv
      <4> QED BY <3>1, <4>1, <4>2, <4>3 DEF StreamOf, Gone, Waiting
    <3> QED BY <3>2, <3>3
  <2> QED BY <1>7, <2>2, <2>3 DEF Handles
<1>8. ASSUME NEW c \in Clients, ReadMessage(c) \/ ReadStray(c) PROVE StreamOf(d)'
  BY <1>5, <1>7, <1>8, ReadMessageFacts, ReadStrayFacts
<1> QED BY <1>2, <1>3, <1>4, <1>6, <1>8 DEF Next, ServerRead

(* What a client has seen is a run of the log, and up to its end while both *)
(* ends of the connection are there.                                        *)
LEMMA RunStep == IInv /\ [Next]_vars => RunInv'
<1> SUFFICES ASSUME TypeOK, FreshInv, RosterInv, StreamInv, RunInv, [Next]_vars,
                    NEW d \in Clients
             PROVE  RunOf(d)'
  BY DEF IInv, RunInv
<1>1. /\ StreamOf(d) /\ FreshClient(d) /\ RunOf(d)
      /\ down[d] \in Stream /\ EndsOnce(down[d])
      /\ received[d] \in Seq(Message) /\ log \in Seq(Message) /\ joined[d] \in Nat
      /\ conn \in [Clients -> ConnStates] /\ down \in [Clients -> Stream]
      /\ received \in [Clients -> Seq(Message)] /\ joined \in [Clients -> Nat]
  BY StreamFacts DEF StreamInv, StreamOf, FreshInv, RunInv, TypeOK
<1>2. Messages(down[d]) \in Seq(Message) /\ Seen(d) \in Seq(Message)
  BY <1>1, MessagesFacts, ConcatProperties DEF Seen
<1>3. ASSUME Seen(d)' = Seen(d), UNCHANGED <<log, joined>>, Whole(d)' => Whole(d)
      PROVE  RunOf(d)'
  BY <1>1, <1>3 DEF RunOf
<1>4. ASSUME NEW m \in Message, log' \in {log, Append(log, m)},
             joined' = joined, ~Whole(d)', NEW s \in Seq(Message), Seen(d)' = s,
             IsRun(s, log, joined[d])
      PROVE  RunOf(d)'
  BY <1>1, <1>4, RunGrows DEF RunOf
<1>5. ASSUME NEW m \in Message, log' \in {log, Append(log, m)}, joined' = joined,
             Seen(d)' = Seen(d), ~Whole(d)'
      PROVE  RunOf(d)'
  BY <1>1, <1>2, <1>5, RunGrows DEF RunOf
<1>6. ASSUME NEW m \in Message, log' = Append(log, m), joined' = joined,
             Seen(d)' = Append(Seen(d), m), Whole(d)
      PROVE  RunOf(d)'
  BY <1>1, <1>2, <1>6, RunGrows DEF RunOf
<1>7. ASSUME NEW c \in Clients, ClientStep(c), UNCHANGED serverVars PROVE RunOf(d)'
  <2>1. OnlyClient(c) /\ (StaysOut(c) \/ Connects(c) \/ Proceeds(c) \/ Ends(c))
    BY <1>7, ClientStepKinds
  <2>2. UNCHANGED <<log, joined, conn>> /\ (<<"down", d>> \in strays => <<"down", d>> \in strays')
    BY <2>1 DEF OnlyClient, serverVars
  <2>3. CASE UNCHANGED <<down, received>> /\ (Gone(d) => Gone(d)')
    BY <1>3, <2>2, <2>3 DEF Seen, Whole, Receiving, InRoom
  <2>4. CASE c # d
    <3>1. /\ client'[d] = client[d] /\ down'[d] = down[d] /\ received'[d] = received[d]
      BY <2>1, <2>4 DEF OnlyClient
    <3> QED BY <1>3, <2>2, <3>1 DEF Seen, Whole, Receiving, InRoom, Gone
  <2>5. CASE c = d
    <3>1. CASE StaysOut(c) \/ Connects(c)
      BY <2>3, <2>5, <3>1 DEF StaysOut, Connects, Fresh, Gone
    <3>2. CASE Proceeds(c)
      <4>1. ~Gone(d)
        BY <2>5, <3>2 DEF Proceeds, Gone
      <4>2. CASE Reads(c)
        <5>1. down[d] # <<>> /\ down'[d] = Tail(down[d])
          BY <1>1, <2>5, <4>2 DEF Reads
        <5>2. CASE Head(down[d]) = Closed
          <6>1. received'[d] = received[d]
            BY <2>5, <4>2, <5>2 DEF Reads
          <6>2. Messages(down'[d]) = Messages(down[d])
            BY <1>1, <5>1, <5>2, MessagesFacts
          <6> QED BY <1>3, <2>2, <4>1, <6>1, <6>2 DEF Seen, Whole, Receiving, InRoom
        <5>3. CASE Head(down[d]) # Closed
          <6> DEFINE m == Head(down[d])
                     x == Messages(Tail(down[d]))
          <6>1. received'[d] = Append(received[d], m)
            BY <1>1, <2>5, <4>2, <5>3 DEF Reads
          <6>2. Messages(down[d]) = <<m>> \o x /\ x \in Seq(Message) /\ m \in Message
            <7>1. Tail(down[d]) \in Stream /\ m \in Message
              BY <1>1, <5>1, <5>3, TailEntries DEF Stream
            <7>2. EndsOnce(Tail(down[d]))
              BY <1>1, <5>1, StreamFacts
            <7> QED BY <1>1, <5>1, <5>3, <7>1, <7>2, MessagesFacts
          <6> HIDE DEF m
          <6>3. Messages(down'[d]) = x
            BY <5>1
          <6> HIDE DEF x
          <6>4. Append(received[d], m) \o x = received[d] \o (<<m>> \o x)
            <7>1. Append(received[d], m) = received[d] \o <<m>> /\ <<m>> \in Seq(Message)
              BY <1>1, <6>2, AppendIsConcat
            <7> QED BY <1>1, <6>2, <7>1, ConcatAssociative
          <6>5. Seen(d)' = Seen(d)
            BY <6>1, <6>2, <6>3, <6>4 DEF Seen
          <6> QED BY <1>3, <2>2, <4>1, <6>5 DEF Whole, Receiving, InRoom
        <5> QED BY <5>2, <5>3
      <4> QED BY <2>3, <3>2, <4>1, <4>2 DEF Proceeds, Types, PendsLine, RunsFunctor
    <3>3. CASE Ends(c)
      <4>1. Gone(d)' /\ down'[d] = <<>> /\ received'[d] = received[d]
        BY <2>5, <3>3 DEF Ends, Gone
      <4>2. Seen(d)' = received[d] /\ ~Receiving(d)'
        BY <1>1, <4>1, MessagesFacts, ConcatEmptySeq DEF Seen, Receiving
      <4>3. IsRun(received[d], log, joined[d])
        BY <1>1, <1>2, RunPrefix DEF RunOf, Seen
      <4> QED BY <2>2, <4>2, <4>3 DEF RunOf, Whole
    <3> QED BY <2>1, <3>1, <3>2, <3>3
  <2> QED BY <2>4, <2>5
<1>8. CASE StartServer \/ OnDisConnection \/ (\E c \in Clients : ReadClose(c)) \/ UNCHANGED vars
  <2>1. UNCHANGED <<client, received, down, strays, log, joined>>
    BY <1>8 DEF StartServer, OnDisConnection, ReadClose, vars, clientVars, network, serverVars
  <2>2. InRoom(d)' => InRoom(d)
    BY <1>1, <1>8 DEF StartServer, OnDisConnection, ReadClose, vars, serverVars, InRoom
  <2> QED BY <1>3, <2>1, <2>2 DEF Seen, Whole, Receiving, Gone
<1>9. CASE OnNewConnection
  <2> DEFINE b == Head(backlog)
  <2>1. /\ UNCHANGED <<client, received, down, strays, log>> /\ backlog # <<>>
        /\ conn' = [conn EXCEPT ![b] = "kConnected"]
        /\ joined' = [joined EXCEPT ![b] = Len(log)]
    BY <1>9 DEF OnNewConnection, clientVars
  <2>2. Waiting(b)
    BY <2>1, QueueTail DEF Waiting, TypeOK
  <2> HIDE DEF b
  <2>3. CASE b # d
    <3>1. joined'[d] = joined[d] /\ conn'[d] = conn[d]
      BY <1>1, <2>1, <2>3
    <3> QED BY <1>1, <2>1, <3>1 DEF RunOf, Seen, Whole, Receiving, InRoom, Gone
  <2>4. CASE b = d
    <3>1. received[d] = <<>> /\ down[d] = <<>>
      BY <1>1, <2>2, <2>4 DEF StreamOf
    <3>2. Seen(d)' = <<>> /\ joined'[d] = Len(log) /\ log' = log
      BY <1>1, <2>1, <2>4, <3>1, MessagesFacts, ConcatEmptySeq DEF Seen
    <3>3. Len(log) \in Nat /\ Len(<<>>) = 0
      BY <1>1, LenProperties
    <3> QED BY <3>2, <3>3 DEF RunOf, IsRun
  <2> QED BY <2>3, <2>4
<1>10. ASSUME NEW S, NEW m \in Message, ServerEnds(S, m),
              \/ log' = log /\ S = {}
              \/ log' = Append(log, m)
      PROVE  RunOf(d)'
  <2>1. client' = client /\ received' = received /\ joined' = joined /\ ~Whole(d)'
    BY <1>1, <1>10 DEF ServerEnds, EndServer, clientVars, InRoom, Receiving, Whole
  <2>2. CASE d \notin Connected
    <3>1. Seen(d)' = Seen(d)
      BY <1>10, <2>1, <2>2 DEF ServerEnds, Seen
    <3> QED BY <1>5, <1>10, <2>1, <3>1
  <2>3. CASE d \in Connected
    <3>1. IsOpen(down[d]) /\ ~Gone(d)
      BY <1>1, <2>3 DEF Connected, StreamOf
    <3>2. Messages(down[d]) = down[d] /\ down[d] \in Seq(Message)
      BY <1>1, <3>1, OpenFacts
    <3>3. CASE \E n \in 0..Len(down[d]) : down'[d] = Cut(down[d], n)
      <4>1. PICK n \in 0..Len(down[d]) : down'[d] = Cut(down[d], n)
        BY <3>3
      <4> DEFINE s == received[d] \o SubSeq(down[d], 1, n)
      <4>2. Seen(d)' = s
        BY <1>1, <2>1, <3>1, <4>1, CutOpen DEF Seen
      <4>3. IsRun(received[d] \o down[d], log, joined[d])
        BY <1>1, <3>2 DEF RunOf, Seen
      <4>4. s \in Seq(Message) /\ IsRun(s, log, joined[d])
        BY <1>1, <3>2, <4>3, CutRun
      <4> HIDE DEF s
      <4> QED BY <1>4, <1>10, <2>1, <4>2, <4>4
    <3>4. CASE d \in S
      <4> DEFINE w == Append(down[d], m)
      <4>1. (\E n \in 0..Len(w) : down'[d] = Cut(w, n)) /\ log' = Append(log, m) /\ Whole(d)
        BY <1>10, <3>4 DEF ServerEnds
      <4>2. PICK n \in 0..Len(w) : down'[d] = Cut(w, n)
        BY <4>1
      <4>3. w \in Stream /\ IsOpen(w) /\ w \in Seq(Message)
        BY <1>1, <3>1, <3>2, StreamFacts, AppendProperties DEF Stream
      <4>4. received[d] \o w = Append(Seen(d), m)
        BY <1>1, <3>2, AppendIsConcat, ConcatAssociative, ConcatProperties DEF Seen
      <4>5. IsRun(received[d] \o w, log', joined[d])
        BY <1>1, <1>2, <4>1, <4>4, RunGrows DEF RunOf
      <4> HIDE DEF w
      <4>6. log' \in Seq(Message)
        BY <1>1, <4>1, AppendProperties
      <4> DEFINE s == received[d] \o SubSeq(w, 1, n)
      <4>7. Seen(d)' = s
        BY <2>1, <4>2, <4>3, CutOpen DEF Seen
      <4>8. IsRun(s, log', joined[d])
        BY <1>1, <4>3, <4>5, <4>6, CutRun
      <4> HIDE DEF s
      <4> QED BY <2>1, <4>7, <4>8 DEF RunOf
    <3> QED BY <1>10, <2>3, <3>3, <3>4 DEF ServerEnds
  <2> QED BY <2>2, <2>3
<1>13. ASSUME ServerEnds({}, Closed), log' = log PROVE RunOf(d)'
  <2>1. ServerEnds({}, Garbled(d)) /\ Garbled(d) \in Message
    BY <1>13, GarbledFacts DEF ServerEnds
  <2> QED BY <1>10, <1>13, <2>1
<1>11. CASE KillServer
  BY <1>11, <1>13, KillServerFacts DEF KillServer
<1>12. ASSUME NEW m, Handles(m) PROVE RunOf(d)'
  <2>1. m \in Message /\ log' = Append(log, m)
    BY <1>12 DEF Handles
  <2>2. CASE \E S \in SUBSET Clients : ServerEnds(S, m)
    BY <1>10, <2>1, <2>2
  <2>3. CASE SentToAll(m)
    <3>1. UNCHANGED <<client, received, conn, joined>>
      BY <1>12, <2>3 DEF Handles, SentToAll, clientVars
    <3>2. CASE ~(Receiving(d) /\ <<"down", d>> \notin strays')
      <4>1. Seen(d)' = Seen(d) /\ ~Whole(d)'
        BY <2>3, <3>1, <3>2 DEF SentToAll, Seen, Whole, Receiving, InRoom, Gone
      <4> QED BY <1>5, <2>1, <3>1, <4>1
    <3>3. CASE Receiving(d) /\ <<"down", d>> \notin strays'
      <4>1. IsOpen(down[d]) /\ down'[d] = Append(down[d], m)
        BY <1>1, <2>3, <3>3 DEF StreamOf, Receiving, SentToAll
      <4>2. Append(down[d], m) \in Stream /\ IsOpen(Append(down[d], m))
        BY <1>1, <2>1, <4>1, StreamFacts, AppendProperties DEF Stream
      <4>3. /\ Messages(down'[d]) = Append(down[d], m) /\ Messages(down[d]) = down[d]
            /\ down[d] \in Seq(Message)
        BY <1>1, <4>1, <4>2, OpenFacts
      <4>4. received[d] \o Append(down[d], m) = Append(received[d] \o down[d], m)
        BY <1>1, <2>1, <4>3, AppendIsConcat, ConcatAssociative, ConcatProperties
      <4>5. Seen(d)' = Append(Seen(d), m)
        BY <3>1, <4>3, <4>4 DEF Seen
      <4>6. Whole(d)
        BY <2>3, <3>3 DEF SentToAll, Whole
      <4> QED BY <1>6, <2>1, <3>1, <4>5, <4>6
    <3> QED BY <3>2, <3>3
  <2> QED BY <1>12, <2>2, <2>3 DEF Handles
<1>14. ASSUME NEW c \in Clients, ReadMessage(c) \/ ReadStray(c) PROVE RunOf(d)'
  BY <1>12, <1>13, <1>14, ReadMessageFacts, ReadStrayFacts
<1> QED BY <1>7, <1>8, <1>9, <1>11, <1>14 DEF Next, ServerRead

(* The order of a client's lines: a client that types, pends and sends them *)
(* keeps it, and so does the server when it reads them.                     *)
LEMMA LinesStep == IInv /\ [Next]_vars => LinesInv'
<1> SUFFICES ASSUME IInv, [Next]_vars PROVE LinesInv'
  OBVIOUS
<1>1. /\ TypeOK /\ FreshInv /\ RosterInv /\ StreamInv
      /\ InOrder(log) /\ GarbledOnce /\ \A d \in Clients : LinesOf(d)
      /\ client \in [Clients -> ClientObjects] /\ up \in [Clients -> Stream]
      /\ log \in Seq(Message)
  BY DEF IInv, LinesInv, TypeOK
<1>2. ASSUME log' = log, misread \subseteq misread', UNCHANGED <<client, up>> PROVE LinesInv'
  BY <1>1, <1>2 DEF LinesInv, LinesOf, GarbledOnce, Sends, Typed, Earlier, Gone
<1>3. ASSUME NEW c \in Clients, ClientStep(c), UNCHANGED serverVars PROVE LinesInv'
  <2>1. OnlyClient(c) /\ (StaysOut(c) \/ Connects(c) \/ Proceeds(c) \/ Ends(c))
    BY <1>1, <1>3, ClientStepKinds
  <2>2. log' = log /\ misread' = misread
    BY <1>3 DEF serverVars
  <2> SUFFICES ASSUME NEW d \in Clients PROVE LinesOf(d)'
    BY <1>1, <2>2 DEF LinesInv, GarbledOnce
  <2>3. /\ LinesOf(d) /\ up[d] \in Stream /\ client[d].pendingFuncs_ \in Seq(Functor)
        /\ client[d].lines \in Nat /\ Entries(log) \subseteq Message
        /\ InOrder(up[d]) /\ Entries(up[d]) \ {Closed} \subseteq Message
    BY <1>1, EntriesFacts DEF ClientObjects, LinesOf, Stream
  <2>4. ASSUME up'[d] = up[d], Gone(d) => Gone(d)', Sends(d)' = Sends(d), Typed(d)' = Typed(d),
               ~Gone(d) /\ SendsInOrder(client[d].pendingFuncs_) => SendsInOrder(client'[d].pendingFuncs_)
        PROVE  LinesOf(d)'
    BY <2>2, <2>3, <2>4 DEF LinesOf, Earlier
  <2>5. ASSUME up'[d] = up[d], Gone(d) <=> Gone(d)', client'[d].sending = client[d].sending,
               client'[d].lines = client[d].lines,
               client'[d].pendingFuncs_ = client[d].pendingFuncs_
        PROVE  LinesOf(d)'
    BY <2>4, <2>5 DEF Sends, Typed
  <2>6. CASE c # d
    BY <2>1, <2>5, <2>6 DEF OnlyClient, Gone
  <2>7. CASE c = d /\ (StaysOut(c) \/ Connects(c))
    BY <2>5, <2>7 DEF StaysOut, Connects, Fresh, Gone
  <2>8. CASE c = d /\ Ends(c)
    <3>1. Gone(d)'
      BY <2>8 DEF Ends, Gone
    <3>2. \A n \in 0..Len(up[d]) : /\ InOrder(Cut(up[d], n))
                                   /\ Entries(Cut(up[d], n)) \ {Closed} \subseteq Entries(up[d]) \ {Closed}
      BY <2>3, CutFacts
    <3>3. InOrder(up'[d]) /\ Entries(up'[d]) \ {Closed} \subseteq Entries(up[d]) \ {Closed}
      <4>1. up'[d] = up[d] \/ \E n \in 0..Len(up[d]) : up'[d] = Cut(up[d], n)
        BY <1>1, <2>8 DEF Ends, EndClient
      <4> QED BY <2>3, <3>2, <4>1
    <3> QED BY <2>2, <2>3, <3>1, <3>3 DEF LinesOf
  <2>9. CASE c = d /\ Proceeds(c)
    <3> DEFINE q == client[d].pendingFuncs_
    <3>1. /\ ~Gone(d) /\ ~Gone(d)' /\ SendsInOrder(q)
          /\ \A m \in Entries(log) : m[1] = d => Earlier(d, m)
          /\ \A m \in Entries(up[d]) \ {Closed} : Earlier(d, m)
          /\ \A m \in Sends(d) : m[1] = d /\ m[2] <= Typed(d)
          /\ Sends(d) = SendsIn(q) /\ SendsIn(q) \subseteq Message
      BY <2>3, <2>9, SendsFacts DEF Proceeds, Gone, LinesOf, Sends
    <3> HIDE DEF q
    <3>2. CASE Types(c)
      <4>1. up'[d] = up[d] /\ client'[d].pendingFuncs_ = client[d].pendingFuncs_
        BY <2>9, <3>2 DEF Types
      <4>2. Typed(d)' = Typed(d)
        BY <2>3, <2>9, <3>2 DEF Types, Typed
      <4> QED BY <2>4, <3>1, <4>1, <4>2 DEF Sends
    <3>3. CASE PendsLine(c)
      <4> DEFINE m == <<d, client[d].lines>>
      <4>1. /\ up'[d] = up[d] /\ client'[d].pendingFuncs_ = Append(q, <<"send", m>>)
            /\ Typed(d)' = client[d].lines /\ Typed(d) = client[d].lines - 1
        BY <2>9, <3>3 DEF PendsLine, q, Typed
      <4>2. m \in Message /\ m[1] = d /\ m[2] = client[d].lines
        BY <2>3 DEF Message, Author
      <4> HIDE DEF m
      <4>3. \A l \in Message : l[2] <= Typed(d) => l[2] < m[2] /\ l[2] <= Typed(d)'
        BY <2>3, <4>1, <4>2 DEF Message
      <4>4. Sends(d)' = Sends(d) \union {m} /\ SendsInOrder(client'[d].pendingFuncs_)
        <5>1. \A l \in SendsIn(q) : l[2] < m[2]
          BY <3>1, <4>3
        <5> QED BY <2>3, <3>1, <4>1, <4>2, <5>1, SendsFacts DEF Sends, q
      <4>5. \A l \in Message : Earlier(d, l) => Earlier(d, l)'
        BY <4>3, <4>4 DEF Earlier
      <4>6. \A l \in Sends(d)' : l[1] = d /\ l[2] <= Typed(d)'
        <5>1. m[2] <= Typed(d)'
          BY <2>3, <4>1, <4>2
        <5> QED BY <3>1, <4>2, <4>3, <4>4, <5>1
      <4> QED BY <2>2, <2>3, <3>1, <4>1, <4>4, <4>5, <4>6 DEF LinesOf
    <3>4. CASE Reads(c)
      <4>1. up'[d] = up[d] /\ Typed(d)' = Typed(d)
        BY <2>9, <3>4 DEF Reads, Typed
      <4>2. client'[d].pendingFuncs_ \in {q, Append(q, <<"destroy">>)}
        BY <2>9, <3>4 DEF Reads, q
      <4>3. Sends(d)' = Sends(d) /\ SendsInOrder(client'[d].pendingFuncs_)
        BY <2>3, <3>1, <4>2, SendsFacts DEF Sends, q
      <4> QED BY <2>4, <3>1, <4>1, <4>3
    <3>5. CASE RunsFunctor(c)
      <4> DEFINE m == Head(q)[2]
      <4>1. /\ q # <<>> /\ client'[d].pendingFuncs_ = Tail(q) /\ Typed(d)' = Typed(d)
            /\ \/ up'[d] = up[d]
               \/ Head(q)[1] = "send" /\ up'[d] = Append(up[d], m)
        BY <1>1, <2>9, <3>5 DEF RunsFunctor, Typed, q
      <4>2. /\ SendsInOrder(client'[d].pendingFuncs_) /\ Sends(d)' = SendsIn(Tail(q))
            /\ SendsIn(Tail(q)) \subseteq SendsIn(q)
            /\ Head(q)[1] = "send" => m \in SendsIn(q) /\ \A n \in SendsIn(Tail(q)) : m[2] < n[2]
        BY <2>3, <3>1, <4>1, SendsFacts DEF Sends, q
      <4> HIDE DEF m
      <4>3. \A l : Earlier(d, l) => Earlier(d, l)'
        BY <3>1, <4>1, <4>2 DEF Earlier
      <4>4. \A l \in Sends(d)' : l[1] = d /\ l[2] <= Typed(d)'
        BY <3>1, <4>1, <4>2
      <4>5. CASE up'[d] = up[d]
        BY <2>2, <2>3, <3>1, <4>2, <4>3, <4>4, <4>5 DEF LinesOf
      <4>6. CASE Head(q)[1] = "send" /\ up'[d] = Append(up[d], m)
        <5>1. m \in SendsIn(q) /\ m \in Message /\ m[1] = d /\ m # Closed
          BY <3>1, <4>2, <4>6, MessagesAreNotClosed
        <5>2. /\ \A l \in Entries(log) : l[1] = d => l[2] < m[2]
              /\ \A l \in Entries(up[d]) \ {Closed} : l[2] < m[2]
          BY <3>1, <5>1 DEF Earlier
        <5>3. InOrder(up'[d]) /\ Entries(up'[d]) = Entries(up[d]) \union {m}
          <6>1. up[d] \in Seq(Message \union {Closed}) /\ m \in Message \union {Closed}
            BY <2>3, <5>1 DEF Stream
          <6>2. \A l \in Entries(up[d]) : Before(l, m)
            BY <5>2 DEF Before
          <6> QED BY <2>3, <4>6, <6>1, <6>2, OrderFacts, EntriesFacts
        <5>4. m[2] <= Typed(d)' /\ \A n \in Sends(d)' : m[2] < n[2]
          BY <3>1, <4>1, <4>2, <4>6, <5>1 DEF Earlier
        <5>5. \A l \in Entries(up[d]) \ {Closed} :
                l[1] = d /\ \A k \in Entries(log) : k[1] = d => k[2] < l[2]
          BY <2>3 DEF LinesOf
        <5>6. \A l \in Entries(up'[d]) \ {Closed} : l \in Entries(up[d]) \ {Closed} \/ l = m
          BY <5>3
        <5>7. \A l \in Entries(up'[d]) \ {Closed} :
                l[1] = d /\ \A k \in Entries(log) : k[1] = d => k[2] < l[2]
          BY <5>1, <5>2, <5>5, <5>6
        <5>8. \A l \in Entries(up'[d]) \ {Closed} : Earlier(d, l)'
          <6>1. \A l : l = m => Earlier(d, l)'
            BY <5>4 DEF Earlier
          <6> QED BY <3>1, <4>3, <5>6, <6>1
        <5> QED BY <2>2, <3>1, <4>2, <4>3, <4>4, <5>3, <5>7, <5>8 DEF LinesOf
      <4> QED BY <4>1, <4>5, <4>6
    <3> QED BY <2>9, <3>2, <3>3, <3>4, <3>5 DEF Proceeds
  <2> QED BY <2>1, <2>6, <2>7, <2>8, <2>9
<1>4. ASSUME NEW c \in Clients, ReadMessage(c) PROVE LinesInv'
  <2> DEFINE m == Head(up[c])
  <2>1. /\ m \in Message /\ log' = Append(log, m) /\ client' = client
        /\ up[c] # <<>> /\ up' = [up EXCEPT ![c] = Tail(up[c])]
    BY <1>1, <1>4, ReadMessageFacts DEF ReadsLine, Handles, clientVars
  <2>2. LinesOf(c) /\ up[c] \in Seq(Message \union {Closed})
    BY <1>1 DEF Stream
  <2>3. /\ m \in Entries(up[c]) \ {Closed} /\ m[1] = c
        /\ Entries(up'[c]) \subseteq Entries(up[c])
        /\ InOrder(up'[c]) /\ \A x \in Entries(up'[c]) : Before(m, x)
    BY <1>1, <2>1, <2>2, OrderFacts, EntriesFacts, MessagesAreNotClosed DEF LinesOf
  <2>4. Entries(log') = Entries(log) \union {m} /\ Entries(log) \subseteq Message
    BY <1>1, <2>1, EntriesFacts
  <2>7. misread' = misread
    BY <1>4 DEF ReadMessage
  <2> HIDE DEF m
  <2>5. InOrder(log')
    <3>1. \A l \in Entries(log) : Before(l, m)
      BY <2>2, <2>3 DEF LinesOf, Before
    <3> QED BY <1>1, <2>1, <3>1, OrderFacts
  <2>8. GarbledOnce'
    <3>1. \A d \in Clients : m[1] # <<"garbled", d>>
      BY <2>3, GarbledAssumption
    <3> QED BY <1>1, <2>4, <2>7, <3>1 DEF GarbledOnce
  <2>6. ASSUME NEW d \in Clients PROVE LinesOf(d)'
    <3>1. LinesOf(d) /\ UNCHANGED <<Sends(d), Typed(d), Gone(d), client[d].pendingFuncs_>>
      BY <1>1, <2>1 DEF Sends, Typed, Gone
    <3>2. \A l : Earlier(d, l) => Earlier(d, l)'
      BY <3>1 DEF Earlier
    <3>3. CASE d # c
      <4>1. up'[d] = up[d] /\ \A l \in Entries(log') : l[1] = d => l \in Entries(log)
        BY <1>1, <2>1, <2>3, <2>4, <3>3
      <4> QED BY <3>1, <3>2, <4>1 DEF LinesOf
    <3>4. CASE d = c
      <4>1. \A x \in Entries(up'[c]) \ {Closed} : x[1] = c /\ m[2] < x[2]
        BY <2>2, <2>3, MessagesAreNotClosed DEF LinesOf, Before
      <4>2. \A x \in Entries(up'[c]) \ {Closed} :
              x[1] = c /\ \A l \in Entries(log') : l[1] = c => l[2] < x[2]
        BY <2>2, <2>3, <2>4, <4>1 DEF LinesOf
      <4>3. ~Gone(c) => /\ \A l \in Entries(log') : l[1] = c => Earlier(c, l)'
                        /\ \A l \in Entries(up'[c]) \ {Closed} : Earlier(c, l)'
        BY <2>2, <2>3, <2>4, <3>2, <3>4 DEF LinesOf
      <4> QED BY <2>3, <3>1, <3>4, <4>2, <4>3 DEF LinesOf
    <3> QED BY <3>3, <3>4
  <2> QED BY <2>5, <2>6, <2>8 DEF LinesInv
<1>7. ASSUME NEW c \in Clients, ReadStray(c) PROVE LinesInv'
  <2> DEFINE m == Garbled(c)
  <2>1. up' = up /\ c \notin misread /\ misread' = misread \cup {c} /\ client' = client
    BY <1>7 DEF ReadStray, clientVars
  <2>2. /\ m \in Message /\ m[1] = <<"garbled", c>>
        /\ \A d \in Clients : m[1] # d /\ (m[1] = <<"garbled", d>> => c = d)
    BY GarbledFacts
  <2>3. log' = log \/ log' = Append(log, m)
    BY <1>7 DEF ReadStray
  <2> HIDE DEF m
  <2>4. CASE log' = log
    BY <1>2, <2>1, <2>4
  <2>5. CASE log' = Append(log, m)
    <3>1. Entries(log') = Entries(log) \union {m} /\ Entries(log) \subseteq Message
      BY <1>1, <2>2, <2>5, EntriesFacts
    <3>2. InOrder(log')
      <4>1. \A l \in Entries(log) : l[1] # m[1]
        BY <1>1, <2>1, <2>2 DEF GarbledOnce
      <4> QED BY <1>1, <2>2, <2>5, <4>1, OrderFacts DEF Before
    <3>3. GarbledOnce'
      BY <1>1, <2>1, <2>2, <3>1 DEF GarbledOnce
    <3>4. ASSUME NEW d \in Clients PROVE LinesOf(d)'
      <4>1. LinesOf(d) /\ UNCHANGED <<Sends(d), Typed(d), Gone(d), client[d].pendingFuncs_>>
        BY <1>1, <2>1 DEF Sends, Typed, Gone
      <4>2. \A l : Earlier(d, l) => Earlier(d, l)'
        BY <4>1 DEF Earlier
      <4>3. up'[d] = up[d] /\ \A l \in Entries(log') : l[1] = d => l \in Entries(log)
        BY <2>1, <2>2, <3>1
      <4> QED BY <4>1, <4>2, <4>3 DEF LinesOf
    <3> QED BY <3>2, <3>3, <3>4 DEF LinesInv
  <2> QED BY <2>3, <2>4, <2>5
<1>5. CASE StartServer \/ KillServer \/ OnNewConnection \/ OnDisConnection \/ UNCHANGED vars
  BY <1>2, <1>5 DEF StartServer, KillServer, OnNewConnection, OnDisConnection, vars, clientVars,
                    network, serverVars
<1>6. ASSUME NEW c \in Clients, ReadClose(c) PROVE LinesInv'
  BY <1>2, <1>6 DEF ReadClose, clientVars, network
<1> QED BY <1>3, <1>4, <1>5, <1>6, <1>7 DEF Next, ServerRead
-----------------------------------------------------------------------------
(* The invariant behind the theorems below: it is inductive.                *)
THEOREM Invariance == Spec => []IInv
<1>1. IInv /\ [Next]_vars => IInv'
  BY TypeStep, FreshStep, RosterStep, StreamStep, RunStep, LinesStep DEF IInv
<1> QED BY InitInv, <1>1, PTL DEF Spec

(* OnNewConnection and OnDisConnection: whoever is in m_connections has a   *)
(* connection that OnDisConnection has not been called for, and the asserts *)
(* on the list hold, whichever order the two ends go in.                    *)
THEOREM RosterStaysRight == Spec => []RosterIsRight
<1>1. IInv => RosterIsRight
  BY DEF IInv, RosterInv
<1> QED BY <1>1, Invariance, PTL

(* OnMessage: every client sees the same conversation without a gap, from   *)
(* the moment it joined, as far as no stray byte comes into its stream, and *)
(* the lines of each in the order typed.                                    *)
THEOREM ConversationIsTheSame == Spec => []SameConversation
<1>1. IInv => SameConversation
  <2> SUFFICES ASSUME IInv PROVE SameConversation
    OBVIOUS
  <2>1. ASSUME NEW c \in Clients
        PROVE  /\ joined[c] + Len(Seen(c)) <= Len(log)
               /\ Seen(c) = SubSeq(log, joined[c] + 1, joined[c] + Len(Seen(c)))
               /\ conn[c] = "kConnected" /\ ~Gone(c) /\ <<"down", c>> \notin strays
                    => joined[c] + Len(Seen(c)) = Len(log)
    <3>1. /\ down[c] \in Stream /\ EndsOnce(down[c]) /\ received[c] \in Seq(Message)
          /\ log \in Seq(Message) /\ joined[c] \in Nat /\ RunOf(c)
      BY StreamFacts DEF IInv, TypeOK, StreamInv, StreamOf, RunInv
    <3>2. Seen(c) \in Seq(Message)
      BY <3>1, MessagesFacts, ConcatProperties DEF Seen
    <3> QED BY <3>1, <3>2, RunIsSubSeq DEF RunOf, Whole, Receiving, InRoom
  <2>2. ASSUME NEW i \in 1..Len(log), NEW j \in 1..Len(log), i < j, log[i][1] = log[j][1]
        PROVE  log[i][2] < log[j][2]
    <3>1. log \in Seq(Message) /\ InOrder(log) /\ DOMAIN log = 1..Len(log)
      BY LenProperties DEF IInv, TypeOK, LinesInv
    <3>2. log[i] # Closed /\ log[j] # Closed
      BY <3>1, ElementOfSeq, MessagesAreNotClosed
    <3> QED BY <2>2, <3>1, <3>2 DEF InOrder
  <2> QED BY <2>1, <2>2 DEF SameConversation, Seen
<1> QED BY <1>1, Invariance, PTL
=============================================================================
