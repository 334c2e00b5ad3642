------------------------ MODULE SingleThreadedProofs ------------------------
(***************************************************************************)
(* Proofs about Buffer, for any set of bytes, any sizes and any bound;     *)
(* about Codec, for any messages and sizes; and about the texts of         *)
(* LogStream.  Valid and Holds are stated of any buffer and any content,   *)
(* so that each operation of the code gets a lemma of its own.             *)
(***************************************************************************)
EXTENDS SingleThreaded, SequenceTheorems, WellFoundedInduction, TLAPS

BufferRecords == [buf_ : Seq(Nat), readindex_ : Nat, writeindex_ : Nat]

Valid(b) ==
    /\ b \in BufferRecords
    /\ b.readindex_ <= b.writeindex_
    /\ b.writeindex_ <= Len(b.buf_)
    /\ kprependSize_ < Len(b.buf_)

Holds(b, c) ==
    /\ readableBytes(b) = Len(c)
    /\ \A i \in 1..Len(c) : ByteAt(b, i) = c[i]

StartsOver(b) == readableBytes(b) = 0 => b.readindex_ = kprependSize_

BufferInv ==
    /\ Valid(buffer) /\ StartsOver(buffer)
    /\ content \in Seq(Nat) /\ Holds(buffer, content)
    /\ prepended \in Nat /\ PrependRoom

USE DEF readableBytes, writeableBytes, prependableBytes, ByteAt, MoveTo, CanMove

-----------------------------------------------------------------------------
LEMMA BufferSizes == kinitSize_ \in Nat \ {0} /\ kprependSize_ \in Nat
  BY BufferAssumption

(* std::copy keeps the size of the vector, puts src in place and leaves     *)
(* every other byte alone.                                                  *)
LEMMA CopiedFacts ==
    ASSUME NEW s \in Seq(Nat), NEW at \in Nat, NEW src \in Seq(Nat)
    PROVE  /\ Copied(s, at, src) \in Seq(Nat)
           /\ Len(Copied(s, at, src)) = Len(s)
           /\ \A i \in 1..Len(s) : Copied(s, at, src)[i] =
                 IF i > at /\ i <= at + Len(src) THEN src[i - at] ELSE s[i]
<1>1. Len(s) \in Nat /\ Len(src) \in Nat
  BY LenProperties
<1>2. \A i \in 1..Len(s) :
        (IF i > at /\ i <= at + Len(src) THEN src[i - at] ELSE s[i]) \in Nat
  <2> SUFFICES ASSUME NEW i \in 1..Len(s)
               PROVE  (IF i > at /\ i <= at + Len(src) THEN src[i - at] ELSE s[i])
                        \in Nat
    OBVIOUS
  <2>1. s[i] \in Nat
    BY ElementOfSeq
  <2>2. ASSUME i > at, i <= at + Len(src) PROVE src[i - at] \in Nat
    <3>1. i - at \in 1..Len(src)
      BY <1>1, <2>2
    <3> QED BY <3>1, ElementOfSeq
  <2> QED BY <2>1, <2>2
<1> QED BY <1>1, <1>2 DEF Copied

(* resize() keeps the bytes there are.                                      *)
LEMMA ResizedFacts ==
    ASSUME NEW s \in Seq(Nat), NEW n \in Nat
    PROVE  /\ Resized(s, n) \in Seq(Nat)
           /\ Len(Resized(s, n)) = n
           /\ \A i \in 1..n : i <= Len(s) => Resized(s, n)[i] = s[i]
<1>1. \A i \in 1..n : (IF i <= Len(s) THEN s[i] ELSE 0) \in Nat
  BY ElementOfSeq, LenProperties, BufferSizes
<1> QED BY <1>1 DEF Resized

(* A new buffer is valid and empty.                                         *)
LEMMA NewBufferFacts == Valid(NewBuffer) /\ Holds(NewBuffer, <<>>)
                        /\ StartsOver(NewBuffer)
                        /\ NewBuffer.readindex_ = kprependSize_
<1> USE BufferSizes
<1>1. /\ Zeros(kinitSize_ + kprependSize_) \in Seq(Nat)
      /\ Len(Zeros(kinitSize_ + kprependSize_)) = kinitSize_ + kprependSize_
  BY DEF Zeros
<1> QED BY <1>1 DEF NewBuffer, Valid, BufferRecords, Holds, StartsOver

-----------------------------------------------------------------------------
(* memmove to the front: the bytes keep their order and values although the *)
(* ranges may overlap.  It is only done when the bytes really move forward. *)
LEMMA MovedFacts ==
    ASSUME NEW b, Valid(b), NEW c \in Seq(Nat), Holds(b, c), NEW len \in Nat,
           writeableBytes(b) < len, CanMove(b, len)
    PROVE  /\ Valid(MovedToFront(b)) /\ Holds(MovedToFront(b), c)
           /\ writeableBytes(MovedToFront(b)) >= len
           /\ MovedToFront(b).readindex_ = kprependSize_
<1> USE BufferSizes
<1> DEFINE m == MovedToFront(b)
           s == b.buf_
           r == b.readindex_
           w == b.writeindex_
           n == w - r
           k == kprependSize_
           e(i) == IF i > k /\ i <= k + n THEN s[i - k + r] ELSE s[i]
<1>1. /\ s \in Seq(Nat) /\ Len(s) \in Nat /\ Len(c) \in Nat
      /\ r \in Nat /\ w \in Nat /\ k \in Nat /\ n = Len(c)
      /\ r <= w /\ w <= Len(s) /\ k < Len(s)
  BY LenProperties DEF Valid, BufferRecords, Holds
<1>2. Len(s) - w < len /\ Len(s) - w + r >= len + k
  OBVIOUS
<1>3. \A i \in 1..n : s[r + i] = c[i]
  BY <1>1 DEF Holds
<1>4. m = [buf_ |-> [i \in 1..Len(s) |-> e(i)], readindex_ |-> k,
           writeindex_ |-> k + n]
  BY DEF MovedToFront
<1> HIDE DEF m, s, r, w, k
<1>5. k < r
  BY <1>1, <1>2
<1>6. \A i \in 1..Len(s) : e(i) \in Nat
  <2> SUFFICES ASSUME NEW i \in 1..Len(s) PROVE e(i) \in Nat
    OBVIOUS
  <2>1. s[i] \in Nat
    BY <1>1, ElementOfSeq
  <2>2. ASSUME i > k, i <= k + n PROVE s[i - k + r] \in Nat
    <3>1. i - k + r \in 1..Len(s)
      BY <1>1, <2>2
    <3> QED BY <1>1, <3>1, ElementOfSeq
  <2> QED BY <2>1, <2>2
<1> DEFINE moved == [i \in 1..Len(s) |-> e(i)]
<1>7. moved \in Seq(Nat) /\ Len(moved) = Len(s)
  BY <1>1, <1>6
<1>8. \A i \in 1..n : moved[k + i] = c[i]
  <2> SUFFICES ASSUME NEW i \in 1..n PROVE moved[k + i] = c[i]
    OBVIOUS
  <2>1. k + i \in 1..Len(s) /\ k + i > k /\ k + i <= k + n /\ (k + i) - k + r = r + i
    BY <1>1, <1>5
  <2>2. moved[k + i] = e(k + i)
    BY <2>1 DEF moved
  <2>3. e(k + i) = s[r + i]
    BY <1>1, <2>1
  <2>4. s[r + i] = c[i]
    BY <1>3
  <2> QED BY <2>2, <2>3, <2>4
<1>9. k + n \in Nat /\ k + n <= Len(s) /\ (k + n) - k = n /\ Len(s) - (k + n) >= len
  BY <1>1, <1>2, <1>5
<1> HIDE DEF moved, n
<1>10. /\ m.buf_ = moved /\ m.readindex_ = k /\ m.writeindex_ = k + n
       /\ m \in BufferRecords
  BY <1>1, <1>4, <1>7, <1>9 DEF moved, BufferRecords
<1>11. Valid(m)
  BY <1>1, <1>7, <1>9, <1>10 DEF Valid, k
<1>12. Holds(m, c)
  BY <1>1, <1>8, <1>9, <1>10 DEF Holds
<1>13. writeableBytes(m) >= len
  BY <1>7, <1>9, <1>10
<1> QED BY <1>10, <1>11, <1>12, <1>13 DEF m, k

(* ensureWriteableSpace makes room, keeps the bytes and either leaves the   *)
(* read index alone or puts it back to the start.                           *)
LEMMA EnsureFacts ==
    ASSUME NEW b, Valid(b), NEW c \in Seq(Nat), Holds(b, c), NEW len \in Nat
    PROVE  /\ Valid(ensureWriteableSpace(b, len))
           /\ Holds(ensureWriteableSpace(b, len), c)
           /\ writeableBytes(ensureWriteableSpace(b, len)) >= len
           /\ ensureWriteableSpace(b, len).readindex_ \in {b.readindex_, kprependSize_}
<1> USE BufferSizes
<1> DEFINE s == b.buf_
           r == b.readindex_
           w == b.writeindex_
<1>1. /\ s \in Seq(Nat) /\ Len(s) \in Nat /\ Len(c) \in Nat
      /\ r \in Nat /\ w \in Nat /\ w - r = Len(c)
      /\ r <= w /\ w <= Len(s) /\ kprependSize_ < Len(s)
      /\ b = [buf_ |-> s, readindex_ |-> r, writeindex_ |-> w]
      /\ \A i \in 1..Len(c) : s[r + i] = c[i]
  BY LenProperties DEF Valid, BufferRecords, Holds
<1>2. CASE writeableBytes(b) >= len
  BY <1>1, <1>2 DEF ensureWriteableSpace
<1>3. CASE writeableBytes(b) < len /\ CanMove(b, len)
  <2>1. ensureWriteableSpace(b, len) = MovedToFront(b)
    BY <1>1, <1>3 DEF ensureWriteableSpace
  <2> QED BY <1>3, <2>1, MovedFacts
<1>4. CASE writeableBytes(b) < len /\ ~CanMove(b, len)
  <2> DEFINE t == Resized(s, w + len)
  <2>1. ensureWriteableSpace(b, len) = [b EXCEPT !.buf_ = t]
    BY <1>1, <1>4 DEF ensureWriteableSpace
  <2>2. Len(s) - w < len
    BY <1>4
  <2> HIDE DEF s, r, w
  <2>3. w + len \in Nat /\ w <= w + len /\ Len(s) < w + len
        /\ (w + len) - w >= len
    BY <1>1, <2>2
  <2>4. /\ t \in Seq(Nat) /\ Len(t) = w + len
        /\ \A i \in 1..(w + len) : i <= Len(s) => t[i] = s[i]
    BY <1>1, <2>3, ResizedFacts
  <2> HIDE DEF t
  <2>5. ensureWriteableSpace(b, len) =
          [buf_ |-> t, readindex_ |-> r, writeindex_ |-> w]
    BY <1>1, <2>1
  <2>6. \A i \in 1..Len(c) : t[r + i] = c[i]
    <3> SUFFICES ASSUME NEW i \in 1..Len(c) PROVE t[r + i] = c[i]
      OBVIOUS
    <3>1. r \in Nat /\ w \in Nat /\ Len(c) \in Nat /\ w - r = Len(c) /\ w <= Len(s)
      BY <1>1
    <3>2. i \in Nat /\ 1 <= i /\ i <= Len(c)
      BY <3>1
    <3>3. r + i \in Nat /\ 1 <= r + i /\ r + i <= w
      BY <3>1, <3>2
    <3>4. r + i \in 1..(w + len) /\ r + i <= Len(s)
      <4>1. Len(s) \in Nat
        BY <1>1
      <4> QED BY <2>3, <3>1, <3>3, <4>1
    <3>5. t[r + i] = s[r + i] /\ s[r + i] = c[i]
      BY <1>1, <2>4, <3>4
    <3> QED BY <3>5
  <2>7. Valid(ensureWriteableSpace(b, len))
    BY <1>1, <2>3, <2>4, <2>5 DEF Valid, BufferRecords
  <2>8. Holds(ensureWriteableSpace(b, len), c)
    BY <1>1, <2>5, <2>6 DEF Holds
  <2>9. writeableBytes(ensureWriteableSpace(b, len)) >= len
    BY <1>1, <2>3, <2>4, <2>5
  <2> QED BY <2>5, <2>7, <2>8, <2>9 DEF r
<1> QED BY <1>1, <1>2, <1>3, <1>4

-----------------------------------------------------------------------------
(* Bytes written into room that is there are the last readable bytes.       *)
LEMMA WrittenFacts ==
    ASSUME NEW b, Valid(b), NEW c \in Seq(Nat), Holds(b, c),
           NEW src \in Seq(Nat), Len(src) <= writeableBytes(b)
    PROVE  /\ Valid(Written(b, src)) /\ Holds(Written(b, src), c \o src)
           /\ Written(b, src).readindex_ = b.readindex_
<1> USE BufferSizes
<1> DEFINE s == b.buf_
           r == b.readindex_
           w == b.writeindex_
           t == Copied(s, w, src)
<1>1. /\ s \in Seq(Nat) /\ Len(s) \in Nat /\ Len(c) \in Nat /\ Len(src) \in Nat
      /\ r \in Nat /\ w \in Nat /\ w - r = Len(c)
      /\ r <= w /\ w <= Len(s) /\ kprependSize_ < Len(s)
      /\ b = [buf_ |-> s, readindex_ |-> r, writeindex_ |-> w]
      /\ \A i \in 1..Len(c) : s[r + i] = c[i]
      /\ Len(src) <= Len(s) - w
  BY LenProperties DEF Valid, BufferRecords, Holds
<1>0. Written(b, src) = [b EXCEPT !.buf_ = t, !.writeindex_ = w + Len(src)]
  BY DEF Written
<1> HIDE DEF s, r, w, t
<1>2. Written(b, src) =
        [buf_ |-> t, readindex_ |-> r, writeindex_ |-> w + Len(src)]
  BY <1>1, <1>0
<1>9. /\ Len(s) \in Nat /\ Len(c) \in Nat /\ Len(src) \in Nat
      /\ r \in Nat /\ w \in Nat /\ w = r + Len(c)
      /\ w <= Len(s) /\ Len(src) <= Len(s) - w
  BY <1>1
<1>3. /\ t \in Seq(Nat) /\ Len(t) = Len(s)
      /\ \A i \in 1..Len(s) : t[i] =
            IF i > w /\ i <= w + Len(src) THEN src[i - w] ELSE s[i]
  <2>1. s \in Seq(Nat) /\ w \in Nat
    BY <1>1
  <2> QED BY <2>1, CopiedFacts DEF t
<1>4. /\ c \o src \in Seq(Nat) /\ Len(c \o src) = Len(c) + Len(src)
      /\ \A i \in 1..(Len(c) + Len(src)) :
            (c \o src)[i] = IF i <= Len(c) THEN c[i] ELSE src[i - Len(c)]
  BY ConcatProperties
<1>5. \A i \in 1..(Len(c) + Len(src)) : t[r + i] = (c \o src)[i]
  <2> SUFFICES ASSUME NEW i \in 1..(Len(c) + Len(src))
               PROVE  t[r + i] = (c \o src)[i]
    OBVIOUS
  <2>1. r + i \in 1..Len(s) /\ (r + i > w <=> i > Len(c)) /\ r + i <= w + Len(src)
        /\ (r + i) - w = i - Len(c)
    BY <1>9
  <2>2. CASE i > Len(c)
    <3>1. t[r + i] = src[(r + i) - w]
      BY <1>3, <2>1, <2>2
    <3>2. (c \o src)[i] = src[i - Len(c)]
      BY <1>1, <1>4, <2>2
    <3> QED BY <2>1, <3>1, <3>2
  <2>3. CASE i <= Len(c)
    BY <1>1, <1>3, <1>4, <2>1, <2>3, SMTT(30)
  <2> QED BY <1>1, <2>2, <2>3
<1>6. w + Len(src) \in Nat /\ r <= w + Len(src) /\ w + Len(src) <= Len(t)
      /\ (w + Len(src)) - r = Len(c) + Len(src)
  <2>1. Len(t) = Len(s)
    BY <1>3
  <2> QED BY <1>9, <2>1
<1>7. Valid(Written(b, src))
  BY <1>1, <1>2, <1>3, <1>6 DEF Valid, BufferRecords
<1>8. Holds(Written(b, src), c \o src)
  BY <1>1, <1>2, <1>4, <1>5, <1>6, SMTT(30) DEF Holds
<1> QED BY <1>2, <1>7, <1>8 DEF r

(* append() puts the bytes at the end of what is readable.                  *)
LEMMA AppendFacts ==
    ASSUME NEW b, Valid(b), NEW c \in Seq(Nat), Holds(b, c),
           NEW src \in Seq(Nat)
    PROVE  /\ Valid(append(b, src)) /\ Holds(append(b, src), c \o src)
           /\ append(b, src).readindex_ \in {b.readindex_, kprependSize_}
<1> DEFINE m == ensureWriteableSpace(b, Len(src))
<1>1. Len(src) \in Nat
  BY LenProperties
<1>2. /\ Valid(m) /\ Holds(m, c) /\ writeableBytes(m) >= Len(src)
      /\ m.readindex_ \in {b.readindex_, kprependSize_}
  BY <1>1, EnsureFacts
<1> HIDE DEF m
<1>3. writeableBytes(m) \in Int
  BY <1>2, LenProperties DEF Valid, BufferRecords
<1>4. /\ Valid(Written(m, src)) /\ Holds(Written(m, src), c \o src)
      /\ Written(m, src).readindex_ = m.readindex_
  BY <1>1, <1>2, <1>3, WrittenFacts
<1> QED BY <1>2, <1>4 DEF append, m

(* preappend() puts the bytes in front of what is readable.                 *)
LEMMA PreappendFacts ==
    ASSUME NEW b, Valid(b), NEW c \in Seq(Nat), Holds(b, c),
           NEW src \in Seq(Nat), Len(src) <= prependableBytes(b)
    PROVE  /\ Valid(preappend(b, src)) /\ Holds(preappend(b, src), src \o c)
           /\ preappend(b, src).readindex_ = b.readindex_ - Len(src)
<1> USE BufferSizes
<1> DEFINE s == b.buf_
           r == b.readindex_
           w == b.writeindex_
           q == r - Len(src)
           t == Copied(s, q, src)
<1>1. /\ s \in Seq(Nat) /\ Len(s) \in Nat /\ Len(c) \in Nat /\ Len(src) \in Nat
      /\ r \in Nat /\ w \in Nat /\ w - r = Len(c)
      /\ r <= w /\ w <= Len(s) /\ kprependSize_ < Len(s)
      /\ b = [buf_ |-> s, readindex_ |-> r, writeindex_ |-> w]
      /\ \A i \in 1..Len(c) : s[r + i] = c[i]
      /\ Len(src) <= r
  BY LenProperties DEF Valid, BufferRecords, Holds
<1>2. preappend(b, src) = [b EXCEPT !.buf_ = t, !.readindex_ = q]
  BY DEF preappend
<1> HIDE DEF s, r, w, t
<1>3. /\ Len(s) \in Nat /\ Len(c) \in Nat /\ Len(src) \in Nat
      /\ q \in Nat /\ w \in Nat /\ r = q + Len(src) /\ w = r + Len(c)
      /\ q <= w /\ w <= Len(s) /\ w - q = Len(src) + Len(c)
  BY <1>1
<1> HIDE DEF q
<1>4. preappend(b, src) = [buf_ |-> t, readindex_ |-> q, writeindex_ |-> w]
  BY <1>1, <1>2
<1>5. /\ t \in Seq(Nat) /\ Len(t) = Len(s)
      /\ \A i \in 1..Len(s) : t[i] =
            IF i > q /\ i <= q + Len(src) THEN src[i - q] ELSE s[i]
  BY <1>1, <1>3, CopiedFacts DEF t
<1>6. /\ src \o c \in Seq(Nat) /\ Len(src \o c) = Len(src) + Len(c)
      /\ \A i \in 1..(Len(src) + Len(c)) :
            (src \o c)[i] = IF i <= Len(src) THEN src[i] ELSE c[i - Len(src)]
  BY ConcatProperties
<1>7. \A i \in 1..(Len(src) + Len(c)) : t[q + i] = (src \o c)[i]
  <2> SUFFICES ASSUME NEW i \in 1..(Len(src) + Len(c))
               PROVE  t[q + i] = (src \o c)[i]
    OBVIOUS
  <2>1. q + i \in 1..Len(s) /\ q + i > q /\ (q + i) - q = i
        /\ (q + i <= q + Len(src) <=> i <= Len(src))
        /\ q + i = r + (i - Len(src))
    BY <1>3
  <2>2. CASE i <= Len(src)
    <3>1. t[q + i] = src[(q + i) - q]
      BY <1>5, <2>1, <2>2
    <3> QED BY <1>6, <2>1, <2>2, <3>1
  <2>3. CASE i > Len(src)
    <3>0. ~(q + i <= q + Len(src))
      BY <1>3, <2>3
    <3>1. t[q + i] = s[q + i]
      BY <1>5, <2>1, <3>0
    <3>2. i - Len(src) \in 1..Len(c)
      BY <1>3, <2>3
    <3>3. s[r + (i - Len(src))] = c[i - Len(src)]
      BY <1>1, <3>2
    <3>4. (src \o c)[i] = c[i - Len(src)]
      BY <1>3, <1>6, <2>3
    <3> QED BY <2>1, <3>1, <3>3, <3>4
  <2> QED BY <1>3, <2>2, <2>3
<1>8. Valid(preappend(b, src))
  <2>1. t \in Seq(Nat) /\ w <= Len(t) /\ kprependSize_ < Len(t)
    BY <1>1, <1>5
  <2> QED BY <1>3, <1>4, <2>1 DEF Valid, BufferRecords
<1>9. Holds(preappend(b, src), src \o c)
  BY <1>3, <1>4, <1>6, <1>7, SMTT(30) DEF Holds
<1> QED BY <1>4, <1>8, <1>9 DEF q, r

(* retrieve() drops the first bytes and starts over when none is left.      *)
LEMMA HasReadFacts ==
    ASSUME NEW b, Valid(b), NEW c \in Seq(Nat), Holds(b, c), NEW n \in Nat,
           n <= readableBytes(b)
    PROVE  /\ Valid(hasRead(b, n)) /\ StartsOver(hasRead(b, n))
           /\ SubSeq(c, n + 1, Len(c)) \in Seq(Nat)
           /\ Holds(hasRead(b, n), SubSeq(c, n + 1, Len(c)))
           /\ hasRead(b, n).readindex_ \in {b.readindex_ + n, kprependSize_}
<1> USE BufferSizes
<1> DEFINE s == b.buf_
           r == b.readindex_
           w == b.writeindex_
           d == SubSeq(c, n + 1, Len(c))
<1>1. /\ s \in Seq(Nat) /\ Len(s) \in Nat /\ Len(c) \in Nat
      /\ r \in Nat /\ w \in Nat /\ w - r = Len(c)
      /\ r <= w /\ w <= Len(s) /\ kprependSize_ < Len(s)
      /\ b = [buf_ |-> s, readindex_ |-> r, writeindex_ |-> w]
      /\ \A i \in 1..Len(c) : s[r + i] = c[i]
      /\ n <= Len(c)
  BY LenProperties DEF Valid, BufferRecords, Holds
<1>2. hasRead(b, n) =
        IF r + n = w THEN [b EXCEPT !.readindex_ = kprependSize_,
                                    !.writeindex_ = kprependSize_]
        ELSE [b EXCEPT !.readindex_ = r + n]
  BY DEF hasRead, resetRWIndex
<1> HIDE DEF s, r, w
<1>3. /\ d \in Seq(Nat) /\ Len(d) = Len(c) - n
      /\ \A i \in 1..(Len(c) - n) : d[i] = c[n + i]
  <2>1. n + 1 \in 1..(Len(c) + 1) /\ Len(c) \in n..Len(c)
    BY <1>1
  <2>2. /\ d \in Seq(Nat)
        /\ Len(d) = IF n + 1 <= Len(c) THEN (Len(c) - (n + 1)) + 1 ELSE 0
    BY <1>1, <2>1, SubSeqProperties
  <2>3. \A i \in 1..(Len(c) - n) : d[i] = c[n + i]
    <3>1. Len(c) \in Nat /\ n \in Nat
      BY <1>1
    <3> HIDE <1>1
    <3> QED BY <3>1, SMTT(30)
  <2> HIDE DEF d
  <2>4. Len(d) = Len(c) - n
    BY <1>1, <2>2
  <2> QED BY <2>2, <2>3, <2>4
<1> HIDE DEF d
<1>4. CASE r + n = w
  <2>1. hasRead(b, n) = [buf_ |-> s, readindex_ |-> kprependSize_,
                         writeindex_ |-> kprependSize_]
    BY <1>1, <1>2, <1>4
  <2>2. Len(d) = 0
    BY <1>1, <1>3, <1>4
  <2>3. Valid(hasRead(b, n)) /\ StartsOver(hasRead(b, n))
    BY <1>1, <2>1 DEF Valid, BufferRecords, StartsOver
  <2>4. Holds(hasRead(b, n), d)
    BY <2>1, <2>2 DEF Holds
  <2> QED BY <1>3, <2>1, <2>3, <2>4 DEF d
<1>5. CASE r + n # w
  <2>1. hasRead(b, n) = [buf_ |-> s, readindex_ |-> r + n, writeindex_ |-> w]
    BY <1>1, <1>2, <1>5
  <2>2. r + n \in Nat /\ r + n < w /\ w - (r + n) = Len(c) - n
        /\ w - (r + n) # 0
    <3>1. r \in Nat /\ w \in Nat /\ Len(c) \in Nat /\ w = r + Len(c) /\ n <= Len(c)
      BY <1>1
    <3> QED BY <1>5, <3>1
  <2>3. \A i \in 1..(Len(c) - n) : s[(r + n) + i] = d[i]
    <3> SUFFICES ASSUME NEW i \in 1..(Len(c) - n) PROVE s[(r + n) + i] = d[i]
      OBVIOUS
    <3>1. n + i \in 1..Len(c) /\ (r + n) + i = r + (n + i)
      BY <1>1, SMTT(30)
    <3> QED BY <1>1, <1>3, <3>1
  <2>4. Valid(hasRead(b, n)) /\ StartsOver(hasRead(b, n))
    BY <1>1, <2>1, <2>2 DEF Valid, BufferRecords, StartsOver
  <2>5. Holds(hasRead(b, n), d)
    BY <1>3, <2>1, <2>2, <2>3 DEF Holds
  <2> QED BY <1>3, <2>1, <2>4, <2>5 DEF d, r
<1> QED BY <1>4, <1>5

(* readFdFast(): what is read is appended, whether or not it spills over    *)
(* into the extra buffer.                                                   *)
LEMMA ReadFdFastFacts ==
    ASSUME NEW b, Valid(b), NEW c \in Seq(Nat), Holds(b, c),
           NEW src \in Seq(Nat)
    PROVE  /\ Valid(readFdFast(b, src)) /\ Holds(readFdFast(b, src), c \o src)
           /\ readFdFast(b, src).readindex_ \in {b.readindex_, kprependSize_}
<1> DEFINE v == writeableBytes(b)
           src1 == SubSeq(src, 1, v)
           src2 == SubSeq(src, v + 1, Len(src))
<1>1. v \in Nat /\ Len(src) \in Nat
  BY LenProperties DEF Valid, BufferRecords
<1>2. readFdFast(b, src) = IF Len(src) <= v THEN Written(b, src)
                           ELSE append(Written(b, src1), src2)
  BY DEF readFdFast
<1>3. CASE Len(src) <= v
  BY <1>2, <1>3, WrittenFacts
<1>4. CASE ~(Len(src) <= v)
  <2>1. Len(src) <= v \/ v < Len(src)
    <3> HIDE DEF v
    <3> QED BY <1>1
  <2>2. v < Len(src)
    BY <1>4, <2>1
  <2>3. Len(src1) <= writeableBytes(b) /\ src1 \in Seq(Nat)
    <3> HIDE DEF v
    <3>1. \A i \in 1..v : src[i] \in Nat
      BY <1>1, <2>2, ElementOfSeq
    <3>2. src1 \in Seq(Nat) /\ Len(src1) = IF 1 <= v THEN (v - 1) + 1 ELSE 0
      BY <1>1, <3>1, SubSeqProperties
    <3>3. Len(src1) <= v
      BY <1>1, <3>2
    <3> QED BY <3>2, <3>3 DEF v
  <2>4. src2 \in Seq(Nat)
    <3> HIDE DEF v
    <3>1. \A i \in (v + 1)..Len(src) : src[i] \in Nat
      BY <1>1, ElementOfSeq
    <3> QED BY <1>1, <3>1, SubSeqProperties
  <2>5. src1 \o src2 = src
    <3> HIDE DEF v
    <3>1. 1 \in 1..(Len(src) + 1) /\ v \in (1 - 1)..Len(src) /\ Len(src) \in v..Len(src)
      BY <1>1, <2>2
    <3>2. src1 \o src2 = SubSeq(src, 1, Len(src))
      BY <3>1, ConcatAdjacentSubSeq
    <3> QED BY <3>2, SubSeqFull
  <2> HIDE DEF src1, src2
  <2> DEFINE m == Written(b, src1)
  <2>6. Valid(m) /\ Holds(m, c \o src1) /\ m.readindex_ = b.readindex_
    BY <2>3, WrittenFacts
  <2>7. c \o src1 \in Seq(Nat)
    BY <2>3, ConcatProperties
  <2> HIDE DEF m
  <2>8. /\ Valid(append(m, src2)) /\ Holds(append(m, src2), (c \o src1) \o src2)
        /\ append(m, src2).readindex_ \in {m.readindex_, kprependSize_}
    BY <2>4, <2>6, <2>7, AppendFacts
  <2>9. (c \o src1) \o src2 = c \o src
    <3>1. (c \o src1) \o src2 = c \o (src1 \o src2)
      BY <2>3, <2>4, ConcatAssociative, SMTT(30)
    <3> QED BY <2>5, <3>1, Zenon
  <2>10. readFdFast(b, src) = append(m, src2)
    BY <1>2, <1>4 DEF m
  <2> QED BY <2>6, <2>8, <2>9, <2>10
<1> QED BY <1>3, <1>4

-----------------------------------------------------------------------------
(* A step that keeps the read index, or puts it back to the start, keeps    *)
(* the room in front; one that does not empty the buffer keeps StartsOver.  *)
LEMMA RoomKept ==
    ASSUME NEW b, Valid(b), NEW c \in Seq(Nat), Holds(b, c), StartsOver(b),
           NEW p \in Nat, b.readindex_ + p >= kprependSize_,
           NEW m, Valid(m), NEW d \in Seq(Nat), Holds(m, d), Len(d) >= Len(c),
           m.readindex_ \in {b.readindex_, kprependSize_}
    PROVE  StartsOver(m) /\ m.readindex_ + p >= kprependSize_
<1>1. Len(c) \in Nat /\ Len(d) \in Nat
  BY LenProperties
<1>2. m.readindex_ + p >= kprependSize_
  BY BufferSizes
<1>3. readableBytes(b) = Len(c) /\ readableBytes(m) = Len(d)
  BY DEF Holds
<1>4. readableBytes(m) = 0 => readableBytes(b) = 0
  <2> HIDE DEF readableBytes
  <2> QED BY <1>1, <1>3
<1> QED BY <1>2, <1>4 DEF StartsOver

LEMMA StringsAreSequences == Strings \subseteq Seq(Nat)
<1> SUFFICES ASSUME NEW s \in Strings PROVE s \in Seq(Nat)
  OBVIOUS
<1>1. PICK n \in 0..MaxReadable : s \in [1..n -> Bytes]
  BY Zenon DEF Strings
<1>2. n \in Nat /\ Bytes \subseteq Nat
  BY <1>1, BufferAssumption
<1>3. s \in [1..n -> Nat]
  BY <1>1, <1>2, Zenon
<1> QED BY <1>2, <1>3

(* The inductive invariant: Valid and StartsOver strengthen IndexesInRange  *)
(* with the types and with a vector longer than the room in front.          *)
THEOREM BufferInvariant == Spec => []BufferInv
<1> USE BufferSizes
<1>1. Init => BufferInv
  <2> SUFFICES ASSUME Init PROVE BufferInv
    OBVIOUS
  <2>1. buffer = NewBuffer /\ content = <<>> /\ prepended = 0
    BY DEF Init
  <2> QED BY <2>1, NewBufferFacts, EmptySeq DEF BufferInv, PrependRoom
<1>2. BufferInv /\ [Next]_vars => BufferInv'
  <2> SUFFICES ASSUME BufferInv, [Next]_vars PROVE BufferInv'
    OBVIOUS
  <2>1. /\ Valid(buffer) /\ StartsOver(buffer) /\ content \in Seq(Nat)
        /\ Holds(buffer, content) /\ prepended \in Nat
        /\ buffer.readindex_ + prepended >= kprependSize_
        /\ Len(content) \in Nat
    BY LenProperties DEF BufferInv, PrependRoom
  <2>2. ASSUME NEW src \in Strings, Append_(src) PROVE BufferInv'
    <3>1. src \in Seq(Nat) /\ buffer' = append(buffer, src)
          /\ content' = content \o src /\ prepended' = prepended
      BY <2>2, StringsAreSequences DEF Append_
    <3>2. /\ Valid(buffer') /\ Holds(buffer', content')
          /\ buffer'.readindex_ \in {buffer.readindex_, kprependSize_}
      BY <2>1, <3>1, AppendFacts
    <3>3. content' \in Seq(Nat) /\ Len(content') >= Len(content)
      BY <2>1, <3>1, ConcatProperties, LenProperties
    <3> QED BY <2>1, <3>1, <3>2, <3>3, RoomKept DEF BufferInv, PrependRoom
  <2>3. ASSUME NEW src \in Strings, Preappend(src) PROVE BufferInv'
    <3>1. src \in Seq(Nat) /\ Len(src) \in Nat /\ Len(src) <= prependableBytes(buffer)
          /\ buffer' = preappend(buffer, src)
          /\ content' = src \o content /\ prepended' = prepended + Len(src)
      BY <2>3, StringsAreSequences, LenProperties DEF Preappend
    <3>2. /\ Valid(buffer') /\ Holds(buffer', content')
          /\ buffer'.readindex_ = buffer.readindex_ - Len(src)
      BY <2>1, <3>1, PreappendFacts
    <3>3. content' \in Seq(Nat) /\ Len(content') = Len(src) + Len(content)
      BY <2>1, <3>1, ConcatProperties
    <3>4. buffer.readindex_ \in Nat
      BY <2>1 DEF Valid, BufferRecords
    <3>5. prepended' \in Nat /\ buffer'.readindex_ + prepended' >= kprependSize_
      BY <2>1, <3>1, <3>2, <3>4
    <3>6. StartsOver(buffer')
      <4> SUFFICES ASSUME readableBytes(buffer') = 0
                   PROVE  buffer'.readindex_ = kprependSize_
        BY DEF StartsOver
      <4>1. Len(content') = 0 /\ readableBytes(buffer) = Len(content)
        BY <2>1, <3>2 DEF Holds
      <4>2. Len(src) = 0 /\ Len(content) = 0
        BY <2>1, <3>1, <3>3, <4>1
      <4> QED BY <2>1, <3>2, <3>4, <4>1, <4>2 DEF StartsOver
    <3> QED BY <3>2, <3>3, <3>5, <3>6 DEF BufferInv, PrependRoom
  <2>4. ASSUME NEW src \in Strings, ReadFdFast(src) PROVE BufferInv'
    <3>1. src \in Seq(Nat) /\ buffer' = readFdFast(buffer, src)
          /\ content' = content \o src /\ prepended' = prepended
      BY <2>4, StringsAreSequences DEF ReadFdFast
    <3>2. /\ Valid(buffer') /\ Holds(buffer', content')
          /\ buffer'.readindex_ \in {buffer.readindex_, kprependSize_}
      BY <2>1, <3>1, ReadFdFastFacts
    <3>3. content' \in Seq(Nat) /\ Len(content') >= Len(content)
      BY <2>1, <3>1, ConcatProperties, LenProperties
    <3> QED BY <2>1, <3>1, <3>2, <3>3, RoomKept DEF BufferInv, PrependRoom
  <2>5. ASSUME NEW n \in 0..MaxReadable, EnsureWriteableSpace(n) PROVE BufferInv'
    <3>1. n \in Nat /\ buffer' = ensureWriteableSpace(buffer, n)
          /\ content' = content /\ prepended' = prepended
      BY <2>5 DEF EnsureWriteableSpace
    <3>2. /\ Valid(buffer') /\ Holds(buffer', content')
          /\ buffer'.readindex_ \in {buffer.readindex_, kprependSize_}
      BY <2>1, <3>1, EnsureFacts
    <3>3. content' \in Seq(Nat) /\ Len(content') >= Len(content)
      BY <2>1, <3>1
    <3> QED BY <2>1, <3>1, <3>2, <3>3, RoomKept DEF BufferInv, PrependRoom
  <2>6. ASSUME NEW n \in 0..MaxReadable, Retrieve(n) PROVE BufferInv'
    <3>1. n \in Nat /\ n <= readableBytes(buffer) /\ buffer' = hasRead(buffer, n)
          /\ content' = SubSeq(content, n + 1, Len(content))
          /\ prepended' = IF n <= prepended THEN prepended - n ELSE 0
      BY <2>6 DEF Retrieve
    <3>2. /\ Valid(buffer') /\ StartsOver(buffer') /\ Holds(buffer', content')
          /\ content' \in Seq(Nat)
          /\ buffer'.readindex_ \in {buffer.readindex_ + n, kprependSize_}
      BY <2>1, <3>1, HasReadFacts
    <3>3. buffer.readindex_ \in Nat
      BY <2>1 DEF Valid, BufferRecords
    <3>4. prepended' \in Nat /\ buffer'.readindex_ + prepended' >= kprependSize_
      BY <2>1, <3>1, <3>2, <3>3
    <3> QED BY <3>2, <3>4 DEF BufferInv, PrependRoom
  <2>7. ASSUME RetrieveAll PROVE BufferInv'
    <3>1. /\ buffer' = [buffer EXCEPT !.readindex_ = kprependSize_,
                                       !.writeindex_ = kprependSize_]
          /\ content' = <<>> /\ prepended' = 0
      BY <2>7 DEF RetrieveAll, resetRWIndex
    <3>2. /\ Valid(buffer') /\ buffer'.readindex_ = kprependSize_
          /\ buffer'.writeindex_ = kprependSize_
      <4>1. /\ buffer \in BufferRecords /\ kprependSize_ < Len(buffer.buf_)
            /\ Len(buffer.buf_) \in Nat
        BY <2>1, LenProperties DEF Valid, BufferRecords
      <4>2. buffer' = [buf_ |-> buffer.buf_, readindex_ |-> kprependSize_,
                       writeindex_ |-> kprependSize_]
        BY <3>1, <4>1 DEF BufferRecords
      <4>3. buffer.buf_ \in Seq(Nat)
        BY <4>1 DEF BufferRecords
      <4> QED BY <4>1, <4>2, <4>3 DEF Valid, BufferRecords
    <3> QED BY <3>1, <3>2, EmptySeq DEF BufferInv, PrependRoom, Holds, StartsOver
  <2>8. ASSUME SwapWithNew PROVE BufferInv'
    <3>1. buffer' = NewBuffer /\ content' = <<>> /\ prepended' = 0
      BY <2>8 DEF SwapWithNew
    <3> QED BY <3>1, NewBufferFacts, EmptySeq DEF BufferInv, PrependRoom
  <2>9. CASE UNCHANGED vars
    BY <2>9 DEF BufferInv, PrependRoom, vars
  <2> QED BY <2>2, <2>3, <2>4, <2>5, <2>6, <2>7, <2>8, <2>9 DEF Next
<1> QED BY <1>1, <1>2, PTL DEF Spec

(* The buffer of SingleThreaded behaves as a buffer on its own, and so does *)
(* the codec: a step of another part leaves it alone.                       *)
LEMMA BufferPart == Spec_ => Spec
<1>1. Init_ => Init
  BY DEF Init_
<1>2. [Next_]_<<part, vars, log, codec>> => [Next]_vars
  BY DEF Next_, vars
<1> QED BY <1>1, <1>2, PTL DEF Spec_, Spec

LEMMA CodecPart == Spec_ => C!Spec
<1>1. Init_ => C!Init
  BY DEF Init_
<1>2. [Next_]_<<part, vars, log, codec>> => [C!Next]_C!vars
  BY DEF Next_, codec, C!vars
<1> QED BY <1>1, <1>2, PTL DEF Spec_, C!Spec

(* No sequence of calls moves an index out of the vector, or leaves an      *)
(* empty buffer anywhere but at its start (Buffer.h's peek and hasRead).    *)
THEOREM IndexesInRangeAlways == Spec_ => []IndexesInRange
<1>1. BufferInv => IndexesInRange
  <2> SUFFICES ASSUME BufferInv PROVE IndexesInRange
    OBVIOUS
  <2>1. Valid(buffer) /\ StartsOver(buffer)
    BY DEF BufferInv
  <2> QED BY <2>1, LenProperties DEF Valid, BufferRecords, StartsOver, IndexesInRange
<1> QED BY <1>1, BufferPart, BufferInvariant, PTL

(* What is read is what was written, however the bytes were moved and       *)
(* whatever the sizes are (append, preappend, readFdFast, retrieve).        *)
THEOREM ContentIsReadableAlways == Spec_ => []ContentIsReadable
<1>1. BufferInv => ContentIsReadable
  BY DEF BufferInv, Holds, ContentIsReadable
<1> QED BY <1>1, BufferPart, BufferInvariant, PTL

(* A header of kprependSize_ bytes always fits in front of what was         *)
(* appended (ensureWriteableSpace, preappend).                              *)
THEOREM PrependRoomAlways == Spec_ => []PrependRoom
<1>1. BufferInv => PrependRoom
  BY DEF BufferInv
<1> QED BY <1>1, BufferPart, BufferInvariant, PTL

-----------------------------------------------------------------------------
(* The numbers in the packets of the codec.                                 *)
HIDE DEF readableBytes, writeableBytes, prependableBytes, ByteAt, MoveTo, CanMove

LEMMA CodecSizes == ByteBase \in Nat \ {0, 1} /\ kHeaderLen \in Nat \ {0}
  BY CodecAssumption

(* A set of natural numbers has a smallest one: what the inductions below    *)
(* use, as the smallest counterexample.                                     *)
LEMMA LeastOf ==
    ASSUME NEW S \in SUBSET Nat, S # {}
    PROVE  \E n \in S : \A m \in S : n <= m
<1>1. IsWellFoundedOn(OpToRel(<, Nat), Nat)
  BY NatLessThanWellFounded
<1> DEFINE R == OpToRel(<, Nat)
<1>2. \A a, b \in Nat : <<a, b>> \in R <=> a < b
  BY DEF OpToRel
<1> HIDE DEF R
<1>3. PICK n \in S : \A m \in S : <<m, n>> \notin R
  BY <1>1, WFMin DEF R
<1>4. \A m \in S : m \in Nat /\ ~(m < n)
  BY <1>2, <1>3
<1>5. \A m \in S : n <= m
  BY <1>4
<1> QED BY <1>5

(* What \div and % are of natural numbers.                                  *)
LEMMA Division ==
    ASSUME NEW n \in Nat, NEW d \in Nat \ {0}
    PROVE  /\ n \div d \in Nat /\ n % d \in 0..(d - 1)
           /\ n = (d * (n \div d)) + (n % d)
  OBVIOUS
LEMMA DivisionIsUnique ==
    ASSUME NEW n \in Nat, NEW d \in Nat \ {0}, NEW q \in Nat, NEW r \in 0..(d - 1), n = (d * q) + r
    PROVE  n \div d = q /\ n % d = r
<1> DEFINE p == n \div d
<1>1. p \in Nat /\ n % d \in 0..(d-1) /\ n = (d * p) + (n % d)
  BY Division
<1> HIDE DEF p
<1>2. ASSUME p < q PROVE FALSE
  <2>1. d * (p + 1) <= d * q
    BY <1>1, <1>2
  <2>2. d * (p + 1) = (d * p) + d
    BY <1>1
  <2> QED BY <1>1, <2>1, <2>2
<1>3. ASSUME q < p PROVE FALSE
  <2>1. d * (q + 1) <= d * p
    BY <1>1, <1>3
  <2>2. d * (q + 1) = (d * q) + d
    BY <1>1
  <2> QED BY <1>1, <2>1, <2>2
<1>4. p = q
  BY <1>1, <1>2, <1>3
<1> QED BY <1>1, <1>4 DEF p

(* Dividing by two numbers is dividing by their product.                    *)
LEMMA DivideTwice ==
    ASSUME NEW n \in Nat, NEW d \in Nat \ {0}, NEW e \in Nat \ {0}
    PROVE  n \div (e * d) = (n \div d) \div e
<1> DEFINE p == n \div d
           q == p \div e
           r == p % e
           t == n % d
<1>1. p \in Nat /\ t \in 0..(d - 1) /\ n = (d * p) + t
  BY Division
<1> HIDE DEF p, t
<1>2. q \in Nat /\ r \in 0..(e - 1) /\ p = (e * q) + r
  BY <1>1, Division
<1> HIDE DEF q, r
<1> DEFINE u == (d * r) + t
           f == e * d
<1>3. u \in Nat /\ u < f /\ f \in Nat \ {0}
  <2>1. d * r \in Nat /\ d * r <= d * (e - 1) /\ d * (e - 1) = f - d /\ f \in Nat
    BY <1>2
  <2> QED BY <1>1, <2>1
<1>4. n = (f * q) + u
  <2>1. d * p = (f * q) + (d * r) /\ d * r \in Nat /\ f * q \in Nat
    BY <1>1, <1>2
  <2> DEFINE x == d * p
             y == f * q
             z == d * r
  <2>2. n = x + t /\ x = y + z /\ u = z + t /\ y \in Nat /\ z \in Nat /\ t \in Nat
    BY <1>1, <2>1
  <2> HIDE DEF x, y, z, u, f
  <2>3. n = y + u
    BY <2>2
  <2> QED BY <2>3 DEF y
<1> HIDE DEF u, f
<1>5. n \div f = q
  BY <1>2, <1>3, <1>4, DivisionIsUnique
<1> QED BY <1>5 DEF f, q, p

(* The equation that defines Power has a solution, so that Power is one.    *)
LEMMA PowerExists ==
    ASSUME NEW b, NEW h \in Nat
    PROVE  \E g : g = [p \in 0..h |-> IF p = 0 THEN 1 ELSE b * g[p - 1]]
<1> DEFINE Eq(g, n) == g = [p \in 0..n |-> IF p = 0 THEN 1 ELSE b * g[p - 1]]
           S == {n \in Nat : ~ \E g : Eq(g, n)}
<1>1. SUFFICES ASSUME S # {} PROVE FALSE
  OBVIOUS
<1>2. PICK n \in S : \A m \in S : n <= m
  <2> HIDE DEF S
  <2>1. S \in SUBSET Nat
    BY DEF S
  <2> QED BY <1>1, <2>1, LeastOf
<1>3. n # 0
  <2>1. Eq([p \in 0..0 |-> 1], 0)
    OBVIOUS
  <2> QED BY <2>1
<1>4. PICK g : Eq(g, n - 1)
  <2>1. n - 1 \in Nat /\ ~(n <= n - 1)
    BY <1>3
  <2> QED BY <1>2, <2>1
<1>5. Eq([p \in 0..n |-> IF p = n THEN b * g[n - 1] ELSE g[p]], n)
  <2> DEFINE f == [p \in 0..n |-> IF p = n THEN b * g[n - 1] ELSE g[p]]
  <2>1. ASSUME NEW p \in 0..n PROVE f[p] = IF p = 0 THEN 1 ELSE b * f[p - 1]
    <3>1. CASE p = n
      <4>1. n - 1 \in 0..n /\ n - 1 # n
        BY <1>3
      <4>2. f[n] = b * g[n - 1] /\ f[n - 1] = g[n - 1]
        BY <4>1
      <4> QED BY <1>3, <3>1, <4>2
    <3>2. CASE p # n
      <4>1. p \in 0..(n - 1) /\ p - 1 # n /\ (p # 0 => p - 1 \in 0..n)
        BY <3>2
      <4>2. f[p] = g[p] /\ (p # 0 => f[p - 1] = g[p - 1])
        BY <3>2, <4>1
      <4>3. g[p] = IF p = 0 THEN 1 ELSE b * g[p - 1]
        BY <1>4, <4>1
      <4> QED BY <4>2, <4>3
    <3> QED BY <3>1, <3>2
  <2>2. f = [p \in 0..n |-> f[p]]
    OBVIOUS
  <2> HIDE DEF f
  <2>3. Eq(f, n)
    BY <2>1, <2>2, Zenon
  <2> QED BY <2>3 DEF f
<1> QED BY <1>5

LEMMA PowerIs ==
    \A p \in 0..kHeaderLen : C!Power[p] = IF p = 0 THEN 1 ELSE ByteBase * C!Power[p - 1]
<1>1. \E g : g = [p \in 0..kHeaderLen |-> IF p = 0 THEN 1 ELSE ByteBase * g[p - 1]]
  <2>1. kHeaderLen \in Nat
    BY CodecSizes
  <2> QED BY <2>1, PowerExists, Zenon
<1>2. C!Power = [p \in 0..kHeaderLen |-> IF p = 0 THEN 1 ELSE ByteBase * C!Power[p - 1]]
  BY <1>1, Zenon DEF C!Power
<1> QED BY <1>2, Zenon

LEMMA PowerIsPositive == \A p \in 0..kHeaderLen : C!Power[p] \in Nat \ {0}
<1> DEFINE S == {p \in 0..kHeaderLen : C!Power[p] \notin Nat \ {0}}
<1>1. SUFFICES ASSUME S # {} PROVE FALSE
  OBVIOUS
<1>2. PICK p \in S : \A q \in S : p <= q
  <2> HIDE DEF S
  <2>1. S \in SUBSET Nat
    BY CodecSizes DEF S
  <2> QED BY <1>1, <2>1, LeastOf
<1>3. CASE p = 0
  BY <1>3, PowerIs
<1>4. CASE p # 0
  <2>1. p \in 0..kHeaderLen /\ p - 1 \in 0..kHeaderLen /\ ~(p <= p - 1)
    BY <1>4, CodecSizes
  <2>2. C!Power[p - 1] \in Nat \ {0}
    BY <1>2, <2>1
  <2>3. C!Power[p] = ByteBase * C!Power[p - 1]
    BY <1>4, <2>1, PowerIs
  <2>4. \A x \in Nat \ {0} : ByteBase * x \in Nat \ {0}
    BY CodecSizes
  <2> QED BY <1>2, <2>2, <2>3, <2>4
<1> QED BY <1>3, <1>4

(* The first j bytes of htonl(n) are the number n without its last bytes.   *)
LEMMA LeadingDigits ==
    ASSUME NEW n \in Nat, NEW j \in 1..kHeaderLen
    PROVE  /\ n \div C!Power[kHeaderLen - j] \in Nat
           /\ n \div C!Power[kHeaderLen - j] =
                ((n \div C!Power[kHeaderLen - (j - 1)]) * ByteBase) + C!htonl(n)[j]
<1> DEFINE d == C!Power[kHeaderLen - j]
           p == n \div d
<1>1. /\ kHeaderLen - j \in 0..kHeaderLen /\ kHeaderLen - (j - 1) \in 0..kHeaderLen
      /\ kHeaderLen - (j - 1) # 0 /\ (kHeaderLen - (j - 1)) - 1 = kHeaderLen - j
      /\ ByteBase \in Nat \ {0}
  BY CodecSizes
<1>2. d \in Nat \ {0} /\ C!Power[kHeaderLen - (j - 1)] = ByteBase * d
  <2>1. C!Power[kHeaderLen - (j - 1)] = ByteBase * C!Power[(kHeaderLen - (j - 1)) - 1]
    BY <1>1, PowerIs
  <2> QED BY <1>1, <2>1, PowerIsPositive
<1>3. C!htonl(n)[j] = p % ByteBase
  BY DEF C!htonl
<1> HIDE DEF d
<1>4. p \in Nat /\ n \div (ByteBase * d) = p \div ByteBase
  BY <1>1, <1>2, Division, DivideTwice
<1> HIDE DEF p
<1>5. p = (ByteBase * (p \div ByteBase)) + (p % ByteBase) /\ p \div ByteBase \in Nat
  BY <1>1, <1>4, Division
<1>6. ByteBase * (p \div ByteBase) = (p \div ByteBase) * ByteBase
  BY <1>1, <1>5
<1> QED BY <1>2, <1>3, <1>4, <1>5, <1>6 DEF p, d

(* ntohl() of the bytes of htonl(n) is n, if n is not negative as an int.   *)
LEMMA NumberReadsBack ==
    ASSUME NEW n \in Nat, 2 * n < C!Power[kHeaderLen], NEW b, NEW i \in Nat,
           \A j \in 1..kHeaderLen : ByteAt(b, i + (j - 1)) = C!htonl(n)[j]
    PROVE  C!ntohl(b, i) = n
<1> DEFINE byte(j) == ByteAt(b, i + (j - 1))
           Eq(g) == g = [j \in 0..kHeaderLen |->
                           IF j = 0 THEN 0 ELSE (g[j - 1] * ByteBase) + byte(j)]
           value == CHOOSE g : Eq(g)
           lead(j) == n \div C!Power[kHeaderLen - j]
           h == kHeaderLen
<1>1. C!ntohl(b, i) = IF 2 * value[h] < C!Power[h] THEN value[h] ELSE value[h] - C!Power[h]
  BY Zenon DEF C!ntohl, C!Input!ByteAt, ByteAt
<1>2. \A j \in 1..kHeaderLen :
         lead(j) \in Nat /\ lead(j) = (lead(j - 1) * ByteBase) + byte(j)
  BY LeadingDigits
<1>3. h \in 0..h /\ h \in 1..h /\ 0 \in 0..h /\ h - 0 = h /\ h - h = 0
  BY CodecSizes
<1>4. lead(0) = 0 /\ lead(h) = n
  <2>1. C!Power[h] \in Nat \ {0} /\ C!Power[0] = 1
    BY <1>3, PowerIs, PowerIsPositive
  <2>2. n = (C!Power[h] * 0) + n /\ n \in 0..(C!Power[h] - 1)
    BY <2>1
  <2>3. n \div C!Power[h] = 0
    BY <2>1, <2>2, DivisionIsUnique
  <2>4. n = (1 * n) + 0 /\ 0 \in 0..(1 - 1) /\ 1 \in Nat \ {0} /\ 0 \in Nat
    OBVIOUS
  <2>5. n \div 1 = n
    BY <2>4, DivisionIsUnique
  <2> QED BY <1>3, <2>1, <2>3, <2>5
<1> HIDE DEF lead, byte
<1>5. Eq([j \in 0..h |-> lead(j)])
  <2> DEFINE g == [j \in 0..h |-> lead(j)]
  <2>1. ASSUME NEW j \in 0..h
        PROVE  g[j] = IF j = 0 THEN 0 ELSE (g[j - 1] * ByteBase) + byte(j)
    <3>1. CASE j = 0
      BY <1>4, <3>1
    <3>2. CASE j # 0
      <4>1. j \in 1..h /\ j - 1 \in 0..h
        BY <3>2, CodecSizes
      <4> QED BY <1>2, <3>2, <4>1
    <3> QED BY <3>1, <3>2
  <2>2. g = [j \in 0..h |-> g[j]]
    OBVIOUS
  <2> HIDE DEF g
  <2>3. Eq(g)
    BY <2>1, <2>2, Zenon
  <2> QED BY <2>3 DEF g
<1>6. Eq(value)
  <2> HIDE DEF Eq
  <2> QED BY <1>5
<1>7. \A j \in 0..h : value[j] = IF j = 0 THEN 0 ELSE (value[j - 1] * ByteBase) + byte(j)
  <2> HIDE DEF value
  <2> QED BY <1>6, Zenon
<1> HIDE DEF value, Eq
<1>8. \A j \in 0..h : value[j] = lead(j)
  <2> DEFINE S == {j \in 0..h : value[j] # lead(j)}
  <2>1. SUFFICES ASSUME S # {} PROVE FALSE
    OBVIOUS
  <2>2. PICK j \in S : \A k \in S : j <= k
    <3> HIDE DEF S
    <3>1. S \in SUBSET Nat
      BY CodecSizes DEF S
    <3> QED BY <2>1, <3>1, LeastOf
  <2>3. CASE j = 0
    BY <1>4, <1>7, <2>2, <2>3
  <2>4. CASE j # 0
    <3>1. j \in 1..h /\ j \in 0..h /\ j - 1 \in 0..h /\ ~(j <= j - 1)
      BY <2>4, CodecSizes
    <3>2. value[j - 1] = lead(j - 1)
      BY <2>2, <3>1
    <3>3. value[j] = lead(j)
      BY <1>2, <1>7, <2>4, <3>1, <3>2
    <3> QED BY <2>2, <3>3
  <2> QED BY <2>3, <2>4
<1> QED BY <1>1, <1>3, <1>4, <1>8

-----------------------------------------------------------------------------
(* The operations that Codec calls are those of Buffer.                     *)
LEMMA SameBuffer ==
    /\ C!Input!NewBuffer = NewBuffer
    /\ \A b : C!Input!readableBytes(b) = readableBytes(b)
    /\ \A b : C!Input!writeableBytes(b) = writeableBytes(b)
    /\ \A b, i : C!Input!ByteAt(b, i) = ByteAt(b, i)
    /\ \A b, n : C!Input!ensureWriteableSpace(b, n) = ensureWriteableSpace(b, n)
    /\ \A b, src : C!Input!Written(b, src) = Written(b, src)
    /\ \A b, src : C!Input!readFdFast(b, src) = readFdFast(b, src)
    /\ \A b, n : C!Input!hasRead(b, n) = hasRead(b, n)
<1> USE DEF readableBytes, writeableBytes, prependableBytes, ByteAt, MoveTo, CanMove,
            C!Input!readableBytes, C!Input!writeableBytes, C!Input!prependableBytes,
            C!Input!ByteAt, C!Input!MoveTo, C!Input!CanMove
<1>1. C!Input!NewBuffer = NewBuffer
  BY Zenon DEF C!Input!NewBuffer, NewBuffer, C!Input!Zeros, Zeros
<1>2. \A b : /\ C!Input!readableBytes(b) = readableBytes(b)
             /\ C!Input!writeableBytes(b) = writeableBytes(b)
  BY Zenon
<1>3. \A b, i : C!Input!ByteAt(b, i) = ByteAt(b, i)
  BY Zenon
<1>4. \A b, n : C!Input!ensureWriteableSpace(b, n) = ensureWriteableSpace(b, n)
  BY Zenon DEF C!Input!ensureWriteableSpace, ensureWriteableSpace,
               C!Input!MovedToFront, MovedToFront, C!Input!Resized, Resized
<1>5. \A b, src : C!Input!Written(b, src) = Written(b, src)
  BY Zenon DEF C!Input!Written, Written, C!Input!Copied, Copied
<1>6. \A b, src : C!Input!append(b, src) = append(b, src)
  BY <1>4, <1>5, Zenon DEF C!Input!append, append
<1>7. \A b, src : C!Input!readFdFast(b, src) = readFdFast(b, src)
  BY <1>2, <1>5, <1>6, Zenon DEF C!Input!readFdFast, readFdFast
<1>8. \A b, n : C!Input!hasRead(b, n) = hasRead(b, n)
  BY Zenon DEF C!Input!hasRead, hasRead, C!Input!resetRWIndex, resetRWIndex
<1> QED BY <1>1, <1>2, <1>3, <1>4, <1>5, <1>7, <1>8, Zenon

Size(m) == C!bytesAllToPack(m)

LEMMA MessageFacts ==
    ASSUME NEW m \in Messages
    PROVE  /\ m = [name |-> m.name, payload |-> m.payload]
           /\ m.name \in Seq(Nat) /\ Len(m.name) \in Nat
           /\ \A i \in 1..Len(m.name) : m.name[i] # 0
           /\ m.payload \in Seq(Nat) /\ Len(m.payload) \in Nat
           /\ Size(m) \in Nat /\ kHeaderLen < Size(m)
           /\ 2 * Size(m) < C!Power[kHeaderLen]
           /\ Size(m) = ((3 * kHeaderLen + Len(m.name)) + 1) + Len(m.payload)
<1>1. /\ m.name \in Seq(1..(ByteBase - 1)) /\ m.payload \in Seq(0..(ByteBase - 1))
      /\ m = [name |-> m.name, payload |-> m.payload]
  BY CodecAssumption
<1>2. /\ m.name \in Seq(Nat) /\ Len(m.name) \in Nat
      /\ \A i \in 1..Len(m.name) : m.name[i] # 0
  <2>1. \A i \in 1..Len(m.name) : m.name[i] \in 1..(ByteBase - 1)
    BY <1>1, ElementOfSeq
  <2>2. \A x \in 1..(ByteBase - 1) : x \in Nat /\ x # 0
    BY CodecSizes
  <2>3. Len(m.name) \in Nat /\ m.name = [i \in 1..Len(m.name) |-> m.name[i]]
    BY <1>1, LenProperties
  <2>4. \A i \in 1..Len(m.name) : m.name[i] \in Nat /\ m.name[i] # 0
    BY <2>1, <2>2
  <2> QED BY <2>3, <2>4
<1>3. m.payload \in Seq(Nat) /\ Len(m.payload) \in Nat
  <2>1. \A i \in 1..Len(m.payload) : m.payload[i] \in 0..(ByteBase - 1)
    BY <1>1, ElementOfSeq
  <2>2. Len(m.payload) \in Nat /\ m.payload = [i \in 1..Len(m.payload) |-> m.payload[i]]
    BY <1>1, LenProperties
  <2>3. \A i \in 1..Len(m.payload) : m.payload[i] \in Nat
    BY <2>1, CodecSizes
  <2> QED BY <2>2, <2>3
<1>4. 2 * Size(m) < C!Power[kHeaderLen]
  BY CodecAssumption DEF Size
<1>5. Size(m) = ((3 * kHeaderLen + Len(m.name)) + 1) + Len(m.payload)
  BY DEF Size, C!bytesAllToPack
<1>6. Size(m) \in Nat /\ kHeaderLen < Size(m)
  <2> DEFINE l == Len(m.name)
             n == Len(m.payload)
  <2>1. l \in Nat /\ n \in Nat /\ kHeaderLen \in Nat
    BY <1>2, <1>3, CodecSizes
  <2>2. Size(m) = ((3 * kHeaderLen + l) + 1) + n
    BY <1>5
  <2> HIDE DEF l, n
  <2>3. /\ ((3 * kHeaderLen + l) + 1) + n \in Nat
        /\ kHeaderLen < ((3 * kHeaderLen + l) + 1) + n
    BY <2>1
  <2> QED BY <2>2, <2>3
<1> QED BY <1>1, <1>2, <1>3, <1>4, <1>5, <1>6

(* The bytes of a number.                                                   *)
LEMMA BytesOfNumber ==
    ASSUME NEW n \in Nat
    PROVE  C!htonl(n) \in Seq(Nat) /\ Len(C!htonl(n)) = kHeaderLen
<1>1. \A i \in 1..kHeaderLen : (n \div C!Power[kHeaderLen - i]) % ByteBase \in Nat
  <2> SUFFICES ASSUME NEW i \in 1..kHeaderLen
               PROVE  (n \div C!Power[kHeaderLen - i]) % ByteBase \in Nat
    OBVIOUS
  <2> DEFINE p == n \div C!Power[kHeaderLen - i]
  <2>1. p \in Nat
    BY LeadingDigits
  <2> HIDE DEF p
  <2>2. ByteBase \in Nat \ {0}
    BY CodecSizes
  <2>3. p % ByteBase \in 0..(ByteBase - 1)
    BY <2>1, <2>2, Division
  <2>4. p % ByteBase \in Nat
    BY <2>2, <2>3
  <2> QED BY <2>4 DEF p
<1> QED BY <1>1, CodecSizes DEF C!htonl

(* Concatenation, with names for its result and the lengths.                *)
IsJoin(u, s, t, a, b) ==
    /\ u \in Seq(Nat) /\ Len(u) = a + b
    /\ \A i \in 1..a : u[i] = s[i]
    /\ \A i \in 1..b : u[a + i] = t[i]

LEMMA Joined ==
    ASSUME NEW s \in Seq(Nat), NEW t \in Seq(Nat), NEW u, u = s \o t,
           NEW a, Len(s) = a, NEW b, Len(t) = b
    PROVE  IsJoin(u, s, t, a, b)
<1>1. a \in Nat /\ b \in Nat
  BY LenProperties
<1>2. /\ u \in Seq(Nat) /\ Len(u) = a + b
      /\ \A i \in 1..(a + b) : u[i] = IF i <= a THEN s[i] ELSE t[i - a]
  BY ConcatProperties
<1>3. \A i \in 1..a : u[i] = s[i]
  <2> SUFFICES ASSUME NEW i \in 1..a PROVE u[i] = s[i]
    OBVIOUS
  <2>1. i \in 1..(a + b) /\ i <= a
    BY <1>1
  <2> QED BY <1>2, <2>1
<1>4. \A i \in 1..b : u[a + i] = t[i]
  <2> SUFFICES ASSUME NEW i \in 1..b PROVE u[a + i] = t[i]
    OBVIOUS
  <2>1. a + i \in 1..(a + b) /\ ~(a + i <= a) /\ (a + i) - a = i
    BY <1>1
  <2> QED BY <1>2, <2>1
<1> QED BY <1>2, <1>3, <1>4 DEF IsJoin

(* Where the parts of a packet are (packProtoMessageToCachedSizeArray).     *)
LEMMA PackedFacts ==
    ASSUME NEW m \in Messages
    PROVE  /\ C!Packed(m) \in Seq(Nat) /\ Len(C!Packed(m)) = Size(m)
           /\ \A j \in 1..kHeaderLen :
                 C!Packed(m)[j] = C!htonl(Size(m) - kHeaderLen)[j]
           /\ \A j \in 1..kHeaderLen :
                 C!Packed(m)[kHeaderLen + j] = C!htonl(Len(m.name) + 1)[j]
           /\ \A j \in 1..Len(m.name) : C!Packed(m)[2 * kHeaderLen + j] = m.name[j]
           /\ C!Packed(m)[(2 * kHeaderLen + Len(m.name)) + 1] = 0
           /\ \A j \in 1..Len(m.payload) :
                 C!Packed(m)[((2 * kHeaderLen + Len(m.name)) + 1) + j] = m.payload[j]
<1> DEFINE h == kHeaderLen
           l == Len(m.name)
           n == Len(m.payload)
           s1 == C!htonl(Size(m) - h)
           t1 == C!htonl(l + 1)
           t2 == m.name
           t3 == <<0>>
           t4 == m.payload
           t5 == C!htonl(C!calcCheckSum)
           s2 == s1 \o t1
           s3 == s2 \o t2
           s4 == s3 \o t3
           s5 == s4 \o t4
           s6 == s5 \o t5
<1>1. C!Packed(m) = s6
  BY Zenon DEF C!Packed, Size
<1>2. h \in Nat /\ l \in Nat /\ n \in Nat /\ Size(m) = ((3 * h + l) + 1) + n
  BY MessageFacts, CodecSizes
<1>3. Size(m) - h \in Nat /\ l + 1 \in Nat /\ 0 \in Nat
  <2> HIDE DEF l, n
  <2> QED BY <1>2
<1>4. s1 \in Seq(Nat) /\ Len(s1) = h /\ t1 \in Seq(Nat) /\ Len(t1) = h
  BY <1>3, BytesOfNumber
<1>5. t5 \in Seq(Nat) /\ Len(t5) = h
  BY <1>3, BytesOfNumber DEF C!calcCheckSum
<1>6. t2 \in Seq(Nat) /\ Len(t2) = l /\ t4 \in Seq(Nat) /\ Len(t4) = n
  BY MessageFacts
<1>7. t3 \in Seq(Nat) /\ Len(t3) = 1 /\ t3[1] = 0
  OBVIOUS
<1> HIDE DEF s1, t1, t2, t3, t4, t5, s2, s3, s4, s5, s6
<1> DEFINE e1 == h
           e2 == e1 + h
           e3 == e2 + l
           e4 == e3 + 1
           e5 == e4 + n
<1> HIDE DEF h, l, n, e1, e2, e3, e4, e5
<1>12. IsJoin(s2, s1, t1, e1, h)
  <2>1. s2 = s1 \o t1 /\ Len(s1) = e1
    BY <1>4 DEF s2, e1
  <2> QED BY <1>4, <2>1, Joined
<1>13. IsJoin(s3, s2, t2, e2, l)
  <2>1. s3 = s2 \o t2
    BY DEF s3
  <2>2. s2 \in Seq(Nat) /\ Len(s2) = e2
    BY <1>12 DEF IsJoin, e2
  <2> QED BY <1>6, <2>1, <2>2, Joined
<1>14. IsJoin(s4, s3, t3, e3, 1)
  <2>1. s4 = s3 \o t3
    BY DEF s4
  <2>2. s3 \in Seq(Nat) /\ Len(s3) = e3
    BY <1>13 DEF IsJoin, e3
  <2> QED BY <1>7, <2>1, <2>2, Joined
<1>15. IsJoin(s5, s4, t4, e4, n)
  <2>1. s5 = s4 \o t4
    BY DEF s5
  <2>2. s4 \in Seq(Nat) /\ Len(s4) = e4
    BY <1>14 DEF IsJoin, e4
  <2> QED BY <1>6, <2>1, <2>2, Joined
<1>16. IsJoin(s6, s5, t5, e5, h)
  <2>1. s6 = s5 \o t5
    BY DEF s6
  <2>2. s5 \in Seq(Nat) /\ Len(s5) = e5
    BY <1>15 DEF IsJoin, e5
  <2> QED BY <1>5, <2>1, <2>2, Joined
<1>17. s6 \in Seq(Nat) /\ Len(s6) = Size(m)
  <2>1. s6 \in Seq(Nat) /\ Len(s6) = e5 + h
    BY <1>16 DEF IsJoin
  <2> QED BY <1>2, <2>1 DEF e1, e2, e3, e4, e5
<1>18. /\ e1 \in Nat /\ e2 \in Nat /\ e3 \in Nat /\ e4 \in Nat /\ e5 \in Nat
       /\ e1 <= e2 /\ e2 <= e3 /\ e3 < e4 /\ e4 <= e5
  BY <1>2 DEF e1, e2, e3, e4, e5
<1>19. /\ \A i \in 1..e2 : s6[i] = s2[i]
       /\ \A i \in 1..e3 : s6[i] = s3[i]
       /\ \A i \in 1..e4 : s6[i] = s4[i]
       /\ \A i \in 1..e5 : s6[i] = s5[i]
  <2>1. \A i \in 1..e5 : s6[i] = s5[i]
    BY <1>16 DEF IsJoin
  <2>2. \A i \in 1..e4 : s5[i] = s4[i] /\ i \in 1..e5
    BY <1>15, <1>18 DEF IsJoin
  <2>3. \A i \in 1..e3 : s4[i] = s3[i] /\ i \in 1..e4
    BY <1>14, <1>18 DEF IsJoin
  <2>4. \A i \in 1..e2 : s3[i] = s2[i] /\ i \in 1..e3
    BY <1>13, <1>18 DEF IsJoin
  <2> QED BY <2>1, <2>2, <2>3, <2>4, Zenon
<1>20. \A j \in 1..h : s6[j] = s1[j] /\ s6[h + j] = t1[j]
  <2> SUFFICES ASSUME NEW j \in 1..h PROVE s6[j] = s1[j] /\ s6[h + j] = t1[j]
    OBVIOUS
  <2>1. j \in 1..e1 /\ j \in 1..e2 /\ e1 + j = h + j /\ h + j \in 1..e2
    BY <1>2 DEF e1, e2
  <2>2. s2[j] = s1[j] /\ s2[h + j] = t1[j]
    BY <1>12, <2>1 DEF IsJoin
  <2> QED BY <1>19, <2>1, <2>2
<1>21. \A j \in 1..l : s6[2 * h + j] = t2[j]
  <2> SUFFICES ASSUME NEW j \in 1..l PROVE s6[2 * h + j] = t2[j]
    OBVIOUS
  <2>1. e2 + j = 2 * h + j /\ 2 * h + j \in 1..e3
    BY <1>2 DEF e1, e2, e3
  <2>2. s3[2 * h + j] = t2[j]
    BY <1>13, <2>1 DEF IsJoin
  <2> QED BY <1>19, <2>1, <2>2
<1>22. s6[(2 * h + l) + 1] = 0
  <2>1. e3 + 1 = (2 * h + l) + 1 /\ (2 * h + l) + 1 \in 1..e4 /\ 1 \in 1..1
    BY <1>2 DEF e1, e2, e3, e4
  <2>2. s4[(2 * h + l) + 1] = t3[1]
    BY <1>14, <2>1 DEF IsJoin
  <2> QED BY <1>7, <1>19, <2>1, <2>2
<1>23. \A j \in 1..n : s6[((2 * h + l) + 1) + j] = t4[j]
  <2> SUFFICES ASSUME NEW j \in 1..n PROVE s6[((2 * h + l) + 1) + j] = t4[j]
    OBVIOUS
  <2>1. e4 + j = ((2 * h + l) + 1) + j /\ ((2 * h + l) + 1) + j \in 1..e5
    BY <1>2 DEF e1, e2, e3, e4, e5
  <2>2. s5[((2 * h + l) + 1) + j] = t4[j]
    BY <1>15, <2>1 DEF IsJoin
  <2> QED BY <1>19, <2>1, <2>2
<1> QED BY <1>1, <1>17, <1>20, <1>21, <1>22, <1>23 DEF h, l, n, s1, t1, t2, t4

(* What a new buffer holds after encodeToEmptyBuffer is the packet.         *)
LEMMA EncodedIsPacked ==
    ASSUME NEW m \in Messages
    PROVE  C!Encoded(m) = C!Packed(m)
<1> DEFINE p == C!Packed(m)
           e == ensureWriteableSpace(NewBuffer, Size(m))
           b == C!encodeToEmptyBuffer(m)
<1>1. p \in Seq(Nat) /\ Len(p) = Size(m) /\ Size(m) \in Nat
  BY PackedFacts, MessageFacts
<1>2. <<>> \in Seq(Nat) /\ Valid(NewBuffer) /\ Holds(NewBuffer, <<>>)
  BY NewBufferFacts, EmptySeq
<1>3. Valid(e) /\ Holds(e, <<>>) /\ writeableBytes(e) >= Size(m)
  BY <1>1, <1>2, EnsureFacts
<1>4. writeableBytes(e) \in Int
  <2> HIDE DEF e
  <2> QED BY <1>3, LenProperties DEF Valid, BufferRecords, writeableBytes
<1>5. b = Written(e, p)
  <2>1. b = IF writeableBytes(e) < Size(m) THEN e ELSE Written(e, p)
    BY SameBuffer, Zenon DEF C!encodeToEmptyBuffer, Size
  <2> HIDE DEF e, b, p
  <2>2. ~(writeableBytes(e) < Size(m))
    BY <1>1, <1>3, <1>4
  <2> QED BY <2>1, <2>2
<1>6. C!Encoded(m) = [i \in 1..readableBytes(b) |-> ByteAt(b, i)]
  BY SameBuffer, Zenon DEF C!Encoded
<1> HIDE DEF e, b, p
<1>7. Holds(b, <<>> \o p)
  <2>1. Len(p) <= writeableBytes(e)
    BY <1>1, <1>3, <1>4
  <2> QED BY <1>1, <1>2, <1>3, <1>5, <2>1, WrittenFacts
<1>8. Holds(b, p)
  BY <1>1, <1>7, ConcatEmptySeq
<1>9. C!Encoded(m) = [i \in 1..Len(p) |-> p[i]]
  BY <1>6, <1>8, Zenon DEF Holds
<1>10. p = [i \in 1..Len(p) |-> p[i]]
  BY <1>1, LenProperties
<1> QED BY <1>9, <1>10 DEF p

-----------------------------------------------------------------------------
(* The bytes u begin with the packet of m, as far as they go.               *)
Begins(u, m) ==
    \A j \in 1..Size(m) : j <= Len(u) => u[j] = C!Packed(m)[j]

(* The two numbers that the receiver reads from the front of a packet.      *)
LEMMA NumbersInFront ==
    ASSUME NEW b, NEW u \in Seq(Nat), Holds(b, u), NEW m \in Messages, Begins(u, m)
    PROVE  /\ Len(u) >= kHeaderLen => C!ntohl(b, 1) = Size(m) - kHeaderLen
           /\ Len(u) >= 2 * kHeaderLen =>
                 C!ntohl(b, kHeaderLen + 1) = Len(m.name) + 1
<1> DEFINE h == kHeaderLen
           l == Len(m.name)
           n == Len(m.payload)
           z == Size(m)
           p == C!Power[kHeaderLen]
           d == C!Packed(m)
<1>1. /\ h \in Nat \ {0} /\ l \in Nat /\ n \in Nat /\ Len(u) \in Nat
      /\ z = ((3 * h + l) + 1) + n /\ 2 * z < p
      /\ p \in Nat
  <2>1. kHeaderLen \in 0..kHeaderLen
    BY CodecSizes
  <2> QED BY <2>1, MessageFacts, CodecSizes, LenProperties, PowerIsPositive
<1>2. \A j \in 1..Len(u) : ByteAt(b, j) = u[j]
  BY DEF Holds
<1>3. \A j \in 1..z : j <= Len(u) => u[j] = d[j]
  BY DEF Begins
<1>4. \A j \in 1..h : d[j] = C!htonl(z - h)[j] /\ d[h + j] = C!htonl(l + 1)[j]
  BY PackedFacts
<1> HIDE DEF h, l, n, z, p, d
<1>5. ASSUME Len(u) >= h PROVE C!ntohl(b, 1) = z - h
  <2>1. z - h \in Nat /\ 2 * (z - h) < p /\ 1 \in Nat
    BY <1>1
  <2>2. \A j \in 1..h : ByteAt(b, 1 + (j - 1)) = C!htonl(z - h)[j]
    <3> SUFFICES ASSUME NEW j \in 1..h
                 PROVE  ByteAt(b, 1 + (j - 1)) = C!htonl(z - h)[j]
      OBVIOUS
    <3>1. 1 + (j - 1) = j /\ j \in 1..Len(u) /\ j \in 1..z /\ j <= Len(u)
      BY <1>1, <1>5
    <3> QED BY <1>2, <1>3, <1>4, <3>1
  <2> QED BY <2>1, <2>2, NumberReadsBack DEF h, p
<1>6. ASSUME Len(u) >= 2 * h PROVE C!ntohl(b, h + 1) = l + 1
  <2>1. l + 1 \in Nat /\ 2 * (l + 1) < p /\ h + 1 \in Nat
    BY <1>1
  <2>2. \A j \in 1..h : ByteAt(b, (h + 1) + (j - 1)) = C!htonl(l + 1)[j]
    <3> SUFFICES ASSUME NEW j \in 1..h
                 PROVE  ByteAt(b, (h + 1) + (j - 1)) = C!htonl(l + 1)[j]
      OBVIOUS
    <3>1. (h + 1) + (j - 1) = h + j /\ h + j \in 1..Len(u) /\ h + j \in 1..z
          /\ h + j <= Len(u)
      BY <1>1, <1>6
    <3> QED BY <1>2, <1>3, <1>4, <3>1
  <2> QED BY <2>1, <2>2, NumberReadsBack DEF h, p
<1> QED BY <1>5, <1>6 DEF h, l, z

(* canParseFromArray: the packet of m is complete and not too long.         *)
LEMMA CanParse ==
    ASSUME NEW b, NEW u \in Seq(Nat), Holds(b, u), NEW m \in Messages, Begins(u, m)
    PROVE  C!canParseFromArray(b) <=> ~C!TooLong(m) /\ Len(u) >= Size(m)
<1> DEFINE h == kHeaderLen
           z == Size(m)
           x == C!ntohl(b, 1)
           v == Len(u)
<1>1. /\ h \in Nat /\ z \in Nat /\ h <= z /\ v \in Nat /\ MaxPacketLen \in Nat
  <2>1. h \in Nat /\ z \in Nat /\ h < z /\ v \in Nat
    BY MessageFacts, CodecSizes, LenProperties
  <2>2. MaxPacketLen \in Nat
    BY CodecAssumption
  <2> HIDE DEF h, z, v
  <2> QED BY <2>1, <2>2
<1>2. C!canParseFromArray(b) <=> v >= h /\ x \in 0..MaxPacketLen /\ v >= h + x
  <2>1. C!canParseFromArray(b) <=>
          /\ readableBytes(b) >= h /\ x \in 0..MaxPacketLen
          /\ readableBytes(b) >= h + x
    BY SameBuffer, Zenon DEF C!canParseFromArray
  <2>2. readableBytes(b) = v
    BY DEF Holds
  <2> QED BY <2>1, <2>2, Zenon
<1>3. v >= h => x = z - h
  BY NumbersInFront
<1>4. C!TooLong(m) <=> z - h > MaxPacketLen
  BY DEF C!TooLong, Size
<1> HIDE DEF h, z, x, v
<1> QED BY <1>1, <1>2, <1>3, <1>4 DEF z, v

(* byteSizeAll and parseFromArray of a complete packet: its size, and the   *)
(* message that was packed.                                                 *)
LEMMA ParsedIsSent ==
    ASSUME NEW b, NEW u \in Seq(Nat), Holds(b, u), NEW m \in Messages, Begins(u, m),
           Len(u) >= Size(m)
    PROVE  C!byteSizeAll(b) = Size(m) /\ C!parseFromArray(b) = m
<1> DEFINE h == kHeaderLen
           l == Len(m.name)
           n == Len(m.payload)
           z == Size(m)
           d == C!Packed(m)
           byte(i) == ByteAt(b, 2 * h + i)
<1>1. /\ h \in Nat \ {0} /\ l \in Nat /\ n \in Nat /\ Len(u) \in Nat
      /\ z = ((3 * h + l) + 1) + n
  BY MessageFacts, CodecSizes, LenProperties
<1>2. \A j \in 1..Len(u) : ByteAt(b, j) = u[j]
  BY DEF Holds
<1>3. \A j \in 1..z : j <= Len(u) => u[j] = d[j]
  BY DEF Begins
<1>4. /\ \A j \in 1..l : d[2 * h + j] = m.name[j]
      /\ d[(2 * h + l) + 1] = 0
      /\ \A j \in 1..n : d[((2 * h + l) + 1) + j] = m.payload[j]
  BY PackedFacts
<1>5. /\ m = [name |-> m.name, payload |-> m.payload]
      /\ \A i \in 1..l : m.name[i] # 0
      /\ m.name \in Seq(Nat) /\ m.payload \in Seq(Nat)
  BY MessageFacts
<1>6. C!headerLen(b) = z - h /\ C!typeNameLen(b) = l /\ C!payloadLen(b) = n
  <2>1. Len(u) >= h /\ Len(u) >= 2 * h
    <3> HIDE DEF h, l, n, z
    <3>1. Len(u) >= z
      BY DEF z
    <3> QED BY <1>1, <3>1
  <2>2. C!ntohl(b, 1) = z - h /\ C!ntohl(b, h + 1) = l + 1
    BY <2>1, NumbersInFront
  <2>3. C!headerLen(b) = z - h /\ C!typeNameLen(b) = (l + 1) - 1
    BY <2>2, Zenon DEF C!headerLen, C!typeNameLen
  <2>4. C!payloadLen(b) = ((C!headerLen(b) - 2 * h) - C!typeNameLen(b)) - 1
    BY DEF C!payloadLen
  <2> HIDE DEF h, l, n, z
  <2>5. (l + 1) - 1 = l /\ (((z - h) - 2 * h) - l) - 1 = n
    BY <1>1
  <2> QED BY <2>3, <2>4, <2>5
<1>7. C!byteSizeAll(b) = z
  <2>1. C!byteSizeAll(b) = ((3 * h + C!typeNameLen(b)) + 1) + C!payloadLen(b)
    BY DEF C!byteSizeAll
  <2> QED BY <1>1, <1>6, <2>1
<1> DEFINE IsEnd(k) == byte(k + 1) = 0 /\ \A i \in 1..k : byte(i) # 0
           end == CHOOSE k \in 0..l : IsEnd(k)
<1>8. C!parseFromArray(b) = [name |-> [i \in 1..end |-> byte(i)],
                             payload |-> [i \in 1..n |-> byte((l + 1) + i)]]
  BY <1>6, SameBuffer, Zenon DEF C!parseFromArray
<1>9. \A j \in 1..z : ByteAt(b, j) = d[j]
  <2> SUFFICES ASSUME NEW j \in 1..z PROVE ByteAt(b, j) = d[j]
    OBVIOUS
  <2>1. j \in 1..Len(u) /\ j <= Len(u)
    <3>1. z \in Nat /\ Len(u) >= z /\ Len(u) \in Nat
      BY <1>1, MessageFacts
    <3> HIDE DEF z
    <3> QED BY <3>1
  <2> QED BY <1>2, <1>3, <2>1
<1> HIDE DEF h, l, n, z, d
<1>10. \A i \in 1..l : byte(i) = m.name[i] /\ byte(i) # 0
  <2> SUFFICES ASSUME NEW i \in 1..l PROVE byte(i) = m.name[i] /\ byte(i) # 0
    OBVIOUS
  <2>1. 2 * h + i \in 1..z
    BY <1>1
  <2> QED BY <1>4, <1>5, <1>9, <2>1
<1>11. byte(l + 1) = 0
  <2>1. 2 * h + (l + 1) = (2 * h + l) + 1 /\ 2 * h + (l + 1) \in 1..z
    BY <1>1
  <2> QED BY <1>4, <1>9, <2>1
<1>12. \A i \in 1..n : byte((l + 1) + i) = m.payload[i]
  <2> SUFFICES ASSUME NEW i \in 1..n PROVE byte((l + 1) + i) = m.payload[i]
    OBVIOUS
  <2>1. 2 * h + ((l + 1) + i) = ((2 * h + l) + 1) + i
        /\ 2 * h + ((l + 1) + i) \in 1..z
    BY <1>1
  <2> QED BY <1>4, <1>9, <2>1
<1> HIDE DEF byte
<1>13. end = l
  <2>1. l \in 0..l /\ IsEnd(l)
    BY <1>1, <1>10, <1>11
  <2>2. end \in 0..l /\ IsEnd(end)
    <3> HIDE DEF IsEnd
    <3> QED BY <2>1
  <2> HIDE DEF end
  <2>3. CASE end < l
    <3>1. end + 1 \in 1..l
      BY <1>1, <2>2, <2>3
    <3> QED BY <1>10, <2>2, <3>1
  <2> QED BY <1>1, <2>2, <2>3
<1> HIDE DEF end
<1>14. [i \in 1..l |-> byte(i)] = m.name
  <2>1. m.name = [i \in 1..l |-> m.name[i]]
    BY <1>5, LenProperties DEF l
  <2>2. [i \in 1..l |-> byte(i)] = [i \in 1..l |-> m.name[i]]
    BY <1>10
  <2> QED BY <2>1, <2>2, Zenon
<1>15. [i \in 1..n |-> byte((l + 1) + i)] = m.payload
  <2>1. m.payload = [i \in 1..n |-> m.payload[i]]
    BY <1>5, LenProperties DEF n
  <2>2. [i \in 1..n |-> byte((l + 1) + i)] = [i \in 1..n |-> m.payload[i]]
    BY <1>12
  <2> QED BY <2>1, <2>2, Zenon
<1>16. C!parseFromArray(b) = m
  BY <1>5, <1>8, <1>13, <1>14, <1>15, Zenon
<1> QED BY <1>7, <1>16 DEF z

-----------------------------------------------------------------------------
(* s is the packets of ms from number k + 1 on, one behind the other: the   *)
(* i-th packet ends at cut[i] of all that was sent, and s starts at cut[k]. *)
InStream(s, ms, k, cut) ==
    /\ cut \in [0..Len(ms) -> Nat]
    /\ \A i \in 1..Len(ms) : cut[i] = cut[i - 1] + Size(ms[i])
    /\ \A i, j \in 0..Len(ms) : i <= j => cut[i] <= cut[j]
    /\ Len(s) = cut[Len(ms)] - cut[k]
    /\ \A i \in (k + 1)..Len(ms) : \A j \in 1..Size(ms[i]) :
          s[(cut[i - 1] - cut[k]) + j] = C!Packed(ms[i])[j]

IsStream(s, ms, k) == \E cut : InStream(s, ms, k, cut)

LEMMA NothingSent == IsStream(<<>>, <<>>, 0)
<1> DEFINE cut == [i \in 0..0 |-> 0]
           none == <<>>
<1>1. Len(none) = 0 /\ cut \in [0..0 -> Nat] /\ cut[0] = 0
  OBVIOUS
<1> HIDE DEF cut, none
<1>2. InStream(none, none, 0, cut)
  BY <1>1 DEF InStream
<1> QED BY <1>2 DEF IsStream, none

(* A byte j of a packet of l bytes that starts at a, seen from b on, is      *)
(* within what reaches to e.                                                *)
LEMMA WithinStream ==
    ASSUME NEW a \in Nat, NEW b \in Nat, NEW e \in Nat, NEW l \in Nat, NEW j \in Nat,
           b <= a, a + l <= e, 1 <= j, j <= l
    PROVE  (a - b) + j \in 1..(e - b)
  OBVIOUS

(* A message that is sent puts its packet behind the others.                *)
LEMMA StreamSent ==
    ASSUME NEW s \in Seq(Nat), NEW ms \in Seq(Messages), NEW k \in 0..Len(ms),
           IsStream(s, ms, k), NEW m \in Messages
    PROVE  IsStream(s \o C!Packed(m), Append(ms, m), k)
<1> DEFINE n == Len(ms)
           ns == Append(ms, m)
           d == C!Packed(m)
           u == s \o d
<1>1. PICK cut : InStream(s, ms, k, cut)
  BY DEF IsStream
<1>2. /\ cut \in [0..n -> Nat]
      /\ \A i \in 1..n : cut[i] = cut[i - 1] + Size(ms[i])
      /\ \A i, j \in 0..n : i <= j => cut[i] <= cut[j]
      /\ Len(s) = cut[n] - cut[k]
      /\ \A i \in (k + 1)..n : \A j \in 1..Size(ms[i]) :
            s[(cut[i - 1] - cut[k]) + j] = C!Packed(ms[i])[j]
  BY <1>1 DEF InStream
<1>3. n \in Nat /\ k \in Nat /\ k <= n /\ \A i \in 1..n : ms[i] \in Messages
  BY LenProperties, ElementOfSeq
<1>4. Len(ns) = n + 1 /\ ns[n + 1] = m /\ \A i \in 1..n : ns[i] = ms[i]
  BY AppendProperties
<1>5. d \in Seq(Nat) /\ Len(d) = Size(m) /\ Size(m) \in Nat
  BY PackedFacts, MessageFacts
<1>6. IsJoin(u, s, d, Len(s), Size(m))
  BY <1>5, Joined
<1>7. /\ Len(u) = Len(s) + Size(m)
      /\ \A i \in 1..Len(s) : u[i] = s[i]
      /\ \A i \in 1..Size(m) : u[Len(s) + i] = d[i]
  BY <1>6 DEF IsJoin
<1> HIDE DEF n, ns, d, u
<1> DEFINE nc == [i \in 0..(n + 1) |-> IF i <= n THEN cut[i] ELSE cut[n] + Size(m)]
<1>8. /\ \A i \in 0..n : nc[i] = cut[i] /\ cut[i] \in Nat
      /\ nc[n + 1] = cut[n] + Size(m)
  <2>1. \A i \in 0..n : i \in 0..(n + 1) /\ i <= n
    BY <1>3
  <2>2. n + 1 \in 0..(n + 1) /\ ~(n + 1 <= n)
    BY <1>3
  <2> QED BY <1>2, <2>1, <2>2
<1>9. nc \in [0..(n + 1) -> Nat]
  <2>1. \A i \in 0..(n + 1) : (IF i <= n THEN cut[i] ELSE cut[n] + Size(m)) \in Nat
    <3>1. ASSUME NEW i \in 0..(n + 1), i <= n PROVE cut[i] \in Nat
      <4>1. i \in 0..n
        BY <1>3, <3>1
      <4> QED BY <1>2, <4>1
    <3>2. cut[n] \in Nat /\ cut[n] + Size(m) \in Nat
      <4>1. n \in 0..n
        BY <1>3
      <4>2. cut[n] \in Nat
        BY <1>2, <4>1
      <4> QED BY <1>5, <4>2
    <3> QED BY <3>1, <3>2
  <2> QED BY <2>1
<1> HIDE DEF nc
<1>10. \A i \in 1..(n + 1) : nc[i] = nc[i - 1] + Size(ns[i])
  <2> SUFFICES ASSUME NEW i \in 1..(n + 1) PROVE nc[i] = nc[i - 1] + Size(ns[i])
    OBVIOUS
  <2>1. CASE i = n + 1
    <3>1. i - 1 = n /\ n \in 0..n
      BY <1>3, <2>1
    <3> QED BY <1>4, <1>8, <2>1, <3>1
  <2>2. CASE i # n + 1
    <3>1. i \in 1..n /\ i \in 0..n /\ i - 1 \in 0..n
      BY <1>3, <2>2
    <3> QED BY <1>2, <1>4, <1>8, <3>1
  <2> QED BY <2>1, <2>2
<1>11. \A i, j \in 0..(n + 1) : i <= j => nc[i] <= nc[j]
  <2> SUFFICES ASSUME NEW i \in 0..(n + 1), NEW j \in 0..(n + 1), i <= j
               PROVE  nc[i] <= nc[j]
    OBVIOUS
  <2>1. CASE j # n + 1
    <3>1. i \in 0..n /\ j \in 0..n
      BY <1>3, <2>1
    <3> QED BY <1>2, <1>8, <3>1
  <2>2. CASE j = n + 1 /\ i = n + 1
    <3>1. nc[n + 1] \in Nat
      BY <1>3, <1>9
    <3> QED BY <2>2, <3>1
  <2>3. CASE j = n + 1 /\ i # n + 1
    <3>1. i \in 0..n /\ n \in 0..n /\ i <= n
      BY <1>3, <2>3
    <3>2. cut[i] <= cut[n] /\ cut[i] \in Nat /\ cut[n] \in Nat
      BY <1>2, <1>8, <3>1
    <3>3. nc[i] = cut[i] /\ nc[j] = cut[n] + Size(m)
      BY <1>8, <2>3, <3>1
    <3> QED BY <1>5, <3>2, <3>3
  <2> QED BY <2>1, <2>2, <2>3
<1>12. Len(u) = nc[n + 1] - nc[k]
  <2>1. k \in 0..n /\ n \in 0..n
    BY <1>3
  <2>2. cut[k] \in Nat /\ cut[n] \in Nat /\ nc[k] = cut[k]
    BY <1>8, <2>1
  <2> QED BY <1>2, <1>5, <1>7, <1>8, <2>2
<1>13. ASSUME NEW i \in (k + 1)..(n + 1), NEW j \in 1..Size(ns[i])
       PROVE  u[(nc[i - 1] - nc[k]) + j] = C!Packed(ns[i])[j]
  <2>1. k \in 0..n /\ n \in 0..n /\ i - 1 \in 0..n /\ k <= i - 1
    BY <1>3
  <2>2. /\ cut[k] \in Nat /\ cut[n] \in Nat /\ cut[i - 1] \in Nat
        /\ nc[k] = cut[k] /\ nc[i - 1] = cut[i - 1] /\ cut[k] <= cut[i - 1]
    BY <1>2, <1>8, <2>1
  <2>3. CASE i = n + 1
    <3>1. i - 1 = n /\ ns[i] = m
      BY <1>3, <1>4, <2>3
    <3>2. nc[i - 1] - nc[k] = Len(s)
      BY <1>2, <2>2, <3>1
    <3> QED BY <1>7, <3>1, <3>2 DEF d
  <2>4. CASE i # n + 1
    <3>1. i \in 1..n /\ i \in 0..n /\ i \in (k + 1)..n /\ ns[i] = ms[i] /\ i <= n
      <4>1. i \in 1..n /\ i \in 0..n /\ i \in (k + 1)..n
        BY <1>3, <2>4
      <4> QED BY <1>4, <4>1
    <3>2. Size(ms[i]) \in Nat
      BY <1>3, <3>1, MessageFacts
    <3>3. cut[i] = cut[i - 1] + Size(ms[i]) /\ cut[i] <= cut[n] /\ cut[i] \in Nat
      BY <1>2, <1>8, <2>1, <3>1
    <3> DEFINE x == (cut[i - 1] - cut[k]) + j
    <3>4. x \in 1..Len(s)
      <4>1. j \in Nat /\ 1 <= j /\ j <= Size(ms[i])
        BY <3>1, <3>2
      <4>2. Len(s) = cut[n] - cut[k]
        BY <1>2
      <4>3. cut[i - 1] + Size(ms[i]) <= cut[n]
        BY <3>3
      <4>4. x \in 1..(cut[n] - cut[k])
        BY <2>2, <3>2, <4>1, <4>3, WithinStream
      <4> QED BY <4>2, <4>4, Zenon
    <3>5. s[x] = C!Packed(ms[i])[j]
      BY <1>2, <3>1
    <3> HIDE DEF x
    <3>6. u[x] = C!Packed(ns[i])[j]
      BY <1>7, <3>1, <3>4, <3>5
    <3> QED BY <2>2, <3>6 DEF x
  <2> QED BY <2>3, <2>4
<1>14. InStream(u, ns, k, nc)
  BY <1>4, <1>9, <1>10, <1>11, <1>12, <1>13, Zenon DEF InStream
<1> QED BY <1>14 DEF IsStream, u, ns, d

(* A stream starts with the packet of its first message and is empty when   *)
(* there is none.                                                           *)
LEMMA StreamFront ==
    ASSUME NEW s, NEW ms \in Seq(Messages), NEW k \in 0..Len(ms), IsStream(s, ms, k)
    PROVE  /\ k = Len(ms) => Len(s) = 0
           /\ k < Len(ms) =>
                 /\ k + 1 \in 1..Len(ms) /\ ms[k + 1] \in Messages
                 /\ Size(ms[k + 1]) <= Len(s)
                 /\ \A j \in 1..Size(ms[k + 1]) : s[j] = C!Packed(ms[k + 1])[j]
<1> DEFINE n == Len(ms)
<1>1. PICK cut : InStream(s, ms, k, cut)
  BY DEF IsStream
<1>2. n \in Nat /\ k \in 0..n /\ n \in 0..n
  BY LenProperties
<1>3. Len(s) = cut[n] - cut[k] /\ cut[k] \in Nat /\ cut[n] \in Nat
  BY <1>1, <1>2 DEF InStream
<1>4. ASSUME k = n PROVE Len(s) = 0
  BY <1>3, <1>4
<1>5. ASSUME k < n
      PROVE  /\ k + 1 \in 1..n /\ ms[k + 1] \in Messages
             /\ Size(ms[k + 1]) <= Len(s)
             /\ \A j \in 1..Size(ms[k + 1]) : s[j] = C!Packed(ms[k + 1])[j]
  <2> DEFINE i == k + 1
             z == Size(ms[i])
  <2>1. i \in 1..n /\ i \in 0..n /\ i \in (k + 1)..n /\ i - 1 = k /\ i <= n
    BY <1>2, <1>5
  <2>2. ms[i] \in Messages
    BY <2>1, ElementOfSeq
  <2>3. z \in Nat
    BY <2>2, MessageFacts
  <2>4. cut[i] = cut[i - 1] + z /\ cut[i] <= cut[n]
    BY <1>1, <1>2, <2>1 DEF InStream
  <2>5. \A j \in 1..z : s[(cut[i - 1] - cut[k]) + j] = C!Packed(ms[i])[j]
    BY <1>1, <2>1 DEF InStream
  <2> HIDE DEF i, z, n
  <2>6. z <= Len(s)
    BY <1>3, <2>1, <2>3, <2>4
  <2>7. \A j \in 1..z : (cut[i - 1] - cut[k]) + j = j
    BY <1>3, <2>1, <2>3
  <2> QED BY <2>1, <2>2, <2>5, <2>6, <2>7 DEF i, z
<1> QED BY <1>4, <1>5

(* Without the first packet it is the stream of the other messages.         *)
LEMMA StreamTaken ==
    ASSUME NEW s, NEW ms \in Seq(Messages), NEW k \in 0..Len(ms), IsStream(s, ms, k),
           k < Len(ms), NEW z, z = Size(ms[k + 1]),
           NEW t, Len(t) = Len(s) - z, \A x \in 1..(Len(s) - z) : t[x] = s[z + x]
    PROVE  IsStream(t, ms, k + 1)
<1> DEFINE n == Len(ms)
<1>1. PICK cut : InStream(s, ms, k, cut)
  BY DEF IsStream
<1>2. n \in Nat /\ k \in 0..n /\ n \in 0..n /\ k + 1 \in 1..n /\ k + 1 \in 0..n
  BY LenProperties
<1>3. /\ cut \in [0..n -> Nat]
      /\ \A i \in 1..n : cut[i] = cut[i - 1] + Size(ms[i])
      /\ \A i, j \in 0..n : i <= j => cut[i] <= cut[j]
      /\ \A i \in (k + 1)..n : \A j \in 1..Size(ms[i]) :
            s[(cut[i - 1] - cut[k]) + j] = C!Packed(ms[i])[j]
  BY <1>1 DEF InStream
<1>4. Len(s) = cut[n] - cut[k] /\ cut[k] \in Nat /\ cut[n] \in Nat
      /\ cut[k + 1] \in Nat
  BY <1>1, <1>2, <1>3 DEF InStream
<1>5. z \in Nat /\ cut[k + 1] = cut[k] + z
  <2>1. ms[k + 1] \in Messages
    BY <1>2, ElementOfSeq
  <2>2. z \in Nat
    BY <2>1, MessageFacts
  <2>3. (k + 1) - 1 = k
    BY <1>2
  <2> QED BY <1>2, <1>3, <2>2, <2>3
<1>6. Len(t) = cut[n] - cut[k + 1]
  BY <1>4, <1>5
<1> HIDE DEF n
<1>7. ASSUME NEW i \in ((k + 1) + 1)..n, NEW j \in 1..Size(ms[i])
      PROVE  t[(cut[i - 1] - cut[k + 1]) + j] = C!Packed(ms[i])[j]
  <2>1. i \in 1..n /\ i \in 0..n /\ i \in (k + 1)..n /\ i - 1 \in 0..n
        /\ k + 1 <= i - 1 /\ i <= n
    BY <1>2
  <2>2. Size(ms[i]) \in Nat
    <3>1. ms[i] \in Messages
      BY <2>1, ElementOfSeq DEF n
    <3> QED BY <3>1, MessageFacts
  <2>3. /\ cut[i - 1] \in Nat /\ cut[i] \in Nat /\ cut[k + 1] <= cut[i - 1]
        /\ cut[i] = cut[i - 1] + Size(ms[i]) /\ cut[i] <= cut[n]
    BY <1>2, <1>3, <2>1
  <2>4. s[(cut[i - 1] - cut[k]) + j] = C!Packed(ms[i])[j]
    BY <1>3, <2>1
  <2> DEFINE x == (cut[i - 1] - cut[k + 1]) + j
  <2>5. j \in Nat /\ 1 <= j /\ j <= Size(ms[i])
    BY <2>2
  <2>6. x \in 1..(Len(s) - z) /\ z + x = (cut[i - 1] - cut[k]) + j
    <3> DEFINE a == cut[i - 1]
               b == cut[i]
               c == cut[k]
               e == cut[k + 1]
               f == cut[n]
               y == Size(ms[i])
    <3>1. /\ Len(s) = f - c /\ c \in Nat /\ f \in Nat /\ z \in Nat /\ e = c + z
          /\ a \in Nat /\ b \in Nat /\ y \in Nat /\ e <= a /\ b = a + y /\ b <= f
          /\ j \in Nat /\ 1 <= j /\ j <= y
      BY <1>4, <1>5, <2>2, <2>3, <2>5
    <3>2. x = (a - e) + j
      OBVIOUS
    <3> HIDE DEF a, b, c, e, f, y, x
    <3>3. x \in 1..((f - c) - z) /\ z + x = (a - c) + j
      BY ONLY <3>1, <3>2
    <3> QED BY <3>1, <3>3 DEF a, c
  <2> HIDE DEF x
  <2>7. t[x] = s[z + x]
    BY <2>6
  <2> QED BY <2>4, <2>6, <2>7 DEF x
<1>8. InStream(t, ms, k + 1, cut)
  BY <1>3, <1>6, <1>7, Zenon DEF InStream, n
<1> QED BY <1>8 DEF IsStream

-----------------------------------------------------------------------------
(* Why the receiver has stopped: there is nothing left, or the next packet  *)
(* is too long or not complete.                                             *)
Waits(u, ms, k) ==
    u = <<>> \/ (k < Len(ms) /\ (C!TooLong(ms[k + 1]) \/ Len(u) < Size(ms[k + 1])))

CodecInv ==
    /\ Valid(inputBuffer_) /\ Holds(inputBuffer_, unread)
    /\ unread \in Seq(Nat) /\ wire \in Seq(Nat)
    /\ sent \in Seq(Messages) /\ received \in Seq(Messages)
    /\ Len(received) <= Len(sent)
    /\ \A i \in 1..Len(received) : received[i] = sent[i]
    /\ IsStream(unread \o wire, sent, Len(received))
    /\ ~parsing => Waits(unread, sent, Len(received))

LEMMA Regrouped ==
    ASSUME NEW u \in Seq(Nat), NEW w \in Seq(Nat), NEW d \in Seq(Nat)
    PROVE  (u \o w) \o d = u \o (w \o d)
  BY ConcatAssociative, SMTT(30)

(* What is at the front of the bytes read and not yet retrieved.            *)
LEMMA UnreadFront ==
    ASSUME NEW u \in Seq(Nat), NEW w \in Seq(Nat), NEW ms \in Seq(Messages),
           NEW k \in 0..Len(ms), IsStream(u \o w, ms, k)
    PROVE  /\ k = Len(ms) => u = <<>>
           /\ k < Len(ms) => ms[k + 1] \in Messages /\ Begins(u, ms[k + 1])
           /\ k < Len(ms) => ~(u = <<>> /\ w = <<>>)
<1> DEFINE s == u \o w
<1>1. /\ Len(u) \in Nat /\ Len(w) \in Nat /\ Len(s) = Len(u) + Len(w)
      /\ \A j \in 1..Len(u) : s[j] = u[j]
  <2>1. IsJoin(s, u, w, Len(u), Len(w))
    BY Joined
  <2> QED BY <2>1, LenProperties DEF IsJoin
<1> HIDE DEF s
<1>2. /\ k = Len(ms) => Len(s) = 0
      /\ k < Len(ms) =>
            /\ k + 1 \in 1..Len(ms) /\ ms[k + 1] \in Messages
            /\ Size(ms[k + 1]) <= Len(s)
            /\ \A j \in 1..Size(ms[k + 1]) : s[j] = C!Packed(ms[k + 1])[j]
  BY StreamFront DEF s
<1>3. ASSUME k = Len(ms) PROVE u = <<>>
  <2>1. Len(u) = 0
    BY <1>1, <1>2, <1>3
  <2> QED BY <2>1, EmptySeq
<1>4. ASSUME k < Len(ms)
      PROVE  ms[k + 1] \in Messages /\ Begins(u, ms[k + 1]) /\ ~(u = <<>> /\ w = <<>>)
  <2> DEFINE m == ms[k + 1]
             d == C!Packed(m)
  <2>1. m \in Messages /\ Size(m) <= Len(s) /\ \A j \in 1..Size(m) : s[j] = d[j]
    BY <1>2, <1>4
  <2>2. Size(m) \in Nat /\ Size(m) # 0
    <3>1. m \in Messages
      BY <2>1
    <3> HIDE DEF m
    <3> QED BY <3>1, MessageFacts, CodecSizes
  <2> HIDE DEF m, d
  <2>3. Begins(u, m)
    <3> SUFFICES ASSUME NEW j \in 1..Size(m), j <= Len(u) PROVE u[j] = d[j]
      BY DEF Begins, d
    <3>1. j \in 1..Len(u)
      BY <1>1, <2>2
    <3> QED BY <1>1, <2>1, <3>1
  <2>4. ASSUME u = <<>>, w = <<>> PROVE FALSE
    <3>1. Len(u) = 0 /\ Len(w) = 0
      BY <2>4
    <3> QED BY <1>1, <2>1, <2>2, <3>1
  <2> QED BY <2>1, <2>3, <2>4 DEF m
<1> QED BY <1>3, <1>4

(* CodecInv holds of every behaviour of Codec (send, handleRead and the      *)
(* loop of OnRawBytes).                                                     *)
THEOREM CodecInvariant == C!Spec => []CodecInv
<1>1. C!Init => CodecInv
  <2> SUFFICES ASSUME C!Init PROVE CodecInv
    OBVIOUS
  <2>1. /\ inputBuffer_ = NewBuffer /\ wire = <<>> /\ sent = <<>>
        /\ received = <<>> /\ unread = <<>>
    BY SameBuffer DEF C!Init
  <2>2. Valid(inputBuffer_) /\ Holds(inputBuffer_, unread)
    BY <2>1, NewBufferFacts
  <2>3. /\ unread \in Seq(Nat) /\ wire \in Seq(Nat)
        /\ sent \in Seq(Messages) /\ received \in Seq(Messages)
        /\ Len(received) = 0 /\ Len(sent) = 0 /\ unread \o wire = <<>>
    BY <2>1
  <2>4. IsStream(unread \o wire, sent, Len(received))
    BY <2>1, <2>3, NothingSent
  <2>5. Waits(unread, sent, Len(received))
    BY <2>1 DEF Waits
  <2>6. Len(received) <= Len(sent) /\ \A i \in 1..Len(received) : received[i] = sent[i]
    BY <2>3
  <2> QED BY <2>2, <2>3, <2>4, <2>5, <2>6 DEF CodecInv
<1>2. CodecInv /\ [C!Next]_C!vars => CodecInv'
  <2> SUFFICES ASSUME CodecInv, [C!Next]_C!vars PROVE CodecInv'
    OBVIOUS
  <2> DEFINE s == unread \o wire
  <2>1. /\ Valid(inputBuffer_) /\ Holds(inputBuffer_, unread)
        /\ unread \in Seq(Nat) /\ wire \in Seq(Nat)
        /\ sent \in Seq(Messages) /\ received \in Seq(Messages)
        /\ Len(received) <= Len(sent)
        /\ \A i \in 1..Len(received) : received[i] = sent[i]
        /\ IsStream(s, sent, Len(received))
        /\ ~parsing => Waits(unread, sent, Len(received))
    BY DEF CodecInv
  <2>2. PICK k \in Nat : Len(received) = k
    BY <2>1, LenProperties
  <2>3. PICK n \in Nat : Len(sent) = n
    BY <2>1, LenProperties
  <2>4. k <= n /\ k \in 0..n /\ IsStream(s, sent, k) /\ s \in Seq(Nat)
    <3>1. k <= n /\ IsStream(s, sent, k)
      BY <2>1, <2>2, <2>3
    <3>2. s \in Seq(Nat)
      BY <2>1, ConcatProperties
    <3> HIDE DEF s
    <3> QED BY <3>1, <3>2
  <2> HIDE DEF s
  <2>5. ASSUME NEW m \in Messages, C!Send(m) PROVE CodecInv'
    <3>1. /\ wire' = wire \o C!Packed(m) /\ sent' = Append(sent, m)
          /\ inputBuffer_' = inputBuffer_ /\ parsing' = parsing
          /\ received' = received /\ unread' = unread
      BY <2>5, EncodedIsPacked DEF C!Send
    <3>2. C!Packed(m) \in Seq(Nat)
      BY PackedFacts
    <3>3. wire' \in Seq(Nat)
      BY <2>1, <3>1, <3>2, ConcatProperties
    <3>4. /\ sent' \in Seq(Messages) /\ Len(sent') = n + 1
          /\ \A i \in 1..n : sent'[i] = sent[i]
      BY <2>1, <2>3, <3>1, AppendProperties
    <3>5. Len(received') = k /\ k <= Len(sent')
      BY <2>2, <2>3, <2>4, <3>1, <3>4
    <3>6. \A i \in 1..k : received'[i] = sent'[i]
      <4> SUFFICES ASSUME NEW i \in 1..k PROVE received'[i] = sent'[i]
        OBVIOUS
      <4>1. i \in 1..n
        BY <2>4
      <4> QED BY <2>1, <2>2, <3>1, <3>4, <4>1
    <3>7. IsStream(unread' \o wire', sent', k)
      <4>1. unread' \o wire' = s \o C!Packed(m)
        <5>1. (unread \o wire) \o C!Packed(m) = unread \o (wire \o C!Packed(m))
          BY <2>1, <3>2, Regrouped
        <5> QED BY <3>1, <5>1, Zenon DEF s
      <4>2. IsStream(s \o C!Packed(m), Append(sent, m), k)
        BY <2>1, <2>3, <2>4, StreamSent
      <4> QED BY <3>1, <4>1, <4>2
    <3>8. ~parsing' => Waits(unread', sent', k)
      <4> SUFFICES ASSUME Waits(unread, sent, k) PROVE Waits(unread, sent', k)
        BY <2>1, <2>2, <3>1
      <4>1. ASSUME k < n PROVE k < n + 1 /\ sent'[k + 1] = sent[k + 1]
        <5>1. k + 1 \in 1..n
          BY <4>1
        <5> QED BY <3>4, <4>1, <5>1
      <4> QED BY <2>3, <3>4, <4>1 DEF Waits
    <3> QED BY <2>1, <3>1, <3>3, <3>4, <3>5, <3>6, <3>7, <3>8 DEF CodecInv
  <2>6. ASSUME NEW c \in 1..Len(wire), C!Read(c) PROVE CodecInv'
    <3> DEFINE a == SubSeq(wire, 1, c)
               z == SubSeq(wire, c + 1, Len(wire))
    <3>1. /\ inputBuffer_' = readFdFast(inputBuffer_, a)
          /\ wire' = z /\ unread' = unread \o a /\ parsing' = TRUE
          /\ sent' = sent /\ received' = received
      BY <2>6, SameBuffer, Zenon DEF C!Read
    <3>2. Len(wire) \in Nat
      BY <2>1, LenProperties
    <3>3. a \in Seq(Nat)
      <4>1. \A i \in 1..c : wire[i] \in Nat
        BY <2>1, <3>2, ElementOfSeq
      <4> QED BY <2>1, <3>2, <4>1, SubSeqProperties
    <3>4. z \in Seq(Nat)
      <4>1. \A i \in (c + 1)..Len(wire) : wire[i] \in Nat
        BY <2>1, <3>2, ElementOfSeq
      <4> QED BY <2>1, <3>2, <4>1, SubSeqProperties
    <3>5. a \o z = wire
      <4>1. 1 \in 1..(Len(wire) + 1) /\ c \in (1 - 1)..Len(wire) /\ Len(wire) \in c..Len(wire)
        BY <3>2
      <4>2. a \o z = SubSeq(wire, 1, Len(wire))
        BY <2>1, <4>1, ConcatAdjacentSubSeq
      <4> QED BY <2>1, <4>2, SubSeqFull
    <3> HIDE DEF a, z
    <3>6. /\ Valid(inputBuffer_') /\ Holds(inputBuffer_', unread')
      BY <2>1, <3>1, <3>3, ReadFdFastFacts
    <3>7. unread' \in Seq(Nat)
      BY <2>1, <3>1, <3>3, ConcatProperties
    <3>8. unread' \o wire' = s
      <4>1. (unread \o a) \o z = unread \o (a \o z)
        BY <2>1, <3>3, <3>4, Regrouped
      <4> QED BY <3>1, <3>5, <4>1, Zenon DEF s
    <3> QED BY <2>1, <3>1, <3>4, <3>6, <3>7, <3>8, Zenon DEF CodecInv
  <2>7. ASSUME C!HandlePacket PROVE CodecInv'
    <3> DEFINE m == sent[k + 1]
               z == Size(m)
               t == SubSeq(unread, z + 1, Len(unread))
    <3>1. C!canParseFromArray(inputBuffer_) /\ parsing
      BY <2>7 DEF C!HandlePacket
    <3>2. /\ k = n => unread = <<>>
          /\ k < n => m \in Messages /\ Begins(unread, m)
      BY <2>1, <2>3, <2>4, UnreadFront DEF s
    <3>3. k < n
      <4> SUFFICES ASSUME k = n PROVE FALSE
        BY <2>4
      <4>1. readableBytes(inputBuffer_) = 0
        BY <2>1, <3>2 DEF Holds
      <4>2. readableBytes(inputBuffer_) >= kHeaderLen
        BY <3>1, SameBuffer DEF C!canParseFromArray
      <4> QED BY <4>1, <4>2, CodecSizes
    <3>4. m \in Messages /\ Begins(unread, m)
      BY <3>2, <3>3
    <3>5. z \in Nat
      <4> HIDE DEF m
      <4> QED BY <3>4, MessageFacts
    <3>6. Len(unread) >= z
      <4> HIDE DEF m
      <4> QED BY <2>1, <3>1, <3>4, CanParse
    <3>7. C!byteSizeAll(inputBuffer_) = z /\ C!parseFromArray(inputBuffer_) = m
      <4> HIDE DEF m
      <4> QED BY <2>1, <3>4, <3>6, ParsedIsSent
    <3>8. /\ received' = Append(received, m)
          /\ inputBuffer_' = hasRead(inputBuffer_, z) /\ unread' = t
          /\ parsing' = parsing /\ wire' = wire /\ sent' = sent
      <4> HIDE DEF m, z
      <4> QED BY <2>7, <3>7, SameBuffer, Zenon DEF C!HandlePacket
    <3> HIDE DEF m, z
    <3>9. Valid(inputBuffer_') /\ Holds(inputBuffer_', unread') /\ unread' \in Seq(Nat)
      <4>1. z <= readableBytes(inputBuffer_)
        <5>1. readableBytes(inputBuffer_) = Len(unread) /\ Len(unread) \in Nat
          BY <2>1, LenProperties DEF Holds
        <5> QED BY <3>5, <3>6, <5>1
      <4> QED BY <2>1, <3>5, <3>8, <4>1, HasReadFacts
    <3>10. /\ received' \in Seq(Messages) /\ Len(received') = k + 1
           /\ \A i \in 1..k : received'[i] = received[i]
           /\ received'[k + 1] = m
      BY <2>1, <2>2, <3>4, <3>8, AppendProperties
    <3>11. k + 1 <= Len(sent') /\ \A i \in 1..(k + 1) : received'[i] = sent'[i]
      <4>1. k + 1 <= n /\ \A i \in 1..(k + 1) : i \in 1..k \/ i = k + 1
        BY <3>3
      <4>2. \A i \in 1..k : received'[i] = sent[i]
        BY <2>1, <2>2, <3>10
      <4>3. received'[k + 1] = sent[k + 1]
        BY <3>10 DEF m
      <4> QED BY <2>3, <3>8, <4>1, <4>2, <4>3
    <3>12. IsStream(unread' \o wire', sent', k + 1)
      <4> DEFINE u == t \o wire
      <4>1. /\ t \in Seq(Nat) /\ Len(unread) \in Nat /\ Len(wire) \in Nat
            /\ Len(t) = Len(unread) - z
            /\ \A x \in 1..(Len(unread) - z) : t[x] = unread[z + x]
        <5>1. t \in Seq(Nat)
          BY <3>8, <3>9
        <5>2. Len(unread) \in Nat /\ Len(wire) \in Nat
          BY <2>1, LenProperties
        <5>3. z + 1 \in 1..(Len(unread) + 1) /\ Len(unread) \in z..Len(unread)
          BY <3>5, <3>6, <5>2
        <5>4. Len(t) = IF z + 1 <= Len(unread) THEN (Len(unread) - (z + 1)) + 1 ELSE 0
          BY <2>1, <5>3, SubSeqProperties
        <5>5. \A x \in 1..(Len(unread) - z) : t[x] = unread[z + x]
          BY <3>5, <5>2
        <5> HIDE DEF t
        <5>6. Len(t) = Len(unread) - z
          BY <3>5, <3>6, <5>2, <5>4
        <5> QED BY <5>1, <5>2, <5>5, <5>6
      <4> HIDE DEF t
      <4>2. IsJoin(s, unread, wire, Len(unread), Len(wire))
        BY <2>1, Joined DEF s
      <4>3. IsJoin(u, t, wire, Len(t), Len(wire))
        BY <2>1, <4>1, Joined
      <4> HIDE DEF u
      <4>4. Len(u) = Len(s) - z
        BY <3>5, <4>1, <4>2, <4>3 DEF IsJoin
      <4>5. \A x \in 1..(Len(s) - z) : u[x] = s[z + x]
        <5> SUFFICES ASSUME NEW x \in 1..(Len(s) - z) PROVE u[x] = s[z + x]
          OBVIOUS
        <5>1. Len(s) = Len(unread) + Len(wire)
          BY <4>2 DEF IsJoin
        <5>2. CASE x <= Len(unread) - z
          <6>1. x \in 1..(Len(unread) - z) /\ z + x \in 1..Len(unread)
            BY <3>5, <4>1, <5>1, <5>2
          <6>2. u[x] = t[x] /\ s[z + x] = unread[z + x]
            BY <4>1, <4>2, <4>3, <6>1 DEF IsJoin
          <6> QED BY <4>1, <6>1, <6>2
        <5>3. CASE x > Len(unread) - z
          <6> DEFINE y == x - (Len(unread) - z)
          <6>1. /\ y \in 1..Len(wire) /\ Len(t) + y = x
                /\ Len(unread) + y = z + x
            <7>1. Len(t) = Len(unread) - z
              BY <4>1
            <7>2. Len(unread) \in Nat /\ Len(wire) \in Nat
              BY <4>1
            <7> HIDE <4>1
            <7> QED BY <3>5, <3>6, <5>1, <5>3, <7>1, <7>2
          <6> HIDE DEF y
          <6>2. u[Len(t) + y] = wire[y] /\ s[Len(unread) + y] = wire[y]
            BY <4>2, <4>3, <6>1 DEF IsJoin
          <6> QED BY <6>1, <6>2
        <5>4. x \in Int /\ Len(unread) - z \in Int
          BY <3>5, <4>1
        <5> QED BY <5>2, <5>3, <5>4
      <4>6. IsStream(u, sent, k + 1)
        BY <2>1, <2>3, <2>4, <3>3, <4>4, <4>5, StreamTaken DEF z, m
      <4> QED BY <3>8, <4>6 DEF u
    <3> QED BY <2>1, <3>1, <3>8, <3>9, <3>10, <3>11, <3>12, Zenon DEF CodecInv
  <2>8. ASSUME C!OnRawBytesReturns PROVE CodecInv'
    <3>1. /\ ~C!canParseFromArray(inputBuffer_) /\ inputBuffer_' = inputBuffer_
          /\ wire' = wire /\ sent' = sent /\ received' = received /\ unread' = unread
      BY <2>8 DEF C!OnRawBytesReturns
    <3>2. Waits(unread, sent, k)
      <4> DEFINE m == sent[k + 1]
      <4>1. /\ k = n => unread = <<>>
            /\ k < n => m \in Messages /\ Begins(unread, m)
        BY <2>1, <2>3, <2>4, UnreadFront DEF s
      <4>2. CASE k = n
        BY <4>1, <4>2 DEF Waits
      <4>3. CASE k < n
        <5>1. m \in Messages /\ Begins(unread, m)
          BY <4>1, <4>3
        <5> HIDE DEF m
        <5>2. C!TooLong(m) \/ ~(Len(unread) >= Size(m))
          BY <2>1, <3>1, <5>1, CanParse
        <5>3. Len(unread) \in Nat /\ Size(m) \in Nat
          BY <2>1, <5>1, LenProperties, MessageFacts
        <5>4. C!TooLong(m) \/ Len(unread) < Size(m)
          BY <5>2, <5>3
        <5> QED BY <2>3, <4>3, <5>4 DEF Waits, m
      <4> QED BY <2>4, <4>2, <4>3
    <3> QED BY <2>1, <2>2, <3>1, <3>2, Zenon DEF CodecInv
  <2>9. ASSUME C!NextConnection PROVE CodecInv'
    <3>1. /\ inputBuffer_' = NewBuffer /\ wire' = <<>> /\ sent' = <<>>
          /\ received' = <<>> /\ unread' = <<>>
      BY <2>9, SameBuffer DEF C!NextConnection
    <3>2. Valid(inputBuffer_') /\ Holds(inputBuffer_', unread')
      BY <3>1, NewBufferFacts
    <3>3. /\ unread' \in Seq(Nat) /\ wire' \in Seq(Nat)
          /\ sent' \in Seq(Messages) /\ received' \in Seq(Messages)
          /\ Len(received') = 0 /\ Len(sent') = 0 /\ unread' \o wire' = <<>>
      BY <3>1
    <3>4. IsStream(unread' \o wire', sent', Len(received'))
      BY <3>1, <3>3, NothingSent
    <3>5. Waits(unread', sent', Len(received'))
      BY <3>1 DEF Waits
    <3>6. /\ Len(received') <= Len(sent')
          /\ \A i \in 1..Len(received') : received'[i] = sent'[i]
      BY <3>3
    <3> QED BY <3>2, <3>3, <3>4, <3>5, <3>6 DEF CodecInv
  <2>10. CASE UNCHANGED C!vars
    BY <2>10 DEF C!vars, CodecInv
  <2> QED BY <2>5, <2>6, <2>7, <2>8, <2>9, <2>10, Zenon DEF C!Next
<1> QED BY <1>1, <1>2, PTL DEF C!Spec

(* The receiver gets the messages that were sent, whole and in order,       *)
(* wherever the stream is cut, for any messages, any sizes of the buffer    *)
(* and any number of bytes in a number (OnRawBytes, parseFromArray and      *)
(* packProtoMessageToCachedSizeArray over Buffer).                          *)
THEOREM PacketsComeOutAlways == Spec_ => []PacketsComeOut
<1>1. CodecInv => PacketsComeOut
  <2> SUFFICES ASSUME CodecInv, ~parsing PROVE PacketsComeOut
    BY DEF PacketsComeOut, C!PacketsComeOut
  <2> DEFINE k == Len(received)
             n == Len(sent)
  <2>1. /\ Holds(inputBuffer_, unread) /\ unread \in Seq(Nat) /\ wire \in Seq(Nat)
        /\ sent \in Seq(Messages) /\ received \in Seq(Messages)
        /\ k <= n /\ k \in Nat /\ n \in Nat
        /\ \A i \in 1..k : received[i] = sent[i]
        /\ IsStream(unread \o wire, sent, k)
        /\ Waits(unread, sent, k)
    BY LenProperties DEF CodecInv
  <2>2. k \in 0..n
    BY <2>1
  <2>3. received = SubSeq(sent, 1, k)
    <3>1. received = [i \in 1..k |-> received[i]]
      BY <2>1, LenProperties
    <3>2. SubSeq(sent, 1, k) = [i \in 1..k |-> sent[i]]
      BY <2>1
    <3> HIDE DEF k
    <3>3. [i \in 1..k |-> received[i]] = [i \in 1..k |-> sent[i]]
      BY <2>1
    <3> QED BY <3>1, <3>2, <3>3
  <2>4. Len(unread) = C!Input!readableBytes(inputBuffer_)
    BY <2>1, SameBuffer DEF Holds
  <2>5. wire = <<>> /\ unread = <<>> => k = n
    <3>1. k < n => ~(unread = <<>> /\ wire = <<>>)
      BY <2>1, <2>2, UnreadFront
    <3> HIDE DEF k, n
    <3> QED BY <2>1, <3>1
  <2>6. \/ unread = <<>>
        \/ /\ k < n
           /\ C!TooLong(sent[k + 1]) \/ Len(unread) < C!bytesAllToPack(sent[k + 1])
    BY <2>1, Zenon DEF Waits, Size
  <2> QED BY <2>1, <2>3, <2>4, <2>5, <2>6, Zenon DEF PacketsComeOut, C!PacketsComeOut
<1> QED BY <1>1, CodecPart, CodecInvariant, PTL

-----------------------------------------------------------------------------
(* The text of an integer in LogStream.                                     *)
Magnitude(i) == IF i < 0 THEN -i ELSE i

Digits == L!Range(L!Chars)

(* The table of itoa_s has the digit of a remainder, whatever its sign, and  *)
(* a reader knows its value.                                                *)
LEMMA DigitFacts ==
    ASSUME NEW r \in -9..9
    PROVE  /\ L!DigitOf(r) \in Digits \ {"-", "+"}
           /\ L!DigitValue(L!DigitOf(r)) = Magnitude(r)
           /\ r # 0 => L!DigitOf(r) # "0"
<1> DEFINE d == Magnitude(r)
<1>1. d \in 0..9 /\ (r # 0 => d # 0)
  BY DEF Magnitude
<1>2. L!DigitOf(r) = L!Chars[d + 1]
  BY DEF L!DigitOf, L!dict, L!Chars, Magnitude
<1> HIDE DEF d
<1>3. \A e \in 0..9 : L!Chars[e + 1] = L!Chars[d + 1] <=> e = d
  BY <1>1 DEF L!Chars
<1>4. L!DigitValue(L!Chars[d + 1]) = d
  BY <1>1, <1>3 DEF L!DigitValue
<1>5. L!Chars[d + 1] \in Digits
  <2>1. d + 1 \in DOMAIN L!Chars
    BY <1>1 DEF L!Chars
  <2> QED BY <2>1 DEF Digits, L!Range
<1>6. L!Chars[d + 1] \notin {"-", "+"} /\ (d # 0 => L!Chars[d + 1] # "0")
  BY <1>1 DEF L!Chars
<1> QED BY <1>1, <1>2, <1>4, <1>5, <1>6 DEF d

(* One turn of the loop takes the last digit off, of negative numbers too.  *)
LEMMA QuotientFacts ==
    ASSUME NEW i \in Int, i # 0
    PROVE  /\ L!Quotient10(i) \in Int /\ L!Remainder10(i) \in -9..9
           /\ Magnitude(L!Quotient10(i)) \in Nat /\ Magnitude(i) \in Nat
           /\ Magnitude(L!Quotient10(i)) < Magnitude(i)
           /\ Magnitude(i) = 10 * Magnitude(L!Quotient10(i)) + Magnitude(L!Remainder10(i))
           /\ L!Quotient10(i) = 0 => L!Remainder10(i) # 0
<1>1. CASE i > 0
  <2> DEFINE q == i \div 10
             r == i % 10
  <2>1. q \in Nat /\ r \in 0..9 /\ i = (10 * q) + r
    BY <1>1
  <2>2. L!Remainder10(i) = r
    BY <1>1 DEF L!Remainder10
  <2> HIDE DEF q, r
  <2>3. (i - r) \div 10 = q
    BY <2>1
  <2>4. L!Quotient10(i) = q
    BY <2>2, <2>3 DEF L!Quotient10
  <2> QED BY <1>1, <2>1, <2>2, <2>4 DEF Magnitude
<1>2. CASE i < 0
  <2> DEFINE n == -i
             q == n \div 10
             r == n % 10
  <2>1. q \in Nat /\ r \in 0..9 /\ n = (10 * q) + r
    BY <1>2
  <2>2. L!Remainder10(i) = -r
    BY <1>2 DEF L!Remainder10
  <2> HIDE DEF q, r
  <2>3. (i - (-r)) \div 10 = -q
    BY <2>1
  <2>4. L!Quotient10(i) = -q
    BY <2>2, <2>3 DEF L!Quotient10
  <2> QED BY <1>2, <2>1, <2>2, <2>4 DEF Magnitude
<1> QED BY <1>1, <1>2

(* The equations that define Reversed and Number have solutions.            *)
IsReversed(g, h) ==
    g = [i \in (-h)..h |-> IF i = 0 THEN <<>>
                           ELSE <<L!DigitOf(L!Remainder10(i))>> \o g[L!Quotient10(i)]]

LEMMA ReversedExists ==
    ASSUME NEW h \in Nat
    PROVE  \E g : IsReversed(g, h)
<1> DEFINE S == {n \in Nat : ~ \E g : IsReversed(g, n)}
<1>1. SUFFICES ASSUME S # {} PROVE FALSE
  OBVIOUS
<1>2. PICK n \in S : \A m \in S : n <= m
  <2> HIDE DEF S
  <2>1. S \in SUBSET Nat
    BY DEF S
  <2> QED BY <1>1, <2>1, LeastOf
<1>3. n # 0
  <2>1. IsReversed([i \in (-0)..0 |-> <<>>], 0)
    BY DEF IsReversed
  <2> QED BY <2>1
<1>4. PICK g : IsReversed(g, n - 1)
  <2>1. n - 1 \in Nat /\ ~(n <= n - 1)
    BY <1>3
  <2> QED BY <1>2, <2>1
<1> DEFINE R(i) == <<L!DigitOf(L!Remainder10(i))>> \o g[L!Quotient10(i)]
           f == [i \in (-n)..n |-> IF i = 0 THEN <<>> ELSE R(i)]
<1>5. \A i \in (-(n - 1))..(n - 1) : g[i] = IF i = 0 THEN <<>> ELSE R(i)
  BY <1>4, Zenon DEF IsReversed
<1>6. ASSUME NEW i \in (-n)..n, i # 0
      PROVE  f[L!Quotient10(i)] = g[L!Quotient10(i)]
  <2> DEFINE q == L!Quotient10(i)
  <2>1. q \in Int /\ Magnitude(q) < Magnitude(i)
    BY <1>6, QuotientFacts
  <2> HIDE DEF q, R
  <2>2. q \in (-(n - 1))..(n - 1) /\ q \in (-n)..n
    BY <2>1 DEF Magnitude
  <2>3. f[q] = IF q = 0 THEN <<>> ELSE R(q)
    BY <2>2
  <2> QED BY <1>5, <2>2, <2>3 DEF q
<1>7. ASSUME NEW i \in (-n)..n
      PROVE  (IF i = 0 THEN <<>> ELSE R(i))
               = IF i = 0 THEN <<>>
                 ELSE <<L!DigitOf(L!Remainder10(i))>> \o f[L!Quotient10(i)]
  BY <1>6, Zenon
<1>8. IsReversed(f, n)
  BY <1>7, Zenon DEF IsReversed
<1> QED BY <1>8

(* All solutions agree on what they are both defined for.                   *)
LEMMA ReversedAgree ==
    ASSUME NEW h \in Nat, NEW e \in Nat, NEW g, NEW f, IsReversed(g, h), IsReversed(f, e),
           NEW j \in Int, Magnitude(j) <= h, Magnitude(j) <= e
    PROVE  g[j] = f[j]
<1> DEFINE In(i) == i \in Int /\ Magnitude(i) <= h /\ Magnitude(i) <= e
           S == {n \in Nat : \E i \in Int : In(i) /\ Magnitude(i) = n /\ g[i] # f[i]}
<1>0. \A i \in Int : Magnitude(i) \in Nat
  BY DEF Magnitude
<1>1. SUFFICES ASSUME S # {} PROVE FALSE
  BY <1>0
<1>2. PICK n \in S : \A m \in S : n <= m
  <2> HIDE DEF S
  <2>1. S \in SUBSET Nat
    BY DEF S
  <2> QED BY <1>1, <2>1, LeastOf
<1>3. PICK i \in Int : In(i) /\ Magnitude(i) = n /\ g[i] # f[i]
  BY <1>2
<1>4. i \in (-h)..h /\ i \in (-e)..e
  BY <1>3 DEF Magnitude
<1>5. /\ g[i] = IF i = 0 THEN <<>> ELSE <<L!DigitOf(L!Remainder10(i))>> \o g[L!Quotient10(i)]
      /\ f[i] = IF i = 0 THEN <<>> ELSE <<L!DigitOf(L!Remainder10(i))>> \o f[L!Quotient10(i)]
  BY <1>4, Zenon DEF IsReversed
<1>6. i # 0
  BY <1>3, <1>5
<1> DEFINE q == L!Quotient10(i)
<1>7. q \in Int /\ Magnitude(q) \in Nat /\ Magnitude(q) < n
  BY <1>3, <1>6, QuotientFacts
<1>8. g[q] # f[q]
  BY <1>3, <1>5, <1>6, Zenon
<1> HIDE DEF q
<1>9. Magnitude(q) \in S
  <2>1. In(q)
    BY <1>0, <1>3, <1>7
  <2> QED BY <1>7, <1>8, <2>1
<1> QED BY <1>0, <1>2, <1>3, <1>7, <1>9

LEMMA ReversedIs ==
    \A i \in Int : L!Reversed[i] =
        IF i = 0 THEN <<>> ELSE <<L!DigitOf(L!Remainder10(i))>> \o L!Reversed[L!Quotient10(i)]
<1> DEFINE G(h) == CHOOSE g : IsReversed(g, h)
           F == [i \in Int |-> G(Magnitude(i))[i]]
           R(g, i) == IF i = 0 THEN <<>>
                      ELSE <<L!DigitOf(L!Remainder10(i))>> \o g[L!Quotient10(i)]
<1>1. \A h \in Nat : IsReversed(G(h), h)
  BY ReversedExists, Zenon
<1> HIDE DEF G
<1>2. ASSUME NEW i \in Int PROVE G(Magnitude(i))[i] = R(F, i)
  <2>1. Magnitude(i) \in Nat /\ i \in (-Magnitude(i))..Magnitude(i)
    BY DEF Magnitude
  <2>2. G(Magnitude(i))[i] = R(G(Magnitude(i)), i)
    BY <1>1, <2>1, Zenon DEF IsReversed
  <2>3. ASSUME i # 0 PROVE G(Magnitude(i))[L!Quotient10(i)] = F[L!Quotient10(i)]
    <3> DEFINE q == L!Quotient10(i)
    <3>1. q \in Int /\ Magnitude(q) \in Nat /\ Magnitude(q) < Magnitude(i)
      BY <2>3, QuotientFacts
    <3> HIDE DEF q
    <3>2. G(Magnitude(i))[q] = G(Magnitude(q))[q]
      <4>1. Magnitude(q) <= Magnitude(i) /\ Magnitude(q) <= Magnitude(q)
        BY <2>1, <3>1
      <4>2. IsReversed(G(Magnitude(i)), Magnitude(i)) /\ IsReversed(G(Magnitude(q)), Magnitude(q))
        BY <1>1, <2>1, <3>1
      <4> QED BY <2>1, <3>1, <4>1, <4>2, ReversedAgree
    <3>3. F[q] = G(Magnitude(q))[q]
      BY <3>1
    <3> QED BY <3>2, <3>3 DEF q
  <2> QED BY <2>2, <2>3, Zenon
<1>3. F = [i \in Int |-> R(F, i)]
  <2>1. F = [i \in Int |-> G(Magnitude(i))[i]]
    OBVIOUS
  <2> HIDE DEF F, R
  <2> QED BY <1>2, <2>1, Zenon
<1>4. \E g : g = [i \in Int |-> R(g, i)]
  <2> HIDE DEF F, R
  <2> QED BY <1>3
<1>5. L!Reversed = [i \in Int |-> R(L!Reversed, i)]
  BY <1>4, Zenon DEF L!Reversed
<1> QED BY <1>5, Zenon

IsValue(g, s, h) ==
    g = [n \in 0..h |-> IF n = 0 THEN 0 ELSE 10 * g[n - 1] + L!DigitValue(s[n])]

LEMMA ValueExists ==
    ASSUME NEW s, NEW h \in Nat
    PROVE  \E g : IsValue(g, s, h)
<1> DEFINE S == {n \in Nat : ~ \E g : IsValue(g, s, n)}
<1>1. SUFFICES ASSUME S # {} PROVE FALSE
  OBVIOUS
<1>2. PICK n \in S : \A m \in S : n <= m
  <2> HIDE DEF S
  <2>1. S \in SUBSET Nat
    BY DEF S
  <2> QED BY <1>1, <2>1, LeastOf
<1>3. n # 0
  <2>1. IsValue([i \in 0..0 |-> 0], s, 0)
    BY DEF IsValue
  <2> QED BY <2>1
<1>4. PICK g : IsValue(g, s, n - 1)
  <2>1. n - 1 \in Nat /\ ~(n <= n - 1)
    BY <1>3
  <2> QED BY <1>2, <2>1
<1> DEFINE V(i) == 10 * g[i - 1] + L!DigitValue(s[i])
           f == [i \in 0..n |-> IF i = 0 THEN 0 ELSE V(i)]
<1>5. \A i \in 0..(n - 1) : g[i] = IF i = 0 THEN 0 ELSE V(i)
  BY <1>4, Zenon DEF IsValue
<1>6. ASSUME NEW i \in 0..n, i # 0 PROVE f[i - 1] = g[i - 1]
  <2>1. i - 1 \in 0..(n - 1) /\ i - 1 \in 0..n
    BY <1>6
  <2> DEFINE j == i - 1
  <2> HIDE DEF V, j
  <2>2. f[j] = IF j = 0 THEN 0 ELSE V(j)
    BY <2>1, Zenon DEF j
  <2> QED BY <1>5, <2>1, <2>2, Zenon DEF j
<1>7. ASSUME NEW i \in 0..n
      PROVE  (IF i = 0 THEN 0 ELSE V(i))
               = IF i = 0 THEN 0 ELSE 10 * f[i - 1] + L!DigitValue(s[i])
  BY <1>6, Zenon
<1>8. IsValue(f, s, n)
  BY <1>7, Zenon DEF IsValue
<1> QED BY <1>8

LEMMA NumberIs ==
    ASSUME NEW s, Len(s) \in Nat
    PROVE  \E g : IsValue(g, s, Len(s)) /\ L!Number(s) = g[Len(s)]
<1> DEFINE V == CHOOSE g : g = [n \in 0..Len(s) |->
                    IF n = 0 THEN 0 ELSE 10 * g[n - 1] + L!DigitValue(s[n])]
<1>1. L!Number(s) = V[Len(s)]
  BY Zenon DEF L!Number
<1>2. \E g : IsValue(g, s, Len(s))
  BY ValueExists
<1>3. IsValue(V, s, Len(s))
  BY <1>2, Zenon DEF IsValue
<1> QED BY <1>1, <1>3

(* The value of digits depends on those digits alone.                       *)
SameUpTo(s, t, e) == \A i \in 1..e : s[i] = t[i]

LEMMA ValuesAgree ==
    ASSUME NEW s, NEW t, NEW h \in Nat, NEW e \in 0..h, NEW g, NEW f,
           IsValue(g, s, h), IsValue(f, t, e), SameUpTo(s, t, e)
    PROVE  g[e] = f[e]
<1> DEFINE S == {n \in 0..e : g[n] # f[n]}
<1>1. SUFFICES ASSUME S # {} PROVE FALSE
  OBVIOUS
<1>2. PICK n \in S : \A m \in S : n <= m
  <2> HIDE DEF S
  <2>1. S \in SUBSET Nat
    BY DEF S
  <2> QED BY <1>1, <2>1, LeastOf
<1>3. n \in 0..e /\ n \in 0..h
  OBVIOUS
<1>4. /\ g[n] = IF n = 0 THEN 0 ELSE 10 * g[n - 1] + L!DigitValue(s[n])
      /\ f[n] = IF n = 0 THEN 0 ELSE 10 * f[n - 1] + L!DigitValue(t[n])
  BY <1>3, Zenon DEF IsValue
<1>5. n # 0
  BY <1>2, <1>4, Zenon
<1>6. n \in 1..e /\ n - 1 \in 0..e /\ ~(n <= n - 1)
  BY <1>3, <1>5
<1>7. g[n - 1] = f[n - 1] /\ s[n] = t[n]
  BY <1>2, <1>6 DEF SameUpTo
<1> QED BY <1>2, <1>4, <1>5, <1>7, Zenon

LEMMA NumberOfNone == L!Number(<<>>) = 0
<1>1. Len(<<>>) = 0
  OBVIOUS
<1>2. PICK g : IsValue(g, <<>>, 0) /\ L!Number(<<>>) = g[0]
  BY <1>1, NumberIs
<1> QED BY <1>2 DEF IsValue

LEMMA NumberOfAppended ==
    ASSUME NEW S, NEW s \in Seq(S), NEW c \in S
    PROVE  L!Number(Append(s, c)) = 10 * L!Number(s) + L!DigitValue(c)
<1> DEFINE t == Append(s, c)
           n == Len(s)
<1>1. /\ n \in Nat /\ Len(t) = n + 1 /\ t[n + 1] = c
      /\ \A i \in 1..n : t[i] = s[i]
  BY AppendProperties, LenProperties
<1> HIDE DEF t, n
<1>2. PICK g : IsValue(g, t, n + 1) /\ L!Number(t) = g[n + 1]
  BY <1>1, NumberIs
<1>3. PICK f : IsValue(f, s, n) /\ L!Number(s) = f[n]
  BY <1>1, NumberIs DEF n
<1>4. g[n] = f[n]
  <2>1. SameUpTo(t, s, n) /\ n + 1 \in Nat /\ n \in 0..(n + 1)
    BY <1>1 DEF SameUpTo
  <2> QED BY <1>2, <1>3, <2>1, ValuesAgree
<1>5. g[n + 1] = 10 * g[n] + L!DigitValue(c)
  <2>1. n + 1 \in 0..(n + 1) /\ n + 1 # 0 /\ (n + 1) - 1 = n
    BY <1>1
  <2> DEFINE m == n + 1
  <2> HIDE DEF m
  <2>2. g[m] = 10 * g[m - 1] + L!DigitValue(t[m])
    BY <1>2, <2>1, Zenon DEF IsValue, m
  <2> QED BY <1>1, <2>1, <2>2, Zenon DEF m
<1> QED BY <1>2, <1>3, <1>4, <1>5 DEF t

(* Reversing a sequence puts its first element last and its last one first. *)
LEMMA ReverseFacts ==
    ASSUME NEW S, NEW s \in Seq(S), NEW c \in S
    PROVE  /\ L!Reverse(s) \in Seq(S) /\ Len(L!Reverse(s)) = Len(s)
           /\ L!Reverse(<<c>> \o s) = Append(L!Reverse(s), c)
           /\ L!Reverse(s \o <<c>>) = <<c>> \o L!Reverse(s)
<1> DEFINE n == Len(s)
           r == L!Reverse(s)
<1>1. n \in Nat /\ \A i \in 1..n : s[i] \in S
  BY LenProperties, ElementOfSeq
<1>2. r = [i \in 1..n |-> s[(n - i) + 1]]
  BY DEF L!Reverse
<1>3. r \in Seq(S) /\ Len(r) = n
  <2>1. \A i \in 1..n : s[(n - i) + 1] \in S
    BY <1>1
  <2> HIDE DEF n, r
  <2>2. r \in [1..n -> S]
    BY <1>2, <2>1
  <2>3. r \in Seq(S)
    BY <1>1, <2>2, IsASeq
  <2> QED BY <1>1, <2>2, <2>3, LenProperties
<1>4. L!Reverse(<<c>> \o s) = Append(r, c)
  <2> DEFINE u == <<c>> \o s
  <2>1. u \in Seq(S) /\ Len(u) = n + 1 /\ u[1] = c /\ \A i \in 1..n : u[i + 1] = s[i]
    BY <1>1
  <2> HIDE DEF u
  <2>2. L!Reverse(u) = [i \in 1..(n + 1) |-> u[((n + 1) - i) + 1]]
    BY <2>1 DEF L!Reverse
  <2> DEFINE a == Append(r, c)
  <2>3. Len(a) = n + 1 /\ a \in Seq(S) /\ a[n + 1] = c /\ \A i \in 1..n : a[i] = r[i]
    BY <1>1, <1>3, AppendProperties
  <2> HIDE DEF a, n, r
  <2>4. a = [i \in 1..(n + 1) |-> a[i]]
    BY <2>3, LenProperties
  <2>5. ASSUME NEW i \in 1..(n + 1) PROVE a[i] = u[((n + 1) - i) + 1]
    <3>1. CASE i = n + 1
      BY <1>1, <2>1, <2>3, <3>1
    <3>2. CASE i # n + 1
      <4>1. i \in 1..n /\ (n - i) + 1 \in 1..n /\ ((n + 1) - i) + 1 = ((n - i) + 1) + 1
        BY <1>1, <3>2
      <4>2. a[i] = s[(n - i) + 1]
        BY <1>2, <2>3, <4>1
      <4> QED BY <2>1, <4>1, <4>2
    <3> QED BY <3>1, <3>2
  <2>6. L!Reverse(u) = a
    BY <2>2, <2>4, <2>5, Zenon
  <2> QED BY <2>6 DEF u, a, r
<1>5. L!Reverse(s \o <<c>>) = <<c>> \o r
  <2> DEFINE u == s \o <<c>>
  <2>1. u \in Seq(S) /\ Len(u) = n + 1 /\ u[n + 1] = c /\ \A i \in 1..n : u[i] = s[i]
    BY <1>1
  <2> HIDE DEF u
  <2>2. L!Reverse(u) = [i \in 1..(n + 1) |-> u[((n + 1) - i) + 1]]
    BY <2>1 DEF L!Reverse
  <2> DEFINE a == <<c>> \o r
  <2> HIDE DEF n, r
  <2>3. Len(a) = n + 1 /\ a \in Seq(S) /\ a[1] = c /\ \A i \in 1..n : a[i + 1] = r[i]
    BY <1>1, <1>3
  <2> HIDE DEF a
  <2>4. a = [i \in 1..(n + 1) |-> a[i]]
    BY <2>3, LenProperties
  <2>5. ASSUME NEW i \in 1..(n + 1) PROVE a[i] = u[((n + 1) - i) + 1]
    <3>1. CASE i = 1
      BY <1>1, <2>1, <2>3, <3>1
    <3>2. CASE i # 1
      <4> DEFINE j == i - 1
      <4>1. j \in 1..n /\ (n - j) + 1 \in 1..n /\ ((n + 1) - i) + 1 = (n - j) + 1 /\ i = j + 1
        BY <1>1, <3>2
      <4> HIDE DEF j
      <4>2. a[i] = s[(n - j) + 1]
        BY <1>2, <2>3, <4>1
      <4> QED BY <2>1, <4>1, <4>2
    <3> QED BY <3>1, <3>2
  <2>6. L!Reverse(u) = a
    BY <2>2, <2>4, <2>5, Zenon
  <2> QED BY <2>6 DEF u, a, r
<1> QED BY <1>3, <1>4, <1>5 DEF n, r

Numeral(i) == L!Reverse(L!Reversed[i])

(* The digits of an integer, turned round, are its decimal numeral.         *)
LEMMA NumeralOfZero == L!Reversed[0] = <<>> /\ Numeral(0) = <<>>
<1>1. 0 \in Int
  OBVIOUS
<1>2. L!Reversed[0] = <<>>
  BY <1>1, ReversedIs, Zenon
<1> QED BY <1>2 DEF Numeral, L!Reverse

LEMMA NumeralFacts ==
    \A i \in Int :
        /\ L!Reversed[i] \in Seq(Digits)
        /\ L!Number(Numeral(i)) = Magnitude(i)
        /\ i # 0 => Numeral(i) # <<>> /\ Numeral(i)[1] # "0"
<1> DEFINE P(i) == /\ L!Reversed[i] \in Seq(Digits)
                   /\ L!Number(Numeral(i)) = Magnitude(i)
                   /\ i # 0 => Numeral(i) # <<>> /\ Numeral(i)[1] # "0"
           S == {n \in Nat : \E i \in Int : Magnitude(i) = n /\ ~P(i)}
<1>1. \A i \in Int : Magnitude(i) \in Nat
  BY DEF Magnitude
<1>2. SUFFICES ASSUME S # {} PROVE FALSE
  <2> HIDE DEF P
  <2>1. \A i \in Int : P(i)
    BY <1>1, <1>2
  <2> QED BY <2>1 DEF P
<1>3. PICK n \in S : \A m \in S : n <= m
  <2> HIDE DEF S
  <2>1. S \in SUBSET Nat
    BY DEF S
  <2> QED BY <1>2, <2>1, LeastOf
<1>4. PICK i \in Int : Magnitude(i) = n /\ ~P(i)
  BY <1>3
<1> DEFINE q == L!Quotient10(i)
           c == L!DigitOf(L!Remainder10(i))
<1>5. CASE i = 0
  BY <1>4, <1>5, NumeralOfZero, NumberOfNone DEF Magnitude
<1>6. CASE i # 0
  <2>1. /\ q \in Int /\ Magnitude(q) \in Nat /\ Magnitude(q) < n
        /\ L!Remainder10(i) \in -9..9
        /\ n = 10 * Magnitude(q) + Magnitude(L!Remainder10(i))
        /\ q = 0 => L!Remainder10(i) # 0
    BY <1>4, <1>6, QuotientFacts
  <2>2. /\ c \in Digits /\ L!DigitValue(c) = Magnitude(L!Remainder10(i))
        /\ L!Remainder10(i) # 0 => c # "0"
    BY <2>1, DigitFacts
  <2>3. L!Reversed[i] = <<c>> \o L!Reversed[q]
    BY <1>6, ReversedIs
  <2> HIDE DEF q, c
  <2>4. P(q)
    <3> HIDE DEF P
    <3>1. Magnitude(q) \notin S
      BY <1>1, <1>3, <2>1
    <3> QED BY <2>1, <3>1
  <2>5. /\ L!Reversed[i] \in Seq(Digits)
        /\ Numeral(i) = Append(Numeral(q), c) /\ Numeral(q) \in Seq(Digits)
    BY <2>2, <2>3, <2>4, ReverseFacts DEF Numeral
  <2>6. L!Number(Numeral(i)) = Magnitude(i)
    BY <1>4, <2>1, <2>2, <2>4, <2>5, NumberOfAppended
  <2>7. Len(Numeral(i)) = Len(Numeral(q)) + 1 /\ Len(Numeral(q)) \in Nat
    BY <2>2, <2>5, AppendProperties, LenProperties
  <2>8. Numeral(i)[1] # "0"
    <3>1. CASE q = 0
      <4>1. Numeral(q) = <<>>
        BY <3>1, NumeralOfZero
      <4>2. Numeral(i)[1] = c
        BY <2>5, <4>1
      <4> QED BY <2>1, <2>2, <3>1, <4>2
    <3>2. CASE q # 0
      <4>1. Numeral(q) # <<>> /\ Numeral(q)[1] # "0"
        BY <2>4, <3>2
      <4>2. 1 \in 1..Len(Numeral(q))
        BY <2>5, <2>7, <4>1, EmptySeq
      <4>3. Numeral(i)[1] = Numeral(q)[1]
        BY <2>2, <2>5, <4>2, AppendProperties
      <4> QED BY <4>1, <4>3
    <3> QED BY <3>1, <3>2
  <2>9. Numeral(i) # <<>>
    BY <2>7
  <2> QED BY <1>4, <2>5, <2>6, <2>8, <2>9
<1> QED BY <1>5, <1>6

(* itoa_s writes the numeral, behind a sign if there is one.                *)
LEMMA TextOfInteger ==
    ASSUME NEW i \in Int, i # 0
    PROVE  /\ L!Unsigned(L!itoa_s(i)) = Numeral(i)
           /\ L!IsNegative(L!itoa_s(i)) <=> i < 0
<1> DEFINE s == L!Reversed[i]
           t == Numeral(i)
<1>1. /\ s \in Seq(Digits) /\ s \in Seq(Digits \cup {"-"})
      /\ t \in Seq(Digits) /\ Len(t) = Len(s) /\ t # <<>>
  <2>1. s \in Seq(Digits) /\ t # <<>>
    BY NumeralFacts
  <2>2. \A c : c \in Digits => L!Reverse(s) \in Seq(Digits) /\ Len(L!Reverse(s)) = Len(s)
    BY <2>1, ReverseFacts
  <2>3. L!DigitOf(0) \in Digits
    BY DigitFacts
  <2> QED BY <2>1, <2>2, <2>3 DEF Numeral
<1>2. t[1] \notin {"-", "+"}
  <2>1. t[1] \in Digits
    BY <1>1
  <2>2. Digits \cap {"-", "+"} = {}
    BY DEF Digits, L!Range, L!Chars
  <2> QED BY <2>1, <2>2
<1>3. CASE i < 0
  <2>1. L!itoa_s(i) = <<"-">> \o t
    <3>1. L!itoa_s(i) = L!Reverse(s \o <<"-">>)
      BY <1>3 DEF L!itoa_s
    <3>2. "-" \in Digits \cup {"-"}
      OBVIOUS
    <3> QED BY <1>1, <3>1, <3>2, ReverseFacts DEF Numeral
  <2> HIDE DEF s, t
  <2> DEFINE u == <<"-">> \o t
  <2>2. u # <<>> /\ u[1] = "-" /\ Tail(u) = t
    BY <1>1
  <2> HIDE DEF u
  <2>3. L!Unsigned(u) = t /\ L!IsNegative(u)
    BY <2>2 DEF L!Unsigned, L!IsNegative
  <2> QED BY <1>3, <2>1, <2>3 DEF u, t
<1>4. CASE ~(i < 0)
  <2>1. L!itoa_s(i) = t
    <3>1. s \o <<>> = s
      BY <1>1
    <3> QED BY <1>4, <3>1 DEF L!itoa_s, Numeral
  <2> HIDE DEF s, t
  <2>2. L!Unsigned(t) = t /\ ~L!IsNegative(t)
    BY <1>2 DEF L!Unsigned, L!IsNegative
  <2> QED BY <1>4, <2>1, <2>2 DEF t
<1> QED BY <1>3, <1>4

-----------------------------------------------------------------------------
(* The text of a decimal in LogStream.                                      *)
IsPower(g, h) == g = [n \in 0..h |-> IF n = 0 THEN 1 ELSE 10 * g[n - 1]]

LEMMA PowersAgree ==
    ASSUME NEW h \in Nat, NEW e \in 0..h, NEW g, NEW f, IsPower(g, h), IsPower(f, e)
    PROVE  g[e] = f[e]
<1> DEFINE S == {n \in 0..e : g[n] # f[n]}
<1>1. SUFFICES ASSUME S # {} PROVE FALSE
  OBVIOUS
<1>2. PICK n \in S : \A m \in S : n <= m
  <2> HIDE DEF S
  <2>1. S \in SUBSET Nat
    BY DEF S
  <2> QED BY <1>1, <2>1, LeastOf
<1>3. n \in 0..e /\ n \in 0..h
  OBVIOUS
<1>4. /\ g[n] = IF n = 0 THEN 1 ELSE 10 * g[n - 1]
      /\ f[n] = IF n = 0 THEN 1 ELSE 10 * f[n - 1]
  BY <1>3, Zenon DEF IsPower
<1>5. n # 0
  BY <1>2, <1>4, Zenon
<1>6. n - 1 \in 0..e /\ ~(n <= n - 1)
  BY <1>3, <1>5
<1>7. g[n - 1] = f[n - 1]
  BY <1>2, <1>6
<1> QED BY <1>2, <1>4, <1>5, <1>7, Zenon

LEMMA Pow10Is ==
    \A n \in Nat : L!Pow10[n] = IF n = 0 THEN 1 ELSE 10 * L!Pow10[n - 1]
<1> DEFINE G(h) == CHOOSE g : IsPower(g, h)
           F == [n \in Nat |-> G(n)[n]]
           R(g, n) == IF n = 0 THEN 1 ELSE 10 * g[n - 1]
<1>1. \A h \in Nat : IsPower(G(h), h)
  <2>1. \A h \in Nat : \E g : IsPower(g, h)
    BY PowerExists, Zenon DEF IsPower
  <2> QED BY <2>1, Zenon
<1> HIDE DEF G
<1>2. ASSUME NEW n \in Nat PROVE G(n)[n] = R(F, n)
  <2>1. n \in 0..n
    OBVIOUS
  <2>2. G(n)[n] = R(G(n), n)
    BY <1>1, <2>1, Zenon DEF IsPower
  <2>3. ASSUME n # 0 PROVE G(n)[n - 1] = F[n - 1]
    <3> DEFINE m == n - 1
    <3>1. m \in Nat /\ m \in 0..n
      BY <2>3
    <3> HIDE DEF m
    <3>2. G(n)[m] = G(m)[m]
      BY <1>1, <3>1, PowersAgree
    <3>3. F[m] = G(m)[m]
      BY <3>1
    <3> QED BY <3>2, <3>3 DEF m
  <2> QED BY <2>2, <2>3, Zenon
<1>3. F = [n \in Nat |-> R(F, n)]
  <2>1. F = [n \in Nat |-> G(n)[n]]
    OBVIOUS
  <2> HIDE DEF F, R
  <2> QED BY <1>2, <2>1, Zenon
<1>4. \E g : g = [n \in Nat |-> R(g, n)]
  <2> HIDE DEF F, R
  <2> QED BY <1>3
<1>5. L!Pow10 = [n \in Nat |-> R(L!Pow10, n)]
  BY <1>4, Zenon DEF L!Pow10
<1> QED BY <1>5, Zenon

LEMMA Pow10Facts ==
    /\ \A n \in Nat : L!Pow10[n] \in Nat \ {0} /\ L!Pow10[n + 1] = 10 * L!Pow10[n]
    /\ L!Pow10[0] = 1
<1>1. L!Pow10[0] = 1
  <2>1. 0 \in Nat
    OBVIOUS
  <2> QED BY <2>1, Pow10Is, Zenon
<1>2. ASSUME NEW n \in Nat PROVE L!Pow10[n + 1] = 10 * L!Pow10[n]
  <2> DEFINE m == n + 1
  <2>1. m \in Nat /\ m # 0 /\ m - 1 = n
    OBVIOUS
  <2> HIDE DEF m
  <2> QED BY <2>1, Pow10Is, Zenon DEF m
<1> DEFINE S == {n \in Nat : L!Pow10[n] \notin Nat \ {0}}
<1>3. S = {}
  <2> SUFFICES ASSUME S # {} PROVE FALSE
    OBVIOUS
  <2>1. PICK n \in S : \A m \in S : n <= m
    <3> HIDE DEF S
    <3>1. S \in SUBSET Nat
      BY DEF S
    <3> QED BY <3>1, LeastOf
  <2>2. n # 0
    BY <1>1, <2>1
  <2>3. n - 1 \in Nat /\ ~(n <= n - 1) /\ (n - 1) + 1 = n
    BY <2>1, <2>2
  <2>4. L!Pow10[n - 1] \in Nat \ {0}
    BY <2>1, <2>3
  <2>5. L!Pow10[n] = 10 * L!Pow10[n - 1]
    BY <1>2, <2>3
  <2> QED BY <2>1, <2>4, <2>5
<1> QED BY <1>1, <1>2, <1>3

LEMMA SmallPowers ==
    /\ L!Pow10[1] = 10 /\ L!Pow10[2] = 100 /\ L!Pow10[4] = 10000
    /\ L!Pow10[8] = 100000000 /\ L!Pow10[17] = 100000000000000000
<1>1. /\ L!Pow10[1] = 10 /\ L!Pow10[2] = 100 /\ L!Pow10[3] = 1000 /\ L!Pow10[4] = 10000
  BY Pow10Facts, SMT
<1>2. L!Pow10[5] = 100000 /\ L!Pow10[6] = 1000000 /\ L!Pow10[7] = 10000000
      /\ L!Pow10[8] = 100000000
  BY <1>1, Pow10Facts, SMT
<1>3. L!Pow10[9] = 1000000000 /\ L!Pow10[10] = 10000000000 /\ L!Pow10[11] = 100000000000
      /\ L!Pow10[12] = 1000000000000
  BY <1>2, Pow10Facts, SMT
<1>4. L!Pow10[13] = 10000000000000 /\ L!Pow10[14] = 100000000000000
      /\ L!Pow10[15] = 1000000000000000 /\ L!Pow10[16] = 10000000000000000
  BY <1>3, Pow10Facts, SMT
<1>5. L!Pow10[17] = 100000000000000000
  BY <1>4, Pow10Facts, SMT
<1> QED BY <1>1, <1>2, <1>5, SMT

(* A longer power is at least ten times a shorter one.                      *)
LEMMA Pow10Grows ==
    ASSUME NEW m \in Nat, NEW n \in Nat, m < n
    PROVE  10 * L!Pow10[m] <= L!Pow10[n]
<1> DEFINE S == {k \in Nat : m < k /\ ~(10 * L!Pow10[m] <= L!Pow10[k])}
<1>1. SUFFICES ASSUME S # {} PROVE FALSE
  OBVIOUS
<1>2. PICK k \in S : \A j \in S : k <= j
  <2> HIDE DEF S
  <2>1. S \in SUBSET Nat
    BY DEF S
  <2> QED BY <1>1, <2>1, LeastOf
<1>3. k - 1 \in Nat /\ ~(k <= k - 1) /\ (k - 1) + 1 = k
  BY <1>2
<1>4. /\ L!Pow10[k] = 10 * L!Pow10[k - 1]
      /\ L!Pow10[k - 1] \in Nat /\ L!Pow10[m] \in Nat
  BY <1>3, Pow10Facts
<1>5. CASE k - 1 = m
  BY <1>2, <1>4, <1>5
<1>6. CASE k - 1 # m
  <2>1. m < k - 1 /\ k - 1 \notin S
    BY <1>2, <1>3, <1>6
  <2>2. 10 * L!Pow10[m] <= L!Pow10[k - 1]
    BY <1>3, <2>1
  <2> QED BY <1>2, <1>4, <2>2
<1> QED BY <1>5, <1>6

(* The values of the beginnings of a text of digits.                        *)
ValueOf(s) == CHOOSE g : IsValue(g, s, Len(s))

LEMMA DigitIs ==
    ASSUME NEW c \in Digits
    PROVE  L!DigitValue(c) \in 0..9 /\ (L!DigitValue(c) = 0 <=> c = "0")
<1>1. PICK d \in 0..9 : c = L!Chars[d + 1]
  <2>1. PICK j \in DOMAIN L!Chars : c = L!Chars[j]
    BY DEF Digits, L!Range
  <2>2. j \in 1..10
    BY DEF L!Chars
  <2>3. j - 1 \in 0..9 /\ (j - 1) + 1 = j
    BY <2>2
  <2> QED BY <2>1, <2>3
<1>2. \A e \in 0..9 : L!Chars[e + 1] = L!Chars[d + 1] <=> e = d
  BY DEF L!Chars
<1>3. L!DigitValue(c) = d
  BY <1>1, <1>2 DEF L!DigitValue
<1>4. L!Chars[d + 1] = "0" <=> d = 0
  BY DEF L!Chars
<1> QED BY <1>1, <1>3, <1>4

LEMMA CharFacts ==
    ASSUME NEW d \in 0..9
    PROVE  L!Chars[d + 1] \in Digits /\ L!DigitValue(L!Chars[d + 1]) = d
<1>1. L!DigitOf(d) = L!Chars[d + 1]
  BY DEF L!DigitOf, L!dict, L!Chars
<1>2. d \in -9..9 /\ Magnitude(d) = d
  BY DEF Magnitude
<1> QED BY <1>1, <1>2, DigitFacts

LEMMA ValueFacts ==
    ASSUME NEW s \in Seq(Digits)
    PROVE  /\ ValueOf(s)[0] = 0
           /\ \A n \in 1..Len(s) :
                /\ ValueOf(s)[n] = 10 * ValueOf(s)[n - 1] + L!DigitValue(s[n])
                /\ s[n] \in Digits
           /\ \A n \in 0..Len(s) : ValueOf(s)[n] \in Nat
           /\ L!Number(s) = ValueOf(s)[Len(s)]
<1> DEFINE v == ValueOf(s)
           h == Len(s)
<1>1. h \in Nat /\ \A n \in 1..h : s[n] \in Digits
  BY LenProperties, ElementOfSeq
<1>2. IsValue(v, s, h)
  <2>1. \E g : IsValue(g, s, h)
    BY <1>1, ValueExists
  <2> QED BY <2>1, Zenon DEF ValueOf
<1>3. L!Number(s) = v[h]
  <2>1. PICK g : IsValue(g, s, h) /\ L!Number(s) = g[h]
    BY <1>1, NumberIs
  <2>2. h \in 0..h
    BY <1>1
  <2> HIDE DEF v, h
  <2>3. v[h] = g[h]
    BY <1>1, <1>2, <2>1, <2>2, ValuesAgree DEF SameUpTo
  <2> QED BY <2>1, <2>3
<1> HIDE DEF v, h
<1>4. \A n \in 0..h : v[n] = IF n = 0 THEN 0 ELSE 10 * v[n - 1] + L!DigitValue(s[n])
  BY <1>2, Zenon DEF IsValue
<1>5. v[0] = 0
  <2>1. 0 \in 0..h
    BY <1>1
  <2> QED BY <1>4, <2>1, Zenon
<1>6. ASSUME NEW n \in 1..h PROVE v[n] = 10 * v[n - 1] + L!DigitValue(s[n])
  <2>1. n \in 0..h /\ n # 0
    BY <1>1
  <2> QED BY <1>4, <2>1, Zenon
<1> DEFINE S == {n \in 0..h : v[n] \notin Nat}
<1>7. S = {}
  <2> SUFFICES ASSUME S # {} PROVE FALSE
    OBVIOUS
  <2>1. PICK n \in S : \A m \in S : n <= m
    <3> HIDE DEF S
    <3>1. S \in SUBSET Nat
      BY DEF S
    <3> QED BY <3>1, LeastOf
  <2>2. n \in 0..h /\ n # 0
    BY <1>5, <2>1
  <2>3. n \in 1..h /\ n - 1 \in 0..h /\ ~(n <= n - 1)
    BY <1>1, <2>2
  <2>4. v[n - 1] \in Nat
    BY <2>1, <2>3
  <2>5. L!DigitValue(s[n]) \in Nat
    BY <1>1, <2>3, DigitIs
  <2> QED BY <1>6, <2>1, <2>3, <2>4, <2>5
<1> QED BY <1>1, <1>3, <1>5, <1>6, <1>7 DEF v, h

(* The value of a beginning is that of the text cut off there.              *)
LEMMA NumberOfFront ==
    ASSUME NEW s \in Seq(Digits), NEW n \in 0..Len(s)
    PROVE  SubSeq(s, 1, n) \in Seq(Digits) /\ L!Number(SubSeq(s, 1, n)) = ValueOf(s)[n]
<1> DEFINE t == SubSeq(s, 1, n)
           h == Len(s)
<1>1. h \in Nat /\ n \in 0..h
  BY LenProperties
<1>2. t \in Seq(Digits) /\ Len(t) = n /\ \A i \in 1..n : t[i] = s[i]
  BY <1>1
<1>3. IsValue(ValueOf(s), s, h)
  <2>1. \E g : IsValue(g, s, h)
    BY <1>1, ValueExists
  <2> QED BY <2>1, Zenon DEF ValueOf
<1> HIDE DEF t, h
<1>4. PICK f : IsValue(f, t, n) /\ L!Number(t) = f[n]
  <2>1. Len(t) \in Nat
    BY <1>1, <1>2
  <2> QED BY <1>2, <2>1, NumberIs
<1>5. ValueOf(s)[n] = f[n]
  <2>1. SameUpTo(s, t, n)
    BY <1>2 DEF SameUpTo
  <2> QED BY <1>1, <1>3, <1>4, <2>1, ValuesAgree
<1> QED BY <1>2, <1>4, <1>5 DEF t

(* A numeral without a zero in front has as many digits as its value needs. *)
LEMMA NumeralLength ==
    ASSUME NEW s \in Seq(Digits), s # <<>>, s[1] # "0"
    PROVE  /\ Len(s) \in Nat \ {0}
           /\ L!Pow10[Len(s) - 1] <= L!Number(s) /\ L!Number(s) < L!Pow10[Len(s)]
<1> DEFINE v == ValueOf(s)
           h == Len(s)
           Bounds(n) == L!Pow10[n - 1] <= v[n] /\ v[n] < L!Pow10[n]
           S == {n \in 1..h : ~Bounds(n)}
<1>1. h \in Nat \ {0}
  BY LenProperties, EmptySeq
<1>2. /\ v[0] = 0 /\ L!Number(s) = v[h] /\ \A n \in 0..h : v[n] \in Nat
      /\ \A n \in 1..h : v[n] = 10 * v[n - 1] + L!DigitValue(s[n]) /\ s[n] \in Digits
  BY ValueFacts
<1> HIDE DEF v, h
<1>3. S = {}
  <2> SUFFICES ASSUME S # {} PROVE FALSE
    OBVIOUS
  <2>1. PICK n \in S : \A m \in S : n <= m
    <3> HIDE DEF S
    <3>1. S \in SUBSET Nat
      BY <1>1 DEF S
    <3> QED BY <3>1, LeastOf
  <2>2. n \in 1..h /\ ~Bounds(n)
    BY <2>1
  <2>3. v[n] = 10 * v[n - 1] + L!DigitValue(s[n]) /\ L!DigitValue(s[n]) \in 0..9
        /\ (L!DigitValue(s[n]) = 0 <=> s[n] = "0")
    BY <1>2, <2>2, DigitIs
  <2>4. CASE n = 1
    <3>1. L!Pow10[0] = 1 /\ L!Pow10[1] = 10
      BY Pow10Facts, SmallPowers, SMT
    <3> QED BY <1>2, <2>2, <2>3, <2>4, <3>1
  <2>5. CASE n # 1
    <3>1. n - 1 \in 1..h /\ ~(n <= n - 1) /\ n - 1 \in Nat /\ (n - 1) - 1 \in Nat
      BY <1>1, <2>2, <2>5
    <3>2. Bounds(n - 1) /\ v[n - 1] \in Nat
      BY <1>2, <2>1, <3>1
    <3>3. /\ L!Pow10[n] = 10 * L!Pow10[n - 1] /\ L!Pow10[n - 1] = 10 * L!Pow10[(n - 1) - 1]
          /\ L!Pow10[n - 1] \in Nat /\ L!Pow10[(n - 1) - 1] \in Nat
      <4>1. ((n - 1) - 1) + 1 = n - 1 /\ (n - 1) + 1 = n
        BY <3>1
      <4> QED BY <3>1, <4>1, Pow10Facts
    <3> DEFINE p == L!Pow10[n - 1]
               q == L!Pow10[(n - 1) - 1]
               x == v[n - 1]
               d == L!DigitValue(s[n])
    <3>4. /\ p \in Nat /\ q \in Nat /\ x \in Nat /\ d \in 0..9
          /\ p = 10 * q /\ q <= x /\ x < p
      BY <2>3, <3>2, <3>3
    <3>5. v[n] = 10 * x + d /\ L!Pow10[n] = 10 * p
      BY <2>3, <3>3
    <3> HIDE DEF p, q, x, d
    <3>6. p <= 10 * x + d /\ 10 * x + d < 10 * p
      BY <3>4
    <3>7. Bounds(n)
      BY <3>5, <3>6 DEF p
    <3> QED BY <2>2, <3>7
  <2> QED BY <2>4, <2>5
<1>4. Bounds(h)
  <2>1. h \in 1..h
    BY <1>1
  <2> QED BY <1>3, <2>1
<1> QED BY <1>1, <1>2, <1>4 DEF h

(* Utoa_nDigits behind a text of digits.                                    *)
LEMMA DigitsAppended ==
    ASSUME NEW s \in Seq(Digits), NEW n \in Nat, NEW r \in Nat, r < L!Pow10[n]
    PROVE  /\ s \o L!Utoa(n, r) \in Seq(Digits)
           /\ Len(s \o L!Utoa(n, r)) = Len(s) + n
           /\ \A i \in 1..Len(s) : (s \o L!Utoa(n, r))[i] = s[i]
           /\ L!Number(s \o L!Utoa(n, r)) = L!Number(s) * L!Pow10[n] + r
<1> DEFINE t == L!Utoa(n, r)
           u == s \o t
           l == Len(s)
           v == ValueOf(u)
           x == L!Number(s)
           P(j) == L!Pow10[j]
<1>1. l \in Nat
  BY LenProperties
<1>2. \A j \in Nat : P(j) \in Nat \ {0} /\ P(j + 1) = 10 * P(j)
  BY Pow10Facts
<1>3. /\ t = [i \in 1..n |-> L!Chars[((r \div P(n - i)) % 10) + 1]]
      /\ \A i \in 1..n : /\ t[i] = L!Chars[((r \div P(n - i)) % 10) + 1]
                         /\ (r \div P(n - i)) % 10 \in 0..9
                         /\ r \div P(n - i) \in Nat
                         /\ t[i] \in Digits
  <2>1. t = [i \in 1..n |-> L!Chars[((r \div P(n - i)) % 10) + 1]]
    BY DEF L!Utoa
  <2> HIDE DEF t
  <2>2. ASSUME NEW i \in 1..n
        PROVE  /\ t[i] = L!Chars[((r \div P(n - i)) % 10) + 1]
               /\ (r \div P(n - i)) % 10 \in 0..9
               /\ r \div P(n - i) \in Nat
               /\ t[i] \in Digits
    <3>1. P(n - i) \in Nat \ {0}
      <4>1. n - i \in Nat
        OBVIOUS
      <4> QED BY <1>2, <4>1
    <3> HIDE DEF P
    <3>2. r \div P(n - i) \in Nat
      BY <3>1, Division
    <3> DEFINE y == r \div P(n - i)
    <3> HIDE DEF y
    <3>3. y % 10 \in 0..9
      BY <3>2 DEF y
    <3>4. t[i] = L!Chars[(y % 10) + 1]
      BY <2>1 DEF y
    <3> QED BY <3>2, <3>3, <3>4, CharFacts DEF y
  <2> QED BY <2>1, <2>2
<1> HIDE DEF t
<1>4. t \in Seq(Digits) /\ Len(t) = n
  <2>1. t \in [1..n -> Digits]
    BY <1>3
  <2> QED BY <2>1, IsASeq, LenProperties
<1>5. /\ u \in Seq(Digits) /\ Len(u) = l + n
      /\ \A i \in 1..l : u[i] = s[i]
      /\ \A i \in 1..n : u[l + i] = t[i]
  BY <1>1, <1>4
<1> HIDE DEF u, l
<1>6. /\ L!Number(u) = v[l + n]
      /\ \A i \in 0..(l + n) : v[i] \in Nat
      /\ \A i \in 1..(l + n) : v[i] = 10 * v[i - 1] + L!DigitValue(u[i])
  BY <1>5, ValueFacts
<1>7. v[l] = x /\ x \in Nat
  <2>1. l \in 0..(l + n)
    BY <1>1
  <2>2. IsValue(v, u, l + n)
    <3>1. \E g : IsValue(g, u, l + n)
      <4>1. l + n \in Nat
        BY <1>1
      <4> QED BY <4>1, ValueExists
    <3> QED BY <1>5, <3>1, Zenon DEF ValueOf
  <2>3. PICK f : IsValue(f, s, l) /\ L!Number(s) = f[l]
    BY <1>1, NumberIs DEF l
  <2>4. v[l] = f[l]
    <3> DEFINE h == l + n
    <3>1. h \in Nat /\ l \in 0..h /\ IsValue(v, u, h) /\ IsValue(f, s, l)
      BY <1>1, <2>1, <2>2, <2>3
    <3>2. SameUpTo(u, s, l)
      BY <1>5 DEF SameUpTo
    <3> HIDE DEF v, h
    <3> QED BY <3>1, <3>2, ValuesAgree
  <2> QED BY <1>6, <2>1, <2>3, <2>4
<1> HIDE DEF v, x
<1> DEFINE Right(j) == v[l + j] = (x * P(j)) + (r \div P(n - j))
           S == {j \in 0..n : ~Right(j)}
<1>8. S = {}
  <2> SUFFICES ASSUME S # {} PROVE FALSE
    OBVIOUS
  <2>1. PICK j \in S : \A m \in S : j <= m
    <3> HIDE DEF S
    <3>1. S \in SUBSET Nat
      BY DEF S
    <3> QED BY <3>1, LeastOf
  <2>2. j \in 0..n /\ ~Right(j)
    BY <2>1
  <2>3. CASE j = 0
    <3>1. P(0) = 1 /\ P(n) \in Nat \ {0}
      BY <1>2, Pow10Facts
    <3>2. r \div P(n) = 0
      <4>1. r = (P(n) * 0) + r /\ r \in 0..(P(n) - 1)
        BY <3>1
      <4> HIDE DEF P
      <4> QED BY <3>1, <4>1, DivisionIsUnique
    <3> QED BY <1>1, <1>7, <2>2, <2>3, <3>1, <3>2
  <2>4. CASE j # 0
    <3> DEFINE i == j - 1
               p == P(n - j)
               y == r \div p
               z == x * P(i)
    <3>1. /\ i \in 0..n /\ i \in Nat /\ n - j \in Nat /\ j = i + 1 /\ j \in 1..n
          /\ n - i = (n - j) + 1 /\ ~(j <= i)
      BY <2>2, <2>4
    <3>2. v[l + i] = z + (r \div P(n - i))
      BY <2>1, <3>1
    <3>3. /\ p \in Nat \ {0} /\ P(n - i) = 10 * p
          /\ P(i) \in Nat \ {0} /\ P(j) = 10 * P(i)
      BY <1>2, <3>1
    <3>4. y \in Nat /\ t[j] = L!Chars[(y % 10) + 1] /\ y % 10 \in 0..9
      BY <1>3, <3>1
    <3>5. L!DigitValue(u[l + j]) = y % 10
      BY <1>5, <3>1, <3>4, CharFacts
    <3>6. v[l + j] = 10 * v[l + i] + (y % 10)
      <4>1. l + j \in 1..(l + n) /\ (l + j) - 1 = l + i
        BY <1>1, <3>1
      <4> QED BY <1>6, <3>5, <4>1
    <3> HIDE DEF P
    <3>7. r \div P(n - i) = y \div 10
      <4>1. 10 \in Nat \ {0}
        OBVIOUS
      <4> HIDE DEF p, i
      <4>2. r \div (10 * p) = (r \div p) \div 10
        BY <3>3, <4>1, DivideTwice
      <4> QED BY <3>3, <4>2
    <3>8. z \in Nat /\ x * P(j) = 10 * z
      BY <1>7, <3>3
    <3>9. y \div 10 \in Nat /\ y = (10 * (y \div 10)) + (y % 10)
      BY <3>4
    <3>10. v[l + j] = (x * P(j)) + y
      <4> DEFINE a == y \div 10
                 b == y % 10
                 c == x * P(j)
      <4>1. /\ a \in Nat /\ b \in 0..9 /\ z \in Nat /\ y = (10 * a) + b /\ c = 10 * z
            /\ v[l + j] = 10 * v[l + i] + b /\ v[l + i] = z + a
        BY <3>2, <3>4, <3>6, <3>7, <3>8, <3>9
      <4> HIDE DEF a, b, c, z, y, i
      <4>2. v[l + j] = c + y
        BY <4>1
      <4> QED BY <4>2 DEF c
    <3> QED BY <2>2, <3>10 DEF P
  <2> QED BY <2>3, <2>4
<1>9. Right(n)
  <2>1. n \in 0..n
    OBVIOUS
  <2> QED BY <1>8, <2>1
<1>10. r \div P(n - n) = r
  <2>1. P(n - n) = 1
    BY Pow10Facts
  <2> QED BY <2>1
<1> QED BY <1>5, <1>6, <1>9, <1>10 DEF t, u, l, x

LEMMA DigitsAlone ==
    ASSUME NEW n \in Nat, NEW r \in Nat, r < L!Pow10[n]
    PROVE  /\ L!Utoa(n, r) \in Seq(Digits) /\ Len(L!Utoa(n, r)) = n
           /\ L!Number(L!Utoa(n, r)) = r
<1> DEFINE t == L!Utoa(n, r)
           e == <<>>
<1>1. e \in Seq(Digits) /\ Len(e) = 0 /\ L!Number(e) = 0
  BY NumberOfNone
<1> HIDE DEF e
<1>2. Len(e \o t) = Len(e) + n /\ L!Number(e \o t) = L!Number(e) * L!Pow10[n] + r
  BY <1>1, DigitsAppended
<1>3. t \in Seq(Digits)
  <2>1. t = [i \in 1..n |-> t[i]]
    BY DEF L!Utoa
  <2>2. ASSUME NEW i \in 1..n PROVE t[i] \in Digits
    <3> DEFINE d == (r \div L!Pow10[n - i]) % 10
    <3>1. t[i] = L!Chars[d + 1]
      BY DEF L!Utoa
    <3>2. L!Pow10[n - i] \in Nat \ {0}
      <4>1. n - i \in Nat
        OBVIOUS
      <4> QED BY <4>1, Pow10Facts
    <3>3. r \div L!Pow10[n - i] \in Nat
      BY <3>2, Division
    <3>4. d \in 0..9
      BY <3>3
    <3> HIDE DEF d, t
    <3> QED BY <3>1, <3>4, CharFacts
  <2> HIDE DEF t
  <2>3. t \in [1..n -> Digits]
    BY <2>1, <2>2
  <2> QED BY <2>3, IsASeq
<1> HIDE DEF t
<1>4. e \o t = t
  BY <1>3 DEF e
<1>5. L!Pow10[n] \in Nat
  BY Pow10Facts
<1> QED BY <1>1, <1>2, <1>3, <1>4, <1>5 DEF t

(* One turn of PrintDecimalDigits.                                          *)
LEMMA GroupFacts ==
    ASSUME NEW o \in Nat \ {0}
    PROVE  /\ L!Group(o) \in Nat /\ L!Pow10[L!Group(o)] \in Nat \ {0}
           /\ o >= 100 =>
                /\ o \div L!Pow10[L!Group(o)] \in 1..(o - 1)
                /\ o % L!Pow10[L!Group(o)] \in 0..(L!Pow10[L!Group(o)] - 1)
                /\ o = (L!Pow10[L!Group(o)] * (o \div L!Pow10[L!Group(o)]))
                         + (o % L!Pow10[L!Group(o)])
           /\ o < 100 => \/ L!Group(o) = 1 /\ o < 10
                         \/ L!Group(o) = 2 /\ o >= 10
<1>1. UInt32Max \in Nat /\ UInt32Max >= 999999999
  BY Grisu3Assumption, SMT
<1>2. /\ L!Group(o) \in {1, 2, 4, 8}
      /\ L!Group(o) = 8 => o >= 100000000
      /\ L!Group(o) = 4 => o >= 10000
      /\ L!Group(o) \in {1, 2} => o < 10000
      /\ L!Group(o) = 1 <=> o < 10
  BY <1>1, SMT DEF L!Group
<1> DEFINE p == L!Pow10[L!Group(o)]
<1>3. p \in Nat \ {0} /\ p >= 10 /\ (o >= 100 => p <= o)
  BY <1>2, SmallPowers, SMT
<1>4. ASSUME o >= 100
      PROVE  /\ o \div p \in 1..(o - 1) /\ o % p \in 0..(p - 1)
             /\ o = (p * (o \div p)) + (o % p)
  <2> HIDE DEF p
  <2>1. o \div p \in Nat /\ o % p \in 0..(p - 1) /\ o = (p * (o \div p)) + (o % p)
    BY <1>3, Division
  <2> DEFINE q == o \div p
             r == o % p
  <2>2. q \in Nat /\ r \in 0..(p - 1) /\ o = (p * q) + r
    BY <2>1
  <2> HIDE DEF q, r
  <2>3. q # 0
    BY <1>3, <1>4, <2>2
  <2>4. q < o
    BY <1>3, <2>2, <2>3
  <2> QED BY <2>2, <2>3, <2>4 DEF q, r
<1>5. o < 100 => \/ L!Group(o) = 1 /\ o < 10
                 \/ L!Group(o) = 2 /\ o >= 10
  BY <1>2, SMT
<1>6. L!Group(o) \in Nat
  BY <1>2
<1> QED BY <1>3, <1>4, <1>5, <1>6, Zenon

IsGroups(g, h) ==
    g = [o \in 0..h |->
            IF o < 100 THEN L!Utoa(L!Group(o), o)
            ELSE g[o \div L!Pow10[L!Group(o)]]
                   \o L!Utoa(L!Group(o), o % L!Pow10[L!Group(o)])]

LEMMA GroupsExist ==
    ASSUME NEW h \in Nat
    PROVE  \E g : IsGroups(g, h)
<1> DEFINE S == {n \in Nat : ~ \E g : IsGroups(g, n)}
<1>1. SUFFICES ASSUME S # {} PROVE FALSE
  OBVIOUS
<1>2. PICK n \in S : \A m \in S : n <= m
  <2> HIDE DEF S
  <2>1. S \in SUBSET Nat
    BY DEF S
  <2> QED BY <1>1, <2>1, LeastOf
<1> DEFINE T(o) == L!Utoa(L!Group(o), o)
           Q(o) == o \div L!Pow10[L!Group(o)]
           U(o) == L!Utoa(L!Group(o), o % L!Pow10[L!Group(o)])
<1>3. n # 0
  <2> DEFINE f == [o \in 0..0 |-> T(o)]
  <2>1. \A o \in 0..0 : o < 100
    OBVIOUS
  <2>2. \A o \in 0..0 : T(o) = IF o < 100 THEN T(o) ELSE f[Q(o)] \o U(o)
    BY <2>1, Zenon
  <2>3. f = [o \in 0..0 |-> IF o < 100 THEN T(o) ELSE f[Q(o)] \o U(o)]
    BY <2>2, Zenon
  <2>4. IsGroups(f, 0)
    BY <2>3, Zenon DEF IsGroups
  <2> QED BY <1>2, <2>4
<1>4. PICK g : IsGroups(g, n - 1)
  <2>1. n - 1 \in Nat /\ ~(n <= n - 1)
    BY <1>3
  <2> QED BY <1>2, <2>1
<1> DEFINE R(o) == IF o < 100 THEN T(o) ELSE g[Q(o)] \o U(o)
           f == [o \in 0..n |-> R(o)]
<1>5. \A o \in 0..(n - 1) : g[o] = R(o)
  BY <1>4, Zenon DEF IsGroups
<1>6. ASSUME NEW o \in 0..n, ~(o < 100) PROVE f[Q(o)] = g[Q(o)]
  <2> DEFINE q == Q(o)
  <2>1. q \in 1..(o - 1)
    <3>1. o \in Nat \ {0} /\ o >= 100
      BY <1>6
    <3> QED BY <3>1, GroupFacts
  <2> HIDE DEF q, R, Q
  <2>2. q \in 0..(n - 1) /\ q \in 0..n
    BY <2>1
  <2>3. f[q] = R(q)
    BY <2>2
  <2> QED BY <1>5, <2>2, <2>3 DEF q
<1>7. ASSUME NEW o \in 0..n
      PROVE  R(o) = IF o < 100 THEN T(o) ELSE f[Q(o)] \o U(o)
  BY <1>6, Zenon
<1>8. IsGroups(f, n)
  BY <1>7, Zenon DEF IsGroups
<1> QED BY <1>2, <1>8

(* PrintDecimalDigits prints the numeral of a number.                       *)
LEMMA DecimalDigitsFacts ==
    ASSUME NEW output \in Nat \ {0}
    PROVE  /\ L!DecimalDigits(output) \in Seq(Digits) \ {<<>>}
           /\ L!DecimalDigits(output)[1] # "0"
           /\ L!Number(L!DecimalDigits(output)) = output
<1> DEFINE g == CHOOSE g : g = [o \in 0..output |->
                    IF o < 100 THEN L!Utoa(L!Group(o), o)
                    ELSE g[o \div L!Pow10[L!Group(o)]]
                           \o L!Utoa(L!Group(o), o % L!Pow10[L!Group(o)])]
<1>1. L!DecimalDigits(output) = g[output]
  BY Zenon DEF L!DecimalDigits
<1>2. IsGroups(g, output)
  <2>1. output \in Nat
    OBVIOUS
  <2>2. \E f : IsGroups(f, output)
    BY <2>1, GroupsExist
  <2> QED BY <2>2, Zenon DEF IsGroups
<1> HIDE DEF g
<1>3. \A o \in 0..output : g[o] =
        IF o < 100 THEN L!Utoa(L!Group(o), o)
        ELSE g[o \div L!Pow10[L!Group(o)]] \o L!Utoa(L!Group(o), o % L!Pow10[L!Group(o)])
  BY <1>2, Zenon DEF IsGroups
<1> DEFINE P(o) == g[o] \in Seq(Digits) \ {<<>>} /\ g[o][1] # "0" /\ L!Number(g[o]) = o
           S == {o \in 1..output : ~P(o)}
<1>4. SUFFICES ASSUME S # {} PROVE FALSE
  <2>1. output \in 1..output
    OBVIOUS
  <2> QED BY <1>1, <1>4, <2>1
<1>5. PICK o \in S : \A m \in S : o <= m
  <2> HIDE DEF S
  <2>1. S \in SUBSET Nat
    BY DEF S
  <2> QED BY <1>4, <2>1, LeastOf
<1>6. o \in 1..output /\ o \in 0..output /\ o \in Nat \ {0} /\ ~P(o)
  BY <1>5
<1> DEFINE n == L!Group(o)
           p == L!Pow10[n]
<1>7. n \in Nat /\ p \in Nat \ {0}
  BY <1>6, GroupFacts
<1>8. CASE o >= 100
  <2> DEFINE q == o \div p
             r == o % p
  <2>1. q \in 1..(o - 1) /\ r \in 0..(p - 1) /\ o = (p * q) + r
    BY <1>6, <1>8, GroupFacts
  <2>2. g[o] = g[q] \o L!Utoa(n, r)
    <3>1. ~(o < 100)
      BY <1>6, <1>8
    <3> QED BY <1>3, <1>6, <3>1, Zenon
  <2> HIDE DEF q, r
  <2>3. P(q)
    <3> HIDE DEF P
    <3>1. q \in 1..output /\ ~(o <= q)
      BY <1>6, <2>1
    <3> QED BY <1>5, <3>1
  <2> HIDE DEF p, n
  <2> DEFINE s == g[q]
             u == s \o L!Utoa(n, r)
  <2>4. s \in Seq(Digits) /\ s # <<>> /\ s[1] # "0" /\ L!Number(s) = q
    BY <2>3
  <2> HIDE DEF s
  <2>5. /\ u \in Seq(Digits) /\ Len(u) = Len(s) + n
        /\ \A i \in 1..Len(s) : u[i] = s[i]
        /\ L!Number(u) = L!Number(s) * p + r
    <3>1. r \in Nat /\ r < L!Pow10[n]
      BY <1>7, <2>1 DEF p
    <3> QED BY <1>7, <2>4, <3>1, DigitsAppended DEF p
  <2>6. 1 \in 1..Len(s) /\ Len(s) \in Nat
    BY <2>4, LenProperties, EmptySeq
  <2> HIDE DEF u
  <2>7. u # <<>> /\ u[1] # "0"
    BY <1>7, <2>4, <2>5, <2>6
  <2>8. L!Number(u) = o
    BY <1>7, <2>1, <2>4, <2>5
  <2> QED BY <1>6, <2>2, <2>5, <2>7, <2>8 DEF u, s
<1>9. CASE ~(o >= 100)
  <2>1. o < 100
    BY <1>6, <1>9
  <2>2. g[o] = L!Utoa(n, o)
    BY <1>3, <1>6, <2>1, Zenon
  <2>3. \/ n = 1 /\ o < 10
        \/ n = 2 /\ o >= 10
    BY <1>6, <2>1, GroupFacts
  <2>4. o < p
    BY <2>1, <2>3, SmallPowers, SMT
  <2> DEFINE t == L!Utoa(n, o)
  <2>5. t \in Seq(Digits) /\ Len(t) = n /\ L!Number(t) = o
    <3>1. o \in Nat /\ n \in Nat /\ o < L!Pow10[n]
      BY <1>6, <1>7, <2>4
    <3> HIDE DEF n
    <3> QED BY <3>1, DigitsAlone, Zenon
  <2>6. t[1] = L!Chars[((o \div L!Pow10[n - 1]) % 10) + 1] /\ 1 \in 1..n
    <3>1. 1 \in 1..n
      BY <2>3
    <3> HIDE DEF n
    <3> QED BY <3>1 DEF L!Utoa
  <2>7. (o \div L!Pow10[n - 1]) % 10 \in 1..9
    <3>1. CASE n = 1 /\ o < 10
      <4>1. L!Pow10[n - 1] = 1
        BY <3>1, Pow10Facts
      <4> HIDE DEF n
      <4> QED BY <1>6, <3>1, <4>1
    <3>2. CASE n = 2 /\ o >= 10
      <4>1. L!Pow10[n - 1] = 10
        BY <3>2, SmallPowers, SMT
      <4> HIDE DEF n
      <4> QED BY <1>6, <2>1, <3>2, <4>1
    <3> QED BY <2>3, <3>1, <3>2
  <2>8. t[1] # "0"
    <3> DEFINE d == (o \div L!Pow10[n - 1]) % 10
    <3>1. d \in 1..9 /\ t[1] = L!Chars[d + 1]
      BY <2>6, <2>7
    <3> HIDE DEF d, t
    <3>2. d \in 0..9
      BY <3>1
    <3>3. t[1] \in Digits /\ L!DigitValue(t[1]) # 0
      BY <3>1, <3>2, CharFacts
    <3> QED BY <3>3, DigitIs
  <2> HIDE DEF t, n, p
  <2>9. t # <<>>
    BY <1>7, <2>3, <2>5
  <2> QED BY <1>6, <2>2, <2>5, <2>8, <2>9 DEF t
<1> QED BY <1>6, <1>8, <1>9

(* DecimalLength is the length of that numeral.                             *)
LEMMA DecimalLengthIs ==
    ASSUME NEW v \in Nat \ {0}, v < L!Pow10[17]
    PROVE  /\ L!DecimalLength(v) = Len(L!DecimalDigits(v))
           /\ L!DecimalLength(v) \in 1..17
<1> DEFINE s == L!DecimalDigits(v)
           h == Len(s)
<1>1. /\ h \in Nat \ {0} /\ h - 1 \in Nat
      /\ L!Pow10[h - 1] <= v /\ v < L!Pow10[h]
  <2>1. s \in Seq(Digits) /\ s # <<>> /\ s[1] # "0" /\ L!Number(s) = v
    BY DecimalDigitsFacts
  <2> HIDE DEF s
  <2>2. h \in Nat \ {0} /\ L!Pow10[h - 1] <= v /\ v < L!Pow10[h]
    BY <2>1, NumeralLength
  <2> QED BY <2>2
<1> HIDE DEF h
<1>2. \A n \in Nat : L!Pow10[n] \in Nat \ {0} /\ L!Pow10[n + 1] = 10 * L!Pow10[n]
  BY Pow10Facts
<1>3. h <= 17
  <2> SUFFICES ASSUME 17 < h PROVE FALSE
    BY <1>1
  <2>1. h - 1 = 17 \/ 17 < h - 1
    BY <1>1
  <2>2. 17 < h - 1 => 10 * L!Pow10[17] <= L!Pow10[h - 1]
    BY <1>1, Pow10Grows
  <2>3. L!Pow10[17] <= L!Pow10[h - 1]
    BY <1>1, <1>2, <2>1, <2>2
  <2> QED BY <1>1, <1>2, <2>3
<1>4. h \in 1..17
  BY <1>1, <1>3
<1>5. \A n \in 1..17 : v \div 10 < L!Pow10[n - 1] <=> v < L!Pow10[n]
  <2> SUFFICES ASSUME NEW n \in 1..17
               PROVE  v \div 10 < L!Pow10[n - 1] <=> v < L!Pow10[n]
    OBVIOUS
  <2> DEFINE p == L!Pow10[n - 1]
  <2>1. n - 1 \in Nat /\ (n - 1) + 1 = n
    OBVIOUS
  <2>2. p \in Nat \ {0} /\ L!Pow10[n] = 10 * p
    BY <1>2, <2>1
  <2> HIDE DEF p
  <2>3. v \div 10 < p <=> v < 10 * p
    BY <2>2
  <2> QED BY <2>2, <2>3 DEF p
<1>6. ASSUME NEW n \in 1..17, L!Pow10[n - 1] <= v, v < L!Pow10[n] PROVE n = h
  <2>1. n \in Nat /\ n - 1 \in Nat
    OBVIOUS
  <2>2. ~(n < h)
    <3> SUFFICES ASSUME n < h PROVE FALSE
      OBVIOUS
    <3>1. L!Pow10[n] <= L!Pow10[h - 1]
      <4>1. n = h - 1 \/ n < h - 1
        BY <1>1, <2>1
      <4>2. n < h - 1 => 10 * L!Pow10[n] <= L!Pow10[h - 1]
        BY <1>1, <2>1, Pow10Grows
      <4> QED BY <1>1, <1>2, <2>1, <4>1, <4>2
    <3> QED BY <1>1, <1>2, <1>6, <2>1, <3>1
  <2>3. ~(h < n)
    <3> SUFFICES ASSUME h < n PROVE FALSE
      OBVIOUS
    <3>1. L!Pow10[h] <= L!Pow10[n - 1]
      <4>1. h = n - 1 \/ h < n - 1
        BY <1>1, <2>1
      <4>2. h < n - 1 => 10 * L!Pow10[h] <= L!Pow10[n - 1]
        BY <1>1, <2>1, Pow10Grows
      <4> QED BY <1>1, <1>2, <2>1, <4>1, <4>2
    <3> QED BY <1>1, <1>2, <1>6, <2>1, <3>1
  <2> QED BY <1>1, <2>1, <2>2, <2>3
<1>7. L!DecimalLength(v) = h
  <2>1. \A n \in 1..17 : (L!Pow10[n - 1] <= v /\ v \div 10 < L!Pow10[n - 1]) <=> n = h
    BY <1>1, <1>4, <1>5, <1>6
  <2> QED BY <1>4, <2>1 DEF L!DecimalLength
<1> QED BY <1>4, <1>7 DEF h

(* A reader of a text takes the digits up to the last one that is not 0: in *)
(* the numeral n between k and z zeros, that is n without its last zeros.   *)
Between(d, n, k, z) ==
    /\ d \in Seq(Digits) /\ n \in Seq(Digits)
    /\ k \in Nat /\ z \in Nat /\ Len(d) = k + Len(n) + z
    /\ \A i \in 1..k : d[i] = "0"
    /\ \A i \in 1..Len(n) : d[k + i] = n[i]
    /\ \A i \in (k + Len(n) + 1)..Len(d) : d[i] = "0"

LastNonZero(d) == L!SelectLastInSeq(d, LAMBDA c : c # "0")

LEMMA GreatestOf ==
    ASSUME NEW h \in Nat, NEW S \in SUBSET (0..h), S # {}
    PROVE  L!Max(S) \in S /\ \A m \in S : m <= L!Max(S)
<1> DEFINE R == {h - m : m \in S}
<1>1. PICK r \in R : \A q \in R : r <= q
  <2>1. R \in SUBSET Nat /\ R # {}
    OBVIOUS
  <2> HIDE DEF R
  <2> QED BY <2>1, LeastOf
<1>2. PICK n \in S : r = h - n
  OBVIOUS
<1>3. \A m \in S : n >= m
  <2> SUFFICES ASSUME NEW m \in S PROVE n >= m
    OBVIOUS
  <2>1. h - m \in R
    OBVIOUS
  <2>2. h - n <= h - m
    BY <1>1, <1>2, <2>1
  <2>3. m \in 0..h /\ n \in 0..h
    OBVIOUS
  <2> QED BY <2>2, <2>3
<1>4. L!Max(S) \in S /\ \A m \in S : L!Max(S) >= m
  BY <1>3, Zenon DEF L!Max
<1> HIDE DEF R
<1>5. ASSUME NEW m \in S PROVE m \in Int
  <2>1. m \in 0..h
    OBVIOUS
  <2> QED BY <2>1
<1> QED BY <1>4, <1>5

LEMMA LastNonZeroIs ==
    ASSUME NEW d, NEW n, NEW k, NEW z, Between(d, n, k, z), n # <<>>, n[1] # "0"
    PROVE  /\ LastNonZero(d) \in (k + 1)..(k + Len(n))
           /\ \A i \in (LastNonZero(d) + 1)..Len(d) : d[i] = "0"
<1> DEFINE l == Len(n)
           I == {i \in 1..Len(d) : d[i] # "0"}
<1>1. /\ l \in Nat /\ 1 <= l /\ k \in Nat /\ z \in Nat /\ Len(d) = k + l + z
      /\ \A i \in 1..l : d[k + i] = n[i]
      /\ \A i \in (k + l + 1)..Len(d) : d[i] = "0"
  BY LenProperties, EmptySeq DEF Between
<1> HIDE DEF l
<1>2. k + 1 \in I
  <2>1. 1 \in 1..l /\ k + 1 \in 1..Len(d)
    BY <1>1
  <2>2. d[k + 1] = n[1]
    BY <1>1, <2>1
  <2> QED BY <2>1, <2>2
<1>3. LastNonZero(d) = L!Max(I)
  <2>1. I # {}
    BY <1>2
  <2> QED BY <2>1 DEF LastNonZero, L!SelectLastInSeq
<1>4. L!Max(I) \in I /\ \A m \in I : m <= L!Max(I)
  <2>1. Len(d) \in Nat /\ I \in SUBSET (0..Len(d)) /\ I # {}
    BY <1>1, <1>2
  <2> HIDE DEF I
  <2> QED BY <2>1, GreatestOf
<1> DEFINE x == LastNonZero(d)
<1> HIDE DEF x
<1>5. x \in I /\ (\A m \in I : m <= x) /\ x \in Nat
  BY <1>1, <1>3, <1>4 DEF x
<1>6. k + 1 <= x
  BY <1>2, <1>5
<1>7. x <= k + l
  <2> SUFFICES ASSUME k + l < x PROVE FALSE
    BY <1>1, <1>5
  <2>1. x \in (k + l + 1)..Len(d)
    BY <1>1, <1>5
  <2> QED BY <1>1, <1>5, <2>1
<1>8. ASSUME NEW i \in (x + 1)..Len(d) PROVE d[i] = "0"
  <2>1. i \in 1..Len(d) /\ ~(i <= x)
    BY <1>1, <1>5
  <2> QED BY <1>5, <2>1
<1>9. x \in (k + 1)..(k + l)
  BY <1>1, <1>5, <1>6, <1>7
<1> QED BY <1>8, <1>9 DEF x, l

LEMMA ReadDigits ==
    ASSUME NEW d, NEW n, NEW k, NEW z, Between(d, n, k, z), n # <<>>, n[1] # "0"
    PROVE  L!Number(SubSeq(d, 1, LastNonZero(d)))
             * L!Pow10[(k + Len(n)) - LastNonZero(d)] = L!Number(n)
<1> DEFINE l == Len(n)
           h == Len(d)
           v == ValueOf(d)
           w == ValueOf(n)
           x == LastNonZero(d)
<1>1. /\ d \in Seq(Digits) /\ n \in Seq(Digits)
      /\ l \in Nat /\ k \in Nat /\ z \in Nat /\ h \in Nat /\ h = k + l + z
      /\ \A i \in 1..k : d[i] = "0"
      /\ \A i \in 1..l : d[k + i] = n[i]
  BY LenProperties DEF Between
<1>2. x \in (k + 1)..(k + l) /\ \A i \in (x + 1)..h : d[i] = "0"
  BY LastNonZeroIs
<1>3. /\ v[0] = 0 /\ \A i \in 0..h : v[i] \in Nat
      /\ \A i \in 1..h : v[i] = 10 * v[i - 1] + L!DigitValue(d[i])
      /\ w[0] = 0 /\ L!Number(n) = w[l]
      /\ \A i \in 1..l : w[i] = 10 * w[i - 1] + L!DigitValue(n[i])
  BY <1>1, ValueFacts
<1>4. L!Number(SubSeq(d, 1, x)) = v[x]
  <2>1. x \in 0..h
    BY <1>1, <1>2
  <2> HIDE DEF x
  <2> QED BY <1>1, <2>1, NumberOfFront
<1>5. L!DigitValue("0") = 0
  <2>1. "0" \in Digits
    <3>1. 1 \in DOMAIN L!Chars /\ L!Chars[1] = "0"
      BY DEF L!Chars
    <3> QED BY <3>1 DEF Digits, L!Range
  <2> QED BY <2>1, DigitIs
<1> HIDE DEF l, h, v, w, x
<1>6. \A i \in 0..k : v[i] = 0
  <2> DEFINE S == {i \in 0..k : v[i] # 0}
  <2> SUFFICES ASSUME S # {} PROVE FALSE
    OBVIOUS
  <2>1. PICK i \in S : \A j \in S : i <= j
    <3> HIDE DEF S
    <3>1. S \in SUBSET Nat
      BY <1>1 DEF S
    <3> QED BY <3>1, LeastOf
  <2>2. i \in 1..k /\ i \in 1..h /\ i - 1 \in 0..k /\ ~(i <= i - 1)
    BY <1>1, <1>3, <2>1
  <2>3. v[i - 1] = 0 /\ d[i] = "0"
    BY <1>1, <2>1, <2>2
  <2>4. v[i] = 10 * v[i - 1] + L!DigitValue(d[i])
    BY <1>3, <2>2
  <2> QED BY <1>5, <2>1, <2>3, <2>4
<1>7. \A i \in 0..l : v[k + i] = w[i]
  <2> DEFINE S == {i \in 0..l : v[k + i] # w[i]}
  <2> SUFFICES ASSUME S # {} PROVE FALSE
    OBVIOUS
  <2>1. PICK i \in S : \A j \in S : i <= j
    <3> HIDE DEF S
    <3>1. S \in SUBSET Nat
      BY <1>1 DEF S
    <3> QED BY <3>1, LeastOf
  <2>2. i # 0
    <3>1. k \in 0..k /\ k + 0 = k
      BY <1>1
    <3> QED BY <1>3, <1>6, <2>1, <3>1
  <2>3. i \in 1..l /\ k + i \in 1..h /\ i - 1 \in 0..l /\ ~(i <= i - 1) /\ (k + i) - 1 = k + (i - 1)
    BY <1>1, <2>1, <2>2
  <2>4. v[k + (i - 1)] = w[i - 1]
    BY <2>1, <2>3
  <2>5. v[k + i] = 10 * v[k + (i - 1)] + L!DigitValue(d[k + i])
    BY <1>3, <2>3
  <2>6. d[k + i] = n[i] /\ w[i] = 10 * w[i - 1] + L!DigitValue(n[i])
    BY <1>1, <1>3, <2>3
  <2>7. v[k + i] = w[i]
    BY <2>4, <2>5, <2>6, Zenon
  <2> QED BY <2>1, <2>7
<1>8. \A m \in 0..((k + l) - x) : v[x] * L!Pow10[m] = v[x + m]
  <2> DEFINE S == {m \in 0..((k + l) - x) : v[x] * L!Pow10[m] # v[x + m]}
  <2> SUFFICES ASSUME S # {} PROVE FALSE
    OBVIOUS
  <2>1. PICK m \in S : \A j \in S : m <= j
    <3> HIDE DEF S
    <3>1. S \in SUBSET Nat
      BY DEF S
    <3> QED BY <3>1, LeastOf
  <2>2. x \in Nat /\ x \in 0..h /\ v[x] \in Nat
    BY <1>1, <1>2, <1>3
  <2>3. m # 0
    <3>1. L!Pow10[0] = 1 /\ x + 0 = x
      BY <2>2, Pow10Facts
    <3> DEFINE a == v[x]
    <3>2. a * 1 = a
      <4>1. a \in Nat
        BY <2>2
      <4> HIDE DEF a
      <4> QED BY <4>1
    <3>3. v[x] * L!Pow10[0] = v[x + 0]
      BY <3>1, <3>2, Zenon
    <3> QED BY <2>1, <3>3
  <2>4. /\ m \in Nat /\ m - 1 \in 0..((k + l) - x) /\ m - 1 \in Nat /\ (m - 1) + 1 = m
        /\ ~(m <= m - 1)
        /\ x + m \in 1..h /\ x + m \in (x + 1)..h /\ (x + m) - 1 = x + (m - 1)
    BY <1>1, <1>2, <2>1, <2>2, <2>3
  <2>5. v[x] * L!Pow10[m - 1] = v[x + (m - 1)]
    BY <2>1, <2>4
  <2>6. v[x + m] = 10 * v[x + (m - 1)] + 0
    BY <1>2, <1>3, <1>5, <2>4
  <2>7. L!Pow10[m] = 10 * L!Pow10[m - 1] /\ L!Pow10[m - 1] \in Nat
    BY <2>4, Pow10Facts
  <2> DEFINE p == L!Pow10[m - 1]
             a == v[x]
  <2>8. a * (10 * p) = 10 * (a * p) /\ a * p \in Nat
    BY <2>2, <2>7
  <2>9. v[x] * L!Pow10[m] = v[x + m]
    BY <2>5, <2>6, <2>7, <2>8
  <2> QED BY <2>1, <2>9
<1>9. v[x] * L!Pow10[(k + l) - x] = w[l]
  <2>1. (k + l) - x \in 0..((k + l) - x) /\ x + ((k + l) - x) = k + l /\ l \in 0..l
    BY <1>1, <1>2
  <2> QED BY <1>7, <1>8, <2>1
<1> QED BY <1>3, <1>4, <1>9 DEF x, l

(* Where a reader splits a text: at the first c.                            *)
Joins(u, s, t, S) ==
    /\ u \in Seq(S) /\ Len(u) = Len(s) + Len(t)
    /\ \A i \in 1..Len(s) : u[i] = s[i]
    /\ \A i \in 1..Len(t) : u[Len(s) + i] = t[i]

LEMMA PartsOfJoin ==
    ASSUME NEW S, NEW s \in Seq(S), NEW t \in Seq(S)
    PROVE  Joins(s \o t, s, t, S)
<1> DEFINE a == Len(s)
           b == Len(t)
           u == s \o t
<1>1. a \in Nat /\ b \in Nat
  BY LenProperties
<1>2. /\ u \in Seq(S) /\ Len(u) = a + b
      /\ \A i \in 1..(a + b) : u[i] = IF i <= a THEN s[i] ELSE t[i - a]
  BY ConcatProperties
<1> HIDE DEF a, b, u
<1>3. ASSUME NEW i \in 1..a PROVE u[i] = s[i]
  <2>1. i \in 1..(a + b) /\ i <= a
    BY <1>1
  <2> QED BY <1>2, <2>1
<1>4. ASSUME NEW i \in 1..b PROVE u[a + i] = t[i]
  <2>1. a + i \in 1..(a + b) /\ ~(a + i <= a) /\ (a + i) - a = i
    BY <1>1
  <2> QED BY <1>2, <2>1
<1> QED BY <1>2, <1>3, <1>4 DEF Joins, a, b, u

JoinsWith(s, a, c, b, S) ==
    /\ s \in Seq(S) /\ Len(s) = Len(a) + Len(b) + 1
    /\ \A i \in 1..Len(a) : s[i] = a[i]
    /\ s[Len(a) + 1] = c
    /\ \A i \in 1..Len(b) : s[Len(a) + 1 + i] = b[i]

LEMMA PartsWith ==
    ASSUME NEW S, NEW a \in Seq(S), NEW b \in Seq(S), NEW c \in S
    PROVE  JoinsWith(a \o (<<c>> \o b), a, c, b, S)
<1> DEFINE e == <<c>> \o b
           s == a \o e
           l == Len(a)
           m == Len(b)
<1>1. l \in Nat /\ m \in Nat
  BY LenProperties
<1>2. e \in Seq(S) /\ Len(e) = m + 1 /\ e[1] = c /\ \A i \in 1..m : e[i + 1] = b[i]
  <2>1. <<c>> \in Seq(S) /\ Len(<<c>>) = 1 /\ <<c>>[1] = c
    OBVIOUS
  <2> DEFINE d == <<c>>
  <2> HIDE DEF d
  <2>2. /\ d \o b \in Seq(S) /\ Len(d \o b) = Len(d) + m
        /\ \A i \in 1..Len(d) : (d \o b)[i] = d[i]
        /\ \A i \in 1..m : (d \o b)[Len(d) + i] = b[i]
    BY <2>1, PartsOfJoin DEF Joins, d
  <2>3. 1 \in 1..1 /\ 1 + m = m + 1 /\ \A i \in 1..m : 1 + i = i + 1
    BY <1>1
  <2> QED BY <2>1, <2>2, <2>3 DEF d
<1> HIDE DEF e
<1>3. /\ s \in Seq(S) /\ Len(s) = l + Len(e)
      /\ \A i \in 1..l : s[i] = a[i]
      /\ \A i \in 1..Len(e) : s[l + i] = e[i]
  <2>1. a \in Seq(S) /\ e \in Seq(S)
    BY <1>2
  <2> QED BY <2>1, PartsOfJoin DEF Joins
<1> HIDE DEF s, l, m
<1>4. Len(s) = l + m + 1 /\ s[l + 1] = c /\ l + 1 \in 1..Len(s)
  <2>1. 1 \in 1..(m + 1)
    BY <1>1
  <2> QED BY <1>1, <1>2, <1>3, <2>1
<1>5. \A i \in 1..m : s[l + 1 + i] = b[i]
  <2> SUFFICES ASSUME NEW i \in 1..m PROVE s[l + 1 + i] = b[i]
    OBVIOUS
  <2>1. i + 1 \in 1..(m + 1) /\ l + (i + 1) = l + 1 + i
    BY <1>1
  <2> QED BY <1>2, <1>3, <2>1
<1>6. JoinsWith(s, a, c, b, S)
  BY <1>3, <1>4, <1>5 DEF JoinsWith, l, m
<1> QED BY <1>6 DEF e, s

LEMMA NotSplit ==
    ASSUME NEW s, NEW c, \A i \in 1..Len(s) : s[i] # c
    PROVE  L!Before(s, c) = s /\ L!After(s, c) = <<>>
BY Zenon DEF L!Before, L!After, L!Contains

LEMMA SplitAt ==
    ASSUME NEW S, NEW a \in Seq(S), NEW b \in Seq(S), NEW c \in S,
           \A i \in 1..Len(a) : a[i] # c
    PROVE  /\ L!Before(a \o (<<c>> \o b), c) = a
           /\ L!After(a \o (<<c>> \o b), c) = b
<1> DEFINE s == a \o (<<c>> \o b)
           l == Len(a)
           m == Len(b)
           I == {i \in 1..Len(s) : s[i] = c}
<1>1. l \in Nat /\ m \in Nat
  BY LenProperties
<1>2. /\ s \in Seq(S) /\ Len(s) = l + m + 1
      /\ \A i \in 1..l : s[i] = a[i]
      /\ s[l + 1] = c
      /\ \A i \in 1..m : s[l + 1 + i] = b[i]
  <2>1. JoinsWith(s, a, c, b, S)
    BY PartsWith
  <2> QED BY <2>1, Zenon DEF JoinsWith
<1> HIDE DEF s, l, m
<1>3. l + 1 \in 1..Len(s)
  BY <1>1, <1>2
<1>4. L!SelectInSeq(s, LAMBDA x : x = c) = l + 1
  <2>1. l + 1 \in I
    BY <1>2, <1>3
  <2>2. \A i \in I : i \in Nat /\ l + 1 <= i
    <3> SUFFICES ASSUME NEW i \in I, ~(l + 1 <= i) PROVE FALSE
      BY <1>1
    <3>1. i \in 1..l /\ s[i] = c
      BY <1>1, <1>2, <1>3
    <3>2. a[i] # c
      BY <3>1 DEF l
    <3> QED BY <1>2, <3>1, <3>2
  <2>3. L!SelectInSeq(s, LAMBDA x : x = c) = L!Min(I)
    <3>1. I # {}
      BY <2>1
    <3> QED BY <3>1 DEF L!SelectInSeq
  <2> HIDE DEF I
  <2>4. \E x \in I : \A y \in I : x <= y
    BY <2>1, <2>2
  <2>5. L!Min(I) \in I /\ \A y \in I : L!Min(I) <= y
    BY <2>4, Zenon DEF L!Min
  <2> QED BY <1>1, <2>1, <2>2, <2>3, <2>5
<1>5. L!Contains(s, c)
  BY <1>2, <1>3 DEF L!Contains
<1>6. L!Before(s, c) = a
  <2>1. L!Before(s, c) = SubSeq(s, 1, l)
    <3>1. (l + 1) - 1 = l
      BY <1>1
    <3> QED BY <1>4, <1>5, <3>1, Zenon DEF L!Before
  <2> DEFINE t == SubSeq(s, 1, l)
  <2>2. \A i \in 1..l : s[i] \in S
    BY <1>2, ElementOfSeq DEF l
  <2>3. /\ t \in Seq(S) /\ Len(t) = (IF 1 <= l THEN (l - 1) + 1 ELSE 0)
        /\ \A i \in 1..((l - 1) + 1) : t[i] = s[(1 + i) - 1]
    BY <1>1, <2>2, SubSeqProperties
  <2> HIDE DEF t
  <2>4. Len(t) = l
    BY <1>1, <2>3
  <2>5. ASSUME NEW i \in 1..l PROVE t[i] = a[i]
    <3>1. i \in 1..((l - 1) + 1) /\ (1 + i) - 1 = i
      BY <1>1
    <3> QED BY <1>2, <2>3, <3>1
  <2>6. t = a
    BY <2>3, <2>4, <2>5, SeqEqual DEF l
  <2> QED BY <2>1, <2>6 DEF t
<1>7. L!After(s, c) = b
  <2>1. L!After(s, c) = SubSeq(s, l + 2, l + m + 1)
    <3>1. (l + 1) + 1 = l + 2
      BY <1>1
    <3> QED BY <1>2, <1>3, <1>4, <1>5, <3>1, Zenon DEF L!After
  <2> DEFINE p == l + 2
             q == l + m + 1
             t == SubSeq(s, p, q)
  <2>2. p \in Int /\ q \in Int /\ \A i \in p..q : s[i] \in S
    <3>1. \A i \in 1..Len(s) : s[i] \in S
      BY <1>2, ElementOfSeq
    <3> QED BY <1>1, <1>2, <1>3, <3>1
  <2> HIDE DEF p, q
  <2>3. /\ t \in Seq(S) /\ Len(t) = (IF p <= q THEN (q - p) + 1 ELSE 0)
        /\ \A i \in 1..((q - p) + 1) : t[i] = s[(p + i) - 1]
    BY <2>2, SubSeqProperties
  <2> HIDE DEF t
  <2>4. Len(t) = m
    BY <1>1, <2>3 DEF p, q
  <2>5. ASSUME NEW i \in 1..m PROVE t[i] = b[i]
    <3>1. i \in 1..((q - p) + 1) /\ (p + i) - 1 = l + 1 + i
      BY <1>1 DEF p, q
    <3> QED BY <1>2, <2>3, <3>1
  <2>6. t = b
    BY <2>3, <2>4, <2>5, SeqEqual DEF m
  <2> QED BY <2>1, <2>6 DEF p, q, t
<1> QED BY <1>6, <1>7 DEF s

(* The texts that FormatDigits writes: digits, perhaps a point and more     *)
(* digits, perhaps "e" with a sign and digits.                              *)
Signs == {"+", "-"}
Fraction(f) == IF f = <<>> THEN <<>> ELSE <<".">> \o f
Exponent(x) == IF x = <<>> THEN <<>> ELSE <<"e">> \o x
Text(w, f, x) == (w \o Fraction(f)) \o Exponent(x)

LEMMA NoSequence == ASSUME NEW S, NEW s \in Seq(S) PROVE s # <<>> <=> Len(s) >= 1
BY EmptySeq, LenProperties

LEMMA TextIsRead ==
    ASSUME NEW w \in Seq(Digits), w # <<>>, NEW f \in Seq(Digits),
           NEW x \in Seq(Digits \cup Signs)
    PROVE  /\ L!Unsigned(Text(w, f, x)) = Text(w, f, x) /\ ~L!IsNegative(Text(w, f, x))
           /\ L!Before(Text(w, f, x), "e") = w \o Fraction(f)
           /\ L!After(Text(w, f, x), "e") = x
           /\ L!Before(w \o Fraction(f), ".") = w
           /\ L!After(w \o Fraction(f), ".") = f
<1> DEFINE S == Digits \cup {".", "e", "+", "-"}
           M == Digits \cup {"."}
           m == w \o Fraction(f)
           t == Text(w, f, x)
<1>1. \A c \in Digits : c \notin {".", "e", "+", "-"}
  BY DEF Digits, L!Range, L!Chars
<1>2. /\ "." \in M /\ "." \in S /\ "e" \in S
      /\ \A c \in M : c # "e" /\ c \in S
      /\ \A c \in Digits \cup Signs : c \in S
  BY <1>1 DEF Signs
<1>3. /\ w \in Seq(M) /\ f \in Seq(M) /\ \A i \in 1..Len(w) : w[i] # "."
  <2>1. w \in Seq(M) /\ f \in Seq(M)
    OBVIOUS
  <2>2. ASSUME NEW i \in 1..Len(w) PROVE w[i] # "."
    <3>1. w[i] \in Digits
      BY ElementOfSeq
    <3> QED BY <1>1, <3>1
  <2> QED BY <2>1, <2>2
<1>4. L!Before(m, ".") = w /\ L!After(m, ".") = f
  <2>1. CASE f = <<>>
    <3>1. m = w
      BY <2>1, ConcatEmptySeq DEF Fraction
    <3> QED BY <1>3, <2>1, <3>1, NotSplit
  <2>2. CASE f # <<>>
    <3>1. m = w \o (<<".">> \o f)
      BY <2>2, Zenon DEF Fraction
    <3>2. "." \in M /\ w \in Seq(M) /\ f \in Seq(M) /\ \A i \in 1..Len(w) : w[i] # "."
      BY <1>2, <1>3
    <3> DEFINE c == "."
    <3> HIDE DEF m, M, c
    <3>3. c \in M /\ w \in Seq(M) /\ f \in Seq(M) /\ \A i \in 1..Len(w) : w[i] # c
      BY <3>2 DEF c
    <3>4. L!Before(w \o (<<c>> \o f), c) = w /\ L!After(w \o (<<c>> \o f), c) = f
      BY <3>3, SplitAt
    <3> QED BY <3>1, <3>4 DEF c
  <2> QED BY <2>1, <2>2
<1>5. /\ m \in Seq(M) /\ m # <<>> /\ m[1] = w[1]
  <2>1. Fraction(f) \in Seq(M)
    <3>1. <<".">> \in Seq(M)
      OBVIOUS
    <3> DEFINE p == <<".">>
    <3> HIDE DEF M, p
    <3>2. p \o f \in Seq(M)
      BY <1>3, <3>1, PartsOfJoin DEF Joins, p
    <3>3. <<>> \in Seq(M)
      OBVIOUS
    <3> QED BY <3>2, <3>3 DEF Fraction, p
  <2> DEFINE g == Fraction(f)
  <2> HIDE DEF g, M
  <2>2. /\ w \o g \in Seq(M) /\ Len(w \o g) = Len(w) + Len(g)
        /\ \A i \in 1..Len(w) : (w \o g)[i] = w[i]
    <3>1. w \in Seq(M) /\ g \in Seq(M)
      BY <1>3, <2>1 DEF g
    <3> QED BY <3>1, PartsOfJoin DEF Joins
  <2>3. Len(w) \in Nat /\ Len(w) >= 1 /\ Len(g) \in Nat
    BY <1>3, <2>1, LenProperties, NoSequence DEF g
  <2>4. Len(w \o g) >= 1 /\ 1 \in 1..Len(w)
    BY <2>2, <2>3
  <2> QED BY <2>2, <2>4, NoSequence DEF g
<1>6. m \in Seq(S) /\ x \in Seq(S) /\ \A i \in 1..Len(m) : m[i] # "e"
  <2>1. \A i \in 1..Len(m) : m[i] \in M
    BY <1>5, ElementOfSeq
  <2>2. m \in Seq(S)
    <3> HIDE DEF m, M, S
    <3>1. M \subseteq S
      BY <1>2
    <3> QED BY <1>5, <3>1
  <2>3. x \in Seq(S)
    <3> DEFINE X == Digits \cup Signs
    <3>1. X \subseteq S /\ x \in Seq(X)
      BY <1>2
    <3> HIDE DEF X, S
    <3> QED BY <3>1
  <2> HIDE DEF m, M
  <2> QED BY <1>2, <2>1, <2>2, <2>3
<1>7. L!Before(t, "e") = m /\ L!After(t, "e") = x /\ t # <<>> /\ t[1] = w[1]
  <2>1. CASE x = <<>>
    <3>1. t = m
      <4>1. t = m \o <<>>
        BY <2>1, Zenon DEF Text, Exponent
      <4> HIDE DEF t, m
      <4> QED BY <1>5, <4>1, ConcatEmptySeq
    <3> HIDE DEF t, m
    <3> QED BY <1>5, <1>6, <2>1, <3>1, NotSplit
  <2>2. CASE x # <<>>
    <3>1. t = m \o (<<"e">> \o x)
      BY <2>2, Zenon DEF Text, Exponent
    <3> DEFINE y == <<"e">> \o x
    <3>2. y \in Seq(S)
      <4>1. <<"e">> \in Seq(S)
        OBVIOUS
      <4> DEFINE p == <<"e">>
      <4> HIDE DEF S, p
      <4> QED BY <1>6, <4>1, PartsOfJoin DEF Joins, p
    <3> HIDE DEF t, m, S
    <3>3. L!Before(t, "e") = m /\ L!After(t, "e") = x
      BY <1>2, <1>6, <3>1, SplitAt
    <3> HIDE DEF y
    <3>4. t = m \o y
      BY <3>1 DEF y
    <3>5. /\ Len(t) = Len(m) + Len(y) /\ t \in Seq(S)
          /\ \A i \in 1..Len(m) : t[i] = m[i]
      <4>1. m \in Seq(S) /\ y \in Seq(S)
        BY <1>6, <3>2
      <4> QED BY <3>4, <4>1, PartsOfJoin DEF Joins
    <3>6. Len(m) \in Nat /\ Len(m) >= 1 /\ Len(y) \in Nat
      BY <1>5, <1>6, <3>2, LenProperties, NoSequence
    <3>7. Len(t) >= 1 /\ 1 \in 1..Len(m)
      BY <3>5, <3>6
    <3> QED BY <1>5, <3>3, <3>5, <3>7, NoSequence
  <2> QED BY <2>1, <2>2
<1>8. t[1] \notin {"-", "+"}
  <2>1. w[1] \in Digits
    <3>1. 1 \in 1..Len(w)
      BY NoSequence, LenProperties
    <3> QED BY <3>1, ElementOfSeq
  <2> QED BY <1>1, <1>7, <2>1
<1>9. L!Unsigned(t) = t /\ ~L!IsNegative(t)
  <2> HIDE DEF t
  <2> QED BY <1>8 DEF L!Unsigned, L!IsNegative
<1> QED BY <1>4, <1>7, <1>9, Zenon

ScaleOf(x) == (IF L!IsNegative(x) THEN -1 ELSE 1) * L!Number(L!Unsigned(x))

(* A text is read as the numeral n times 10^y when its digits are n between *)
(* zeros and its exponent puts the point where n times 10^y has it.         *)
LEMMA DecimalIsRead ==
    ASSUME NEW w \in Seq(Digits), w # <<>>, NEW f \in Seq(Digits),
           NEW x \in Seq(Digits \cup Signs), L!Unsigned(x) \in Seq(Digits),
           NEW n, NEW k, NEW z, Between(w \o f, n, k, z), n # <<>>, n[1] # "0",
           NEW y \in Int, ScaleOf(x) \in Int,
           ScaleOf(x) + Len(w) = k + Len(n) + y
    PROVE  LET read == L!Reads(Text(w, f, x))
           IN  /\ read.numeral /\ ~read.negative
               /\ read.exponent >= y
               /\ read.digits * L!Pow10[read.exponent - y] = L!Number(n)
<1> DEFINE t == Text(w, f, x)
           read == L!Reads(t)
           mantissa == L!Before(L!Unsigned(t), "e")
           exp == L!After(L!Unsigned(t), "e")
           whole == L!Before(mantissa, ".")
           fraction == L!After(mantissa, ".")
           d == w \o f
           last == LastNonZero(d)
<1>1. /\ mantissa = w \o Fraction(f) /\ exp = x /\ whole = w /\ fraction = f
      /\ ~L!IsNegative(t)
  <2>1. /\ L!Unsigned(t) = t /\ ~L!IsNegative(t)
        /\ L!Before(t, "e") = w \o Fraction(f) /\ L!After(t, "e") = x
        /\ L!Before(w \o Fraction(f), ".") = w /\ L!After(w \o Fraction(f), ".") = f
    <3>1. w \in Seq(Digits) /\ w # <<>> /\ f \in Seq(Digits) /\ x \in Seq(Digits \cup Signs)
      OBVIOUS
    <3>2. L!Unsigned(Text(w, f, x)) = Text(w, f, x)
      BY <3>1, TextIsRead, SMT
    <3>3. ~L!IsNegative(Text(w, f, x))
      BY <3>1, TextIsRead, SMT
    <3>4. L!Before(Text(w, f, x), "e") = w \o Fraction(f)
      BY <3>1, TextIsRead, SMT
    <3>5. L!After(Text(w, f, x), "e") = x
      BY <3>1, TextIsRead, SMT
    <3>6. L!Before(w \o Fraction(f), ".") = w /\ L!After(w \o Fraction(f), ".") = f
      BY <3>1, <3>2, <3>4, <3>5, TextIsRead, SMT
    <3> QED BY <3>2, <3>3, <3>4, <3>5, <3>6, Zenon DEF t
  <2> HIDE DEF t
  <2> QED BY <2>1, Zenon
<1>2. /\ read.numeral = (L!IsNumeral((whole \o fraction) \o L!Unsigned(exp)) /\ whole # <<>>)
      /\ read.negative = L!IsNegative(t)
      /\ read.digits = L!Number(SubSeq(whole \o fraction, 1, LastNonZero(whole \o fraction)))
      /\ read.exponent = ScaleOf(exp)
                           + (Len(whole \o fraction) - LastNonZero(whole \o fraction))
                           - Len(fraction)
  <2> HIDE DEF t
  <2> QED BY Zenon DEF L!Reads, LastNonZero, ScaleOf
<1> HIDE DEF t, read, mantissa, exp, whole, fraction
<1>3. /\ read.numeral = (L!IsNumeral(d \o L!Unsigned(x)) /\ w # <<>>)
      /\ read.negative = FALSE
      /\ read.digits = L!Number(SubSeq(d, 1, last))
      /\ read.exponent = ScaleOf(x) + (Len(d) - last) - Len(f)
  <2>1. read.negative = FALSE
    <3>1. L!IsNegative(t) \in BOOLEAN
      BY DEF L!IsNegative
    <3> QED BY <1>1, <1>2, <3>1
  <2>2. read.numeral = (L!IsNumeral(d \o L!Unsigned(x)) /\ w # <<>>)
    BY <1>1, <1>2, Zenon
  <2>3. read.digits = L!Number(SubSeq(d, 1, last))
    BY <1>1, <1>2, Zenon
  <2>4. read.exponent = ScaleOf(x) + (Len(d) - last) - Len(f)
    BY <1>1, <1>2, Zenon
  <2> QED BY <2>1, <2>2, <2>3, <2>4
<1>4. d \in Seq(Digits) /\ Len(d) = Len(w) + Len(f)
  BY PartsOfJoin DEF Joins
<1>5. L!IsNumeral(d \o L!Unsigned(x))
  <2> DEFINE u == L!Unsigned(x)
  <2>1. u \in Seq(Digits)
    OBVIOUS
  <2> HIDE DEF d, u
  <2>2. d \o u \in Seq(Digits)
    BY <1>4, <2>1, PartsOfJoin DEF Joins
  <2> QED BY <2>2, ElementOfSeq DEF L!IsNumeral, Digits, u
<1>6. /\ last \in (k + 1)..(k + Len(n)) /\ k \in Nat /\ n \in Seq(Digits)
      /\ L!Number(SubSeq(d, 1, last)) * L!Pow10[(k + Len(n)) - last] = L!Number(n)
  <2>1. last \in (k + 1)..(k + Len(n))
    BY LastNonZeroIs
  <2>2. L!Number(SubSeq(d, 1, last)) * L!Pow10[(k + Len(n)) - last] = L!Number(n)
    BY ReadDigits
  <2> QED BY <2>1, <2>2 DEF Between
<1> DEFINE s == ScaleOf(x)
<1> HIDE DEF d, last, s
<1>7. read.exponent - y = (k + Len(n)) - last /\ read.exponent >= y
  <2>1. Len(w) \in Nat /\ Len(f) \in Nat /\ Len(n) \in Nat
    BY <1>6, LenProperties
  <2>2. read.exponent = s + (Len(d) - last) - Len(f) /\ s \in Int
        /\ s + Len(w) = k + Len(n) + y
    BY <1>3 DEF s
  <2> DEFINE e == read.exponent
             a == Len(w)
             b == Len(f)
             c == Len(n)
             h == Len(d)
  <2>3. /\ a \in Nat /\ b \in Nat /\ c \in Nat /\ h = a + b
        /\ e = s + (h - last) - b /\ s \in Int /\ s + a = k + c + y
        /\ last \in (k + 1)..(k + c) /\ k \in Nat
    BY <1>4, <1>6, <2>1, <2>2
  <2> HIDE DEF a, b, c, e, h
  <2>4. e - y = (k + c) - last /\ e >= y
    BY <2>3
  <2> QED BY <2>4 DEF c, e
<1>8. read.digits * L!Pow10[read.exponent - y] = L!Number(n)
  BY <1>3, <1>6, <1>7, Zenon
<1> QED BY <1>3, <1>5, <1>7, <1>8, Zenon DEF read, t

(* The text of an exponent is read as the exponent.                         *)
LEMMA ExponentFacts ==
    ASSUME NEW k \in 0..999
    PROVE  /\ L!ExponentDigits(k) \in Seq(Digits) /\ L!ExponentDigits(k) # <<>>
           /\ Len(L!ExponentDigits(k)) \in 1..3 /\ L!Number(L!ExponentDigits(k)) = k
<1>1. k \in Nat /\ L!Pow10[1] = 10 /\ L!Pow10[2] = 100
  BY SmallPowers
<1> DEFINE s == L!ExponentDigits(k)
<1>2. s \in Seq(Digits) /\ Len(s) \in 1..3 /\ L!Number(s) = k
  <2>1. CASE k < 10
    <3>1. s = L!Utoa(1, k)
      BY <2>1, Zenon DEF L!ExponentDigits
    <3> HIDE DEF s
    <3>2. s \in Seq(Digits) /\ Len(s) = 1 /\ L!Number(s) = k
      BY <1>1, <2>1, <3>1, DigitsAlone
    <3> QED BY <3>2
  <2>2. CASE ~(k < 10) /\ k < 100
    <3>1. s = L!Utoa(2, k)
      BY <2>2, Zenon DEF L!ExponentDigits
    <3> HIDE DEF s
    <3>2. 2 \in Nat /\ k < L!Pow10[2]
      BY <1>1, <2>2
    <3>3. s \in Seq(Digits) /\ Len(s) = 2 /\ L!Number(s) = k
      BY <1>1, <3>1, <3>2, DigitsAlone
    <3> QED BY <3>3
  <2>3. CASE ~(k < 10) /\ ~(k < 100)
    <3> DEFINE q == k \div 10
               r == k % 10
               t == L!Utoa(2, q)
    <3>1. s = t \o L!Utoa(1, r)
      BY <2>3, Zenon DEF L!ExponentDigits
    <3>2. q \in Nat /\ q < 100 /\ r \in 0..9 /\ k = 10 * q + r
      OBVIOUS
    <3> HIDE DEF q, r
    <3>3. t \in Seq(Digits) /\ Len(t) = 2 /\ L!Number(t) = q
      BY <1>1, <3>2, DigitsAlone
    <3> HIDE DEF t, s
    <3>4. s \in Seq(Digits) /\ Len(s) = Len(t) + 1 /\ L!Number(s) = L!Number(t) * L!Pow10[1] + r
      <4>1. r \in Nat /\ r < L!Pow10[1]
        BY <1>1, <3>2
      <4> QED BY <3>1, <3>3, <4>1, DigitsAppended
    <3> QED BY <1>1, <3>2, <3>3, <3>4
  <2> QED BY <2>1, <2>2, <2>3
<1>3. s # <<>>
  <2> HIDE DEF s
  <2> QED BY <1>2, NoSequence
<1> QED BY <1>2, <1>3

Exponents == -999..999

LEMMA ExponentIsRead ==
    ASSUME NEW e \in Exponents
    PROVE  \E x \in Seq(Digits \cup Signs) :
               /\ L!ExponentText(e) = <<"e">> \o x /\ x # <<>> /\ Len(x) \in 2..4
               /\ L!Unsigned(x) \in Seq(Digits) /\ ScaleOf(x) = e
<1> DEFINE X == Digits \cup Signs
           k == IF e < 0 THEN -e ELSE e
           c == IF e < 0 THEN "-" ELSE "+"
           s == L!ExponentDigits(k)
           x == <<c>> \o s
<1>1. k \in 0..999 /\ e \in Int
  BY DEF Exponents
<1>2. s \in Seq(Digits) /\ s # <<>> /\ Len(s) \in 1..3 /\ L!Number(s) = k
  <2> HIDE DEF k
  <2> QED BY <1>1, ExponentFacts
<1>3. L!ExponentText(e) = (<<"e">> \o <<c>>) \o s
  <2>1. /\ <<"e">> \o <<"-">> = <<"e", "-">>
        /\ <<"e">> \o <<"+">> = <<"e", "+">>
    <3>1. SUFFICES ASSUME NEW a, NEW b PROVE <<a>> \o <<b>> = <<a, b>>
      OBVIOUS
    <3> DEFINE S == {a, b}
               p == <<a>>
               q == <<b>>
               u == p \o q
               v == <<a, b>>
    <3>2. p \in Seq(S) /\ q \in Seq(S) /\ Len(p) = 1 /\ Len(q) = 1 /\ p[1] = a /\ q[1] = b
      OBVIOUS
    <3>3. v \in Seq(S) /\ Len(v) = 2 /\ v[1] = a /\ v[2] = b
      OBVIOUS
    <3> HIDE DEF p, q, v, S
    <3>4. u \in Seq(S) /\ Len(u) = Len(p) + Len(q)
          /\ (\A i \in 1..Len(p) : u[i] = p[i]) /\ \A i \in 1..Len(q) : u[Len(p) + i] = q[i]
      BY <3>2, PartsOfJoin DEF Joins
    <3> HIDE DEF u
    <3>5. Len(u) = 2 /\ u[1] = a /\ u[2] = b
      <4>1. 1 \in 1..1 /\ 1 + 1 = 2
        OBVIOUS
      <4> QED BY <3>2, <3>4, <4>1
    <3>6. ASSUME NEW i \in 1..Len(u) PROVE u[i] = v[i]
      <4>1. i = 1 \/ i = 2
        BY <3>5
      <4> QED BY <3>3, <3>5, <4>1
    <3>7. u = v
      BY <3>3, <3>4, <3>5, <3>6, SeqEqual
    <3> QED BY <3>7, Zenon DEF p, q, u, v
  <2>2. CASE e < 0
    BY <2>1, <2>2, Zenon DEF L!ExponentText
  <2>3. CASE ~(e < 0)
    BY <2>1, <2>3, Zenon DEF L!ExponentText
  <2> QED BY <2>2, <2>3
<1> HIDE DEF k, s
<1>4. L!ExponentText(e) = <<"e">> \o x
  <2> DEFINE S == Digits \cup {"e", "+", "-"}
             p == <<"e">>
             q == <<c>>
  <2>1. p \in Seq(S) /\ q \in Seq(S) /\ s \in Seq(S)
    <3>1. s \in Seq(S)
      <4>1. Digits \subseteq S
        OBVIOUS
      <4> HIDE DEF S
      <4> QED BY <1>2, <4>1
    <3>2. "e" \in S /\ c \in S
      OBVIOUS
    <3> HIDE DEF S, c
    <3> QED BY <3>1, <3>2
  <2> HIDE DEF p, q, S
  <2>2. (p \o q) \o s = p \o (q \o s)
    <3>1. \A a, b, d \in Seq(S) : (a \o b) \o d = a \o (b \o d)
      BY ConcatAssociative
    <3> QED BY <2>1, <3>1
  <2> QED BY <1>3, <2>2, Zenon DEF p, q
<1>5. /\ x \in Seq(X) /\ Len(x) = 1 + Len(s) /\ x[1] = c /\ Tail(x) = s
  <2>1. c \in X
    BY DEF Signs
  <2>2. s \in Seq(X)
    BY <1>2
  <2> HIDE DEF c, X
  <2> QED BY <2>1, <2>2
<1>6. x # <<>> /\ Len(x) \in 2..4
  <2> HIDE DEF x, X
  <2>1. Len(x) \in 2..4
    <3>1. \A i \in 1..3 : 1 + i \in 2..4
      OBVIOUS
    <3> QED BY <1>2, <1>5, <3>1, Zenon
  <2> QED BY <1>5, <2>1, NoSequence
<1>7. L!Unsigned(x) = s /\ (L!IsNegative(x) <=> e < 0)
  <2>1. c \in {"-", "+"} /\ (c = "-" <=> e < 0)
    OBVIOUS
  <2> HIDE DEF x, c
  <2> QED BY <1>5, <1>6, <2>1 DEF L!Unsigned, L!IsNegative
<1>8. ScaleOf(x) = e
  <2>1. ScaleOf(x) = (IF e < 0 THEN -1 ELSE 1) * k
    BY <1>2, <1>7, Zenon DEF ScaleOf
  <2> HIDE DEF x
  <2> QED BY <1>1, <2>1 DEF k
<1> HIDE DEF x
<1> QED BY <1>2, <1>4, <1>5, <1>6, <1>7, <1>8

(* The same the other way round: a function with the parts of the           *)
(* concatenation is the concatenation.                                      *)
HasParts(g, h, a, c, b) ==
    /\ h = Len(a) + Len(b) + 1 /\ g = [i \in 1..h |-> g[i]]
    /\ \A i \in 1..Len(a) : g[i] = a[i]
    /\ g[Len(a) + 1] = c
    /\ \A i \in 1..Len(b) : g[Len(a) + 1 + i] = b[i]

LEMMA JoinedWith ==
    ASSUME NEW S, NEW a \in Seq(S), NEW b \in Seq(S), NEW c \in S,
           NEW h, NEW g, HasParts(g, h, a, c, b)
    PROVE  g = a \o (<<c>> \o b)
<1> DEFINE s == a \o (<<c>> \o b)
           l == Len(a)
           m == Len(b)
<1>1. /\ l \in Nat /\ m \in Nat /\ h \in Nat /\ h = l + m + 1
      /\ g = [i \in 1..h |-> g[i]]
      /\ \A i \in 1..l : g[i] = a[i]
      /\ g[l + 1] = c
      /\ \A i \in 1..m : g[l + 1 + i] = b[i]
  <2>1. /\ h = l + m + 1 /\ g = [i \in 1..h |-> g[i]]
        /\ \A i \in 1..l : g[i] = a[i]
        /\ g[l + 1] = c
        /\ \A i \in 1..m : g[l + 1 + i] = b[i]
    BY Zenon DEF HasParts
  <2>2. l \in Nat /\ m \in Nat
    BY LenProperties
  <2>3. l \in Nat /\ m \in Nat /\ h = l + m + 1 => h \in Nat
    OBVIOUS
  <2> QED BY <2>1, <2>2, <2>3, Zenon
<1>2. /\ s \in Seq(S) /\ Len(s) = l + m + 1
      /\ \A i \in 1..l : s[i] = a[i]
      /\ s[l + 1] = c
      /\ \A i \in 1..m : s[l + 1 + i] = b[i]
  <2>1. JoinsWith(s, a, c, b, S)
    BY PartsWith
  <2> QED BY <2>1, Zenon DEF JoinsWith
<1> HIDE DEF s
<1>3. ASSUME NEW i \in 1..h PROVE g[i] = s[i]
  <2>1. \/ i \in 1..l
        \/ i = l + 1
        \/ i - (l + 1) \in 1..m /\ l + 1 + (i - (l + 1)) = i
    <3> HIDE DEF l, m
    <3> QED BY <1>1
  <2> HIDE DEF l, m
  <2> QED BY <1>1, <1>2, <2>1
<1>4. g \in Seq(S)
  <2>1. \A i \in 1..h : s[i] \in S
    BY <1>1, <1>2, ElementOfSeq
  <2>2. g \in [1..h -> S]
    <3>1. \A i \in 1..h : g[i] \in S
      BY <1>3, <2>1, Zenon
    <3>2. g = [i \in 1..h |-> g[i]]
      BY <1>1
    <3> QED BY <3>1, <3>2, Zenon
  <2> QED BY <1>1, <2>2
<1>5. Len(g) = h
  BY <1>1
<1>6. g = s
  <2>1. Len(g) = Len(s)
    BY <1>1, <1>2, <1>5
  <2> QED BY <1>2, <1>3, <1>4, <1>5, <2>1, SeqEqual
<1> QED BY <1>6 DEF s

(* What is at a position of the buffer after a text was stored.             *)
IsStored(u, b, at, t) ==
    /\ DOMAIN u = 0..64
    /\ \A j \in 1..Len(t) : (at - 1) + j \in 0..64 => u[(at - 1) + j] = t[j]
    /\ \A i \in 0..64 : i < at \/ at + Len(t) <= i => u[i] = b[i]

LEMMA StoredAt ==
    ASSUME NEW b, DOMAIN b = 0..64, NEW at \in Int, NEW t, Len(t) \in Nat
    PROVE  IsStored(L!Stored(b, at, t), b, at, t)
<1> DEFINE u == L!Stored(b, at, t)
<1>1. /\ DOMAIN u = 0..64
      /\ \A i \in 0..64 : u[i] = IF at <= i /\ i < at + Len(t) THEN t[i - at + 1] ELSE b[i]
  BY Zenon DEF L!Stored
<1> HIDE DEF u
<1>2. ASSUME NEW j \in 1..Len(t), (at - 1) + j \in 0..64 PROVE u[(at - 1) + j] = t[j]
  <2>1. /\ at <= (at - 1) + j /\ (at - 1) + j < at + Len(t)
        /\ ((at - 1) + j) - at + 1 = j
    OBVIOUS
  <2> QED BY <1>1, <1>2, <2>1
<1>3. ASSUME NEW i \in 0..64, i < at \/ at + Len(t) <= i PROVE u[i] = b[i]
  <2>1. ~(at <= i /\ i < at + Len(t))
    BY <1>3
  <2> QED BY <1>1, <2>1
<1>4. IsStored(u, b, at, t)
  BY <1>1, <1>2, <1>3, Zenon DEF IsStored
<1> QED BY <1>4 DEF u

(* The numeral where FormatDigits puts it.                                  *)
LEMMA Printed ==
    ASSUME NEW v \in Nat \ {0}, v < L!Pow10[17], NEW b, NEW at \in Int
    PROVE  L!PrintDecimalDigits(b, at, v, L!DecimalLength(v)) =
             L!Stored(b, at, L!DecimalDigits(v))
<1> DEFINE n == L!DecimalLength(v)
<1>1. n = Len(L!DecimalDigits(v)) /\ n \in 1..17
  BY DecimalLengthIs
<1> HIDE DEF n
<1>2. at + n - n = at
  BY <1>1
<1>3. L!PrintDecimalDigits(b, at, v, n) = L!Stored(b, at + n - n, L!DecimalDigits(v))
  BY <1>1, Zenon DEF L!PrintDecimalDigits
<1> QED BY <1>2, <1>3, Zenon DEF n

(* A text whose digits are n between zeros, with the point where n times    *)
(* 10^y has it.                                                             *)
Shows(t, n, y) ==
    \E w \in Seq(Digits), f \in Seq(Digits), x \in Seq(Digits \cup Signs) : \E k, z :
        /\ t = Text(w, f, x) /\ w # <<>>
        /\ L!Unsigned(x) \in Seq(Digits) /\ ScaleOf(x) \in Int
        /\ Between(w \o f, n, k, z)
        /\ ScaleOf(x) + Len(w) = k + Len(n) + y

Characters(b, h) == [i \in 1..h |-> b[i - 1]]

LEMMA ZeroIsDigit == "0" \in Digits
<1>1. 1 \in DOMAIN L!Chars /\ L!Chars[1] = "0"
  BY DEF L!Chars
<1> QED BY <1>1 DEF Digits, L!Range

LEMMA NoExponent == <<>> \in Seq(Digits \cup Signs) /\ L!Unsigned(<<>>) = <<>> /\ ScaleOf(<<>>) = 0
<1>1. L!Unsigned(<<>>) = <<>> /\ ~L!IsNegative(<<>>)
  BY Zenon DEF L!Unsigned, L!IsNegative
<1>2. ScaleOf(<<>>) = 1 * 0
  BY <1>1, NumberOfNone, Zenon DEF ScaleOf
<1> QED BY <1>1, <1>2

LEMMA TextForms ==
    ASSUME NEW w \in Seq(Digits), NEW f \in Seq(Digits), NEW x
    PROVE  /\ Text(w, <<>>, <<>>) = w
           /\ f # <<>> => Text(w, f, <<>>) = w \o (<<".">> \o f)
           /\ x # <<>> => Text(w, <<>>, x) = w \o (<<"e">> \o x)
           /\ x # <<>> /\ f # <<>> =>
                 Text(w, f, x) = (w \o (<<".">> \o f)) \o (<<"e">> \o x)
<1>1. w \o <<>> = w
  BY ConcatEmptySeq
<1>2. (w \o (<<".">> \o f)) \o <<>> = w \o (<<".">> \o f)
  <2> DEFINE S == Digits \cup {"."}
             s == w \o (<<".">> \o f)
  <2>1. "." \in S /\ w \in Seq(S) /\ f \in Seq(S)
    <3>1. Digits \subseteq S
      OBVIOUS
    <3> HIDE DEF S
    <3> QED BY <3>1 DEF S
  <2> HIDE DEF S, s
  <2>2. JoinsWith(s, w, ".", f, S)
    BY <2>1, PartsWith DEF s
  <2>3. s \in Seq(S)
    BY <2>2 DEF JoinsWith
  <2>4. s \o <<>> = s
    BY <2>3, ConcatEmptySeq
  <2> QED BY <2>4 DEF s
<1>3. Text(w, <<>>, <<>>) = w
  <2>1. Text(w, <<>>, <<>>) = (w \o <<>>) \o <<>>
    BY Zenon DEF Text, Fraction, Exponent
  <2> QED BY <1>1, <2>1, Zenon
<1>4. ASSUME f # <<>> PROVE Text(w, f, <<>>) = w \o (<<".">> \o f)
  <2>1. Text(w, f, <<>>) = (w \o (<<".">> \o f)) \o <<>>
    BY <1>4, Zenon DEF Text, Fraction, Exponent
  <2> QED BY <1>2, <2>1, Zenon
<1>5. ASSUME x # <<>> PROVE Text(w, <<>>, x) = w \o (<<"e">> \o x)
  <2>1. Text(w, <<>>, x) = (w \o <<>>) \o (<<"e">> \o x)
    BY <1>5, Zenon DEF Text, Fraction, Exponent
  <2> QED BY <1>1, <2>1, Zenon
<1>6. ASSUME x # <<>>, f # <<>>
      PROVE  Text(w, f, x) = (w \o (<<".">> \o f)) \o (<<"e">> \o x)
  BY <1>6, Zenon DEF Text, Fraction, Exponent
<1> QED BY <1>3, <1>4, <1>5, <1>6, Zenon

LEMMA CharactersAre ==
    ASSUME NEW b, NEW h
    PROVE  /\ Characters(b, h) = [i \in 1..h |-> Characters(b, h)[i]]
           /\ \A i \in 1..h : Characters(b, h)[i] = b[i - 1]
BY Zenon DEF Characters

ZeroDigits(n) == [i \in 1..n |-> "0"]

LEMMA ZerosAre ==
    ASSUME NEW n \in Nat
    PROVE  /\ ZeroDigits(n) \in Seq(Digits) /\ Len(ZeroDigits(n)) = n
           /\ \A i \in 1..n : ZeroDigits(n)[i] = "0"
<1>1. ZeroDigits(n) \in [1..n -> Digits]
  BY ZeroIsDigit DEF ZeroDigits
<1>2. \A i \in 1..n : ZeroDigits(n)[i] = "0"
  BY DEF ZeroDigits
<1> QED BY <1>1, <1>2

IsPut(u, b, at, c) ==
    DOMAIN u = 0..64 /\ \A i \in 0..64 : u[i] = IF i = at THEN c ELSE b[i]

LEMMA PointStored ==
    ASSUME NEW b, DOMAIN b = 0..64, NEW at \in Nat, NEW c
    PROVE  IsPut(L!Stored(b, at, <<c>>), b, at, c)
<1> DEFINE q == <<c>>
           u == L!Stored(b, at, q)
<1>1. Len(q) = 1 /\ q[1] = c
  OBVIOUS
<1> HIDE DEF q, u
<1>2. IsStored(u, b, at, q)
  BY <1>1, StoredAt DEF u
<1>3. /\ DOMAIN u = 0..64
      /\ \A j \in 1..1 : (at - 1) + j \in 0..64 => u[(at - 1) + j] = c
      /\ \A i \in 0..64 : i < at \/ at + 1 <= i => u[i] = b[i]
  BY <1>1, <1>2 DEF IsStored
<1>4. ASSUME NEW i \in 0..64 PROVE u[i] = IF i = at THEN c ELSE b[i]
  <2>1. CASE i = at
    <3>1. 1 \in 1..1 /\ (at - 1) + 1 = i
      BY <2>1
    <3> QED BY <1>3, <2>1, <3>1
  <2>2. CASE i # at
    <3>1. i < at \/ at + 1 <= i
      BY <2>2
    <3> QED BY <1>3, <2>2, <3>1
  <2> QED BY <2>1, <2>2
<1>5. IsPut(u, b, at, c)
  BY <1>3, <1>4, Zenon DEF IsPut
<1> QED BY <1>5 DEF u, q

(* 0.000digits                                                              *)
LEMMA LeadingZeros ==
    ASSUME NEW b0, DOMAIN b0 = 0..64, NEW n \in Seq(Digits), NEW l, l = Len(n), l \in 1..17,
           NEW p, p \in -6..0
    PROVE  Shows(Characters(L!Stored(L!Stored(L!Stored(b0, 0, ZeroDigits(8)), 2 - p, n),
                                     1, <<".">>),
                            2 - p + l), n, p - l)
<1> DEFINE t == ZeroDigits(8)
           b1 == L!Stored(b0, 0, t)
           b2 == L!Stored(b1, 2 - p, n)
           b3 == L!Stored(b2, 1, <<".">>)
           h == 2 - p + l
           g == Characters(b3, h)
           w == <<"0">>
           m == l - p
           f == [i \in 1..m |-> IF i <= -p THEN "0" ELSE n[i + p]]
<1>1. /\ l \in Nat /\ l >= 1 /\ l <= 17 /\ p \in Int /\ p >= -6 /\ p <= 0
      /\ m \in Nat /\ m >= 1 /\ m = l - p
  <2>1. l \in Nat /\ l >= 1 /\ l <= 17
    <3>1. \A i \in 1..17 : i \in Nat /\ i >= 1 /\ i <= 17
      OBVIOUS
    <3> QED BY <3>1, Zenon
  <2>2. p \in Int /\ p >= -6 /\ p <= 0
    OBVIOUS
  <2>3. m \in Nat /\ m >= 1
    BY <2>1, <2>2
  <2>4. m = l - p
    BY Zenon
  <2> HIDE DEF m
  <2> QED BY <2>1, <2>2, <2>3, <2>4
<1>2. Len(t) = 8 /\ \A i \in 1..8 : t[i] = "0"
  BY ZerosAre
<1> HIDE DEF t
<1>3. IsStored(b1, b0, 0, t)
  BY <1>2, StoredAt
<1> HIDE DEF b1
<1>4. DOMAIN b1 = 0..64 /\ \A i \in 0..7 : b1[i] = "0"
  <2>1. /\ DOMAIN b1 = 0..64
        /\ \A j \in 1..Len(t) : (0 - 1) + j \in 0..64 => b1[(0 - 1) + j] = t[j]
    BY <1>3, Zenon DEF IsStored
  <2>2. ASSUME NEW i \in 0..7 PROVE b1[i] = "0"
    <3>1. i + 1 \in 1..8 /\ (0 - 1) + (i + 1) = i /\ i \in 0..64
      OBVIOUS
    <3>2. b1[i] = t[i + 1]
      BY <1>2, <2>1, <3>1
    <3> QED BY <1>2, <3>1, <3>2
  <2> QED BY <2>1, <2>2
<1>5. IsStored(b2, b1, 2 - p, n)
  <2>1. 2 - p \in Int /\ Len(n) \in Nat
    BY <1>1
  <2> QED BY <1>4, <2>1, StoredAt
<1> HIDE DEF b2
<1>6. /\ DOMAIN b2 = 0..64
      /\ \A i \in 0..64 : ~(2 - p <= i) => b2[i] = b1[i]
      /\ \A i \in 1..l : b2[(1 - p) + i] = n[i]
  <2>1. /\ DOMAIN b2 = 0..64
        /\ \A j \in 1..Len(n) : ((2 - p) - 1) + j \in 0..64 => b2[((2 - p) - 1) + j] = n[j]
        /\ \A i \in 0..64 : i < 2 - p \/ (2 - p) + Len(n) <= i => b2[i] = b1[i]
    BY <1>5, Zenon DEF IsStored
  <2>2. ASSUME NEW i \in 1..l PROVE b2[(1 - p) + i] = n[i]
    <3>1. ((2 - p) - 1) + i = (1 - p) + i /\ (1 - p) + i \in 0..64
      BY <1>1
    <3> QED BY <2>1, <3>1
  <2>3. ASSUME NEW i \in 0..64, ~(2 - p <= i) PROVE b2[i] = b1[i]
    <3>1. i < 2 - p
      BY <1>1, <2>3
    <3> QED BY <2>1, <3>1
  <2> QED BY <2>1, <2>2, <2>3
<1>7. \A i \in 0..64 : b3[i] = IF i = 1 THEN "." ELSE b2[i]
  <2>1. IsPut(b3, b2, 1, ".")
    BY <1>6, PointStored
  <2> QED BY <2>1, Zenon DEF IsPut
<1> HIDE DEF b3
<1>8. f \in Seq(Digits) /\ Len(f) = m
  <2>1. ASSUME NEW i \in 1..m PROVE (IF i <= -p THEN "0" ELSE n[i + p]) \in Digits
    <3>1. CASE i <= -p
      BY <3>1, ZeroIsDigit
    <3>2. CASE ~(i <= -p)
      <4>1. i + p \in 1..l
        BY <1>1, <3>2
      <4>2. n[i + p] \in Digits
        BY <4>1, ElementOfSeq
      <4> QED BY <3>2, <4>2
    <3> QED BY <3>1, <3>2
  <2>2. f \in [1..m -> Digits]
    BY <2>1
  <2> HIDE DEF f, m
  <2> QED BY <1>1, <2>2
<1>9. /\ \A i \in 1..(-p) : i \in 1..m /\ f[i] = "0"
      /\ \A i \in 1..l : i - p \in 1..m /\ f[i - p] = n[i]
  <2>1. \A i \in 1..m : f[i] = IF i <= -p THEN "0" ELSE n[i + p]
    BY Zenon
  <2> HIDE DEF f, m
  <2>2. ASSUME NEW i \in 1..(-p) PROVE i \in 1..m /\ f[i] = "0"
    <3>1. i \in 1..m /\ i <= -p
      BY <1>1
    <3> QED BY <2>1, <3>1
  <2>3. ASSUME NEW i \in 1..l PROVE i - p \in 1..m /\ f[i - p] = n[i]
    <3>1. i - p \in 1..m /\ ~(i - p <= -p) /\ (i - p) + p = i
      BY <1>1
    <3> QED BY <2>1, <3>1
  <2> QED BY <2>2, <2>3
<1> HIDE DEF f
<1>10. w \in Seq(Digits) /\ Len(w) = 1 /\ w[1] = "0"
  BY ZeroIsDigit
<1> HIDE DEF w
<1>11. h \in Nat /\ h <= 64 /\ h = Len(w) + Len(f) + 1 /\ h = m + 2
  BY <1>1, <1>8, <1>10
<1>12. g = [i \in 1..h |-> g[i]] /\ \A i \in 1..h : g[i] = b3[i - 1]
  <2> HIDE DEF h
  <2> QED BY CharactersAre
<1> HIDE DEF g, m, h
<1>13. g[1] = "0" /\ g[2] = "."
  <2>1. 1 \in 1..h /\ 2 \in 1..h /\ 1 - 1 = 0 /\ 2 - 1 = 1 /\ 0 \in 0..7
        /\ 0 \in 0..64 /\ 1 \in 0..64 /\ ~(2 - p <= 0)
    BY <1>1, <1>11
  <2>2. b3[0] = b2[0] /\ b3[1] = "." /\ b2[0] = b1[0] /\ b1[0] = "0"
    BY <1>4, <1>6, <1>7, <2>1
  <2> QED BY <1>12, <2>1, <2>2
<1>14. ASSUME NEW i \in 1..m PROVE g[2 + i] = f[i]
  <2>1. /\ 2 + i \in 1..h /\ (2 + i) - 1 = 1 + i /\ 1 + i \in 0..64 /\ 1 + i # 1
    BY <1>1, <1>11
  <2>2. g[2 + i] = b2[1 + i]
    BY <1>7, <1>12, <2>1
  <2>3. CASE i <= -p
    <3>1. ~(2 - p <= 1 + i) /\ 1 + i \in 0..7 /\ i \in 1..(-p)
      BY <1>1, <2>3
    <3> QED BY <1>4, <1>6, <1>9, <2>1, <2>2, <3>1
  <2>4. CASE ~(i <= -p)
    <3>1. i + p \in 1..l /\ (1 - p) + (i + p) = 1 + i /\ (i + p) - p = i
      BY <1>1, <2>4
    <3>2. b2[1 + i] = n[i + p]
      BY <1>6, <3>1
    <3>3. f[i] = n[i + p]
      BY <1>9, <3>1
    <3> QED BY <2>2, <3>2, <3>3
  <2> QED BY <2>3, <2>4
<1>15. g = w \o (<<".">> \o f)
  <2> DEFINE S == Digits \cup {"."}
  <2>1. "." \in S /\ w \in Seq(S) /\ f \in Seq(S)
    <3>1. Digits \subseteq S /\ "." \in S
      OBVIOUS
    <3> HIDE DEF S
    <3> QED BY <1>8, <1>10, <3>1
  <2>2. HasParts(g, h, w, ".", f)
    <3>1. ASSUME NEW i \in 1..Len(w) PROVE g[i] = w[i]
      <4>1. i = 1
        BY <1>10
      <4> QED BY <1>10, <1>13, <4>1
    <3>2. ASSUME NEW i \in 1..Len(f) PROVE g[Len(w) + 1 + i] = f[i]
      <4>1. i \in 1..m /\ Len(w) + 1 + i = 2 + i
        BY <1>8, <1>10
      <4> QED BY <1>14, <4>1
    <3>3. Len(w) + 1 = 2
      BY <1>10
    <3> QED BY <1>11, <1>12, <1>13, <3>1, <3>2, <3>3, Zenon DEF HasParts
  <2> HIDE DEF S
  <2> QED BY <2>1, <2>2, JoinedWith
<1>16. Between(w \o f, n, 1 - p, 0)
  <2> DEFINE d == w \o f
             k == 1 - p
  <2>1. Joins(d, w, f, Digits)
    BY <1>8, <1>10, PartsOfJoin
  <2> HIDE DEF d
  <2>2. /\ d \in Seq(Digits) /\ Len(d) = k + l + 0 /\ k \in Nat
    BY <1>1, <1>8, <1>10, <2>1 DEF Joins
  <2>3. d[1] = "0" /\ \A i \in 1..m : d[1 + i] = f[i]
    <3>1. 1 \in 1..1
      OBVIOUS
    <3> QED BY <1>8, <1>10, <2>1, <3>1 DEF Joins
  <2>4. ASSUME NEW i \in 1..k PROVE d[i] = "0"
    <3>1. CASE i = 1
      BY <2>3, <3>1
    <3>2. CASE i # 1
      <4>1. i - 1 \in 1..(-p) /\ 1 + (i - 1) = i
        BY <1>1, <3>2
      <4>2. i - 1 \in 1..m /\ f[i - 1] = "0"
        BY <1>9, <4>1
      <4> QED BY <2>3, <4>1, <4>2
    <3> QED BY <3>1, <3>2
  <2>5. ASSUME NEW i \in 1..l PROVE d[k + i] = n[i]
    <3>1. i - p \in 1..m /\ f[i - p] = n[i]
      BY <1>9
    <3>2. 1 + (i - p) = k + i
      BY <1>1
    <3> QED BY <2>3, <3>1, <3>2
  <2>6. ASSUME NEW i \in (k + l + 1)..Len(d) PROVE FALSE
    BY <1>1, <2>2
  <2> HIDE DEF k
  <2>7. 0 \in Nat
    OBVIOUS
  <2>8. Between(d, n, k, 0)
    BY <2>2, <2>4, <2>5, <2>6, <2>7, Zenon DEF Between
  <2> QED BY <2>8 DEF d, k
<1>17. f # <<>> /\ w # <<>>
  <2>1. f # <<>>
    BY <1>1, <1>8, NoSequence
  <2>2. w # <<>>
    <3>1. Len(w) >= 1
      BY <1>10
    <3> QED BY <1>10, <3>1, NoSequence
  <2> QED BY <2>1, <2>2
<1>18. g = Text(w, f, <<>>)
  BY <1>8, <1>10, <1>15, <1>17, TextForms
<1>19. ScaleOf(<<>>) + Len(w) = (1 - p) + Len(n) + (p - l)
  BY <1>1, <1>10, NoExponent
<1>20. <<>> \in Seq(Digits) /\ 0 \in Int
  OBVIOUS
<1>21. Shows(g, n, p - l)
  BY <1>8, <1>10, <1>16, <1>17, <1>18, <1>19, <1>20, NoExponent, Zenon DEF Shows
<1> QED BY <1>21 DEF g, h, b1, b2, b3, t

(* dig.its                                                                  *)
WithPoint(b0, n, p) ==
    LET b1 == L!Stored(b0, 0, n)
        moved == [i \in 1..16 |-> b1[p + i - 1]]
    IN  L!Stored(L!Stored(b1, p + 1, moved), p, <<".">>)

LEMMA PointWithin ==
    ASSUME NEW b0, DOMAIN b0 = 0..64, NEW n \in Seq(Digits), NEW l, l = Len(n), l \in 1..17,
           NEW p, p \in 1..(l - 1)
    PROVE  Shows(Characters(WithPoint(b0, n, p), l + 1), n, p - l)
<1> DEFINE b1 == L!Stored(b0, 0, n)
           moved == [i \in 1..16 |-> b1[p + i - 1]]
           b2 == L!Stored(b1, p + 1, moved)
           b3 == L!Stored(b2, p, <<".">>)
           h == l + 1
           g == Characters(b3, h)
           m == l - p
           w == [i \in 1..p |-> n[i]]
           f == [i \in 1..m |-> n[p + i]]
<1>1. /\ l \in Nat /\ l <= 17 /\ p \in Nat /\ p >= 1
      /\ m \in Nat /\ m >= 1 /\ m <= 16 /\ m = l - p
  <2>1. l \in Nat /\ l <= 17
    <3>1. \A i \in 1..17 : i \in Nat /\ i <= 17
      OBVIOUS
    <3> QED BY <3>1, Zenon
  <2>2. p \in Nat /\ p >= 1 /\ p <= l - 1
    BY <2>1
  <2>3. m \in Nat /\ m >= 1 /\ m <= 16
    BY <2>1, <2>2
  <2>4. m = l - p
    BY Zenon
  <2> HIDE DEF m
  <2> QED BY <2>1, <2>2, <2>3, <2>4
<1>2. DOMAIN b1 = 0..64 /\ \A i \in 1..l : b1[i - 1] = n[i]
  <2>1. IsStored(b1, b0, 0, n)
    BY <1>1, StoredAt
  <2> HIDE DEF b1
  <2>2. /\ DOMAIN b1 = 0..64
        /\ \A j \in 1..Len(n) : (0 - 1) + j \in 0..64 => b1[(0 - 1) + j] = n[j]
    BY <2>1, Zenon DEF IsStored
  <2>3. ASSUME NEW i \in 1..l PROVE b1[i - 1] = n[i]
    <3>1. (0 - 1) + i = i - 1 /\ i - 1 \in 0..64
      BY <1>1
    <3> QED BY <2>2, <3>1
  <2> QED BY <2>2, <2>3
<1>3. Len(moved) = 16 /\ \A i \in 1..16 : moved[i] = b1[p + i - 1]
  <2>1. \A i \in 1..16 : moved[i] = b1[p + i - 1]
    BY Zenon
  <2>2. Len(moved) = 16
    <3> HIDE DEF b1
    <3> QED OBVIOUS
  <2> QED BY <2>1, <2>2, Zenon
<1> HIDE DEF b1, moved
<1>4. /\ DOMAIN b2 = 0..64
      /\ \A i \in 1..p : b2[i - 1] = n[i]
      /\ \A i \in 1..m : b2[p + i] = n[p + i]
  <2>1. IsStored(b2, b1, p + 1, moved)
    <3>1. p + 1 \in Int /\ Len(moved) \in Nat
      BY <1>1, <1>3
    <3> QED BY <1>2, <3>1, StoredAt
  <2> HIDE DEF b2
  <2>2. /\ DOMAIN b2 = 0..64
        /\ \A j \in 1..Len(moved) :
              ((p + 1) - 1) + j \in 0..64 => b2[((p + 1) - 1) + j] = moved[j]
        /\ \A i \in 0..64 : i < p + 1 \/ (p + 1) + Len(moved) <= i => b2[i] = b1[i]
    BY <2>1, Zenon DEF IsStored
  <2>3. ASSUME NEW i \in 1..p PROVE b2[i - 1] = n[i]
    <3>1. i - 1 \in 0..64 /\ i - 1 < p + 1 /\ i \in 1..l
      BY <1>1
    <3> QED BY <1>2, <2>2, <3>1
  <2>4. ASSUME NEW i \in 1..m PROVE b2[p + i] = n[p + i]
    <3>1. /\ i \in 1..16 /\ ((p + 1) - 1) + i = p + i /\ p + i \in 0..64
          /\ p + i \in 1..l /\ p + i - 1 = (p + i) - 1
      BY <1>1
    <3>2. b2[p + i] = moved[i]
      BY <1>3, <2>2, <3>1
    <3>3. moved[i] = b1[(p + i) - 1]
      BY <1>3, <3>1
    <3> QED BY <1>2, <3>1, <3>2, <3>3
  <2> QED BY <2>2, <2>3, <2>4
<1> HIDE DEF b2
<1>5. \A i \in 0..64 : b3[i] = IF i = p THEN "." ELSE b2[i]
  <2>1. IsPut(b3, b2, p, ".")
    BY <1>1, <1>4, PointStored
  <2> QED BY <2>1, Zenon DEF IsPut
<1> HIDE DEF b3
<1>6. /\ w \in Seq(Digits) /\ Len(w) = p /\ \A i \in 1..p : w[i] = n[i]
      /\ f \in Seq(Digits) /\ Len(f) = m /\ \A i \in 1..m : f[i] = n[p + i]
  <2>1. \A i \in 1..l : n[i] \in Digits
    BY ElementOfSeq
  <2>2. /\ \A i \in 1..p : i \in 1..l
        /\ \A i \in 1..m : p + i \in 1..l
    BY <1>1
  <2>3. w \in [1..p -> Digits] /\ f \in [1..m -> Digits]
    BY <2>1, <2>2
  <2>4. /\ \A i \in 1..p : w[i] = n[i]
        /\ \A i \in 1..m : f[i] = n[p + i]
    BY Zenon
  <2> HIDE DEF w, f, m
  <2>5. w \in Seq(Digits) /\ Len(w) = p
    BY <1>1, <2>3
  <2>6. f \in Seq(Digits) /\ Len(f) = m
    <3>1. m \in Nat /\ f \in [1..m -> Digits]
      BY <1>1, <2>3
    <3> QED BY <3>1
  <2> QED BY <2>4, <2>5, <2>6
<1> HIDE DEF w, f
<1>7. h \in Nat /\ h <= 64 /\ h = Len(w) + Len(f) + 1 /\ h = p + m + 1
  BY <1>1, <1>6
<1>8. g = [i \in 1..h |-> g[i]] /\ \A i \in 1..h : g[i] = b3[i - 1]
  <2> HIDE DEF h
  <2> QED BY CharactersAre
<1> HIDE DEF g, m, h
<1>9. ASSUME NEW i \in 1..p PROVE g[i] = w[i]
  <2>1. i \in 1..h /\ i - 1 \in 0..64 /\ i - 1 # p
    BY <1>1, <1>7
  <2>2. g[i] = b2[i - 1]
    BY <1>5, <1>8, <2>1
  <2> QED BY <1>4, <1>6, <2>2
<1>10. g[p + 1] = "."
  <2>1. p + 1 \in 1..h /\ (p + 1) - 1 = p /\ p \in 0..64
    BY <1>1, <1>7
  <2> QED BY <1>5, <1>8, <2>1
<1>11. ASSUME NEW i \in 1..m PROVE g[p + 1 + i] = f[i]
  <2>1. /\ p + 1 + i \in 1..h /\ (p + 1 + i) - 1 = p + i /\ p + i \in 0..64
        /\ p + i # p
    BY <1>1, <1>7
  <2>2. g[p + 1 + i] = b2[p + i]
    BY <1>5, <1>8, <2>1
  <2> QED BY <1>4, <1>6, <2>2
<1>12. g = w \o (<<".">> \o f)
  <2> DEFINE S == Digits \cup {"."}
  <2>1. "." \in S /\ w \in Seq(S) /\ f \in Seq(S)
    <3>1. Digits \subseteq S /\ "." \in S
      OBVIOUS
    <3> HIDE DEF S
    <3> QED BY <1>6, <3>1
  <2>2. HasParts(g, h, w, ".", f)
    BY <1>6, <1>7, <1>8, <1>9, <1>10, <1>11, Zenon DEF HasParts
  <2> HIDE DEF S
  <2> QED BY <2>1, <2>2, JoinedWith
<1>13. Between(w \o f, n, 0, 0)
  <2> DEFINE d == w \o f
  <2>1. Joins(d, w, f, Digits)
    BY <1>6, PartsOfJoin
  <2> HIDE DEF d
  <2>2. /\ d \in Seq(Digits) /\ Len(d) = 0 + l + 0 /\ Len(d) = l /\ 0 \in Nat
    BY <1>1, <1>6, <2>1 DEF Joins
  <2>3. ASSUME NEW i \in 1..l PROVE d[0 + i] = n[i]
    <3>0. 0 + i = i
      BY <1>1
    <3>1. CASE i <= p
      <4>1. i \in 1..p
        BY <1>1, <3>1
      <4> QED BY <1>6, <2>1, <3>0, <4>1 DEF Joins
    <3>2. CASE ~(i <= p)
      <4>1. i - p \in 1..m /\ p + (i - p) = i
        BY <1>1, <3>2
      <4>2. d[p + (i - p)] = f[i - p] /\ f[i - p] = n[p + (i - p)]
        BY <1>6, <2>1, <4>1 DEF Joins
      <4> QED BY <3>0, <4>1, <4>2
    <3> QED BY <3>1, <3>2
  <2>4. ASSUME NEW i \in 1..0 PROVE FALSE
    OBVIOUS
  <2>5. ASSUME NEW i \in (0 + l + 1)..Len(d) PROVE FALSE
    BY <1>1, <2>2
  <2>6. Between(d, n, 0, 0)
    BY <2>2, <2>3, <2>4, <2>5, Zenon DEF Between
  <2> QED BY <2>6 DEF d
<1>14. f # <<>> /\ w # <<>>
  <2>1. f # <<>>
    BY <1>1, <1>6, NoSequence
  <2>2. w # <<>>
    BY <1>1, <1>6, NoSequence
  <2> QED BY <2>1, <2>2
<1>15. g = Text(w, f, <<>>)
  BY <1>6, <1>12, <1>14, TextForms
<1>16. ScaleOf(<<>>) + Len(w) = 0 + Len(n) + (p - l)
  BY <1>1, <1>6, NoExponent
<1>17. <<>> \in Seq(Digits) /\ 0 \in Int
  OBVIOUS
<1>18. Shows(g, n, p - l)
  BY <1>6, <1>13, <1>14, <1>15, <1>16, <1>17, NoExponent, Zenon DEF Shows
<1>19. WithPoint(b0, n, p) = b3
  BY Zenon DEF WithPoint, b3, b2, moved, b1
<1> QED BY <1>18, <1>19, Zenon DEF g, h

(* digits000                                                                *)
LEMMA TrailingZeros ==
    ASSUME NEW b0, DOMAIN b0 = 0..64, NEW n \in Seq(Digits), NEW l, l = Len(n), l \in 1..17,
           NEW p, p \in l..17
    PROVE  Shows(Characters(L!Stored(L!Stored(b0, 0, ZeroDigits(24)), 0, n), p), n, p - l)
<1> DEFINE t == ZeroDigits(24)
           b1 == L!Stored(b0, 0, t)
           b2 == L!Stored(b1, 0, n)
           w == Characters(b2, p)
<1>1. l \in Nat /\ l >= 1 /\ l <= 17 /\ p \in Nat /\ p <= 17 /\ l <= p
  <2>1. l \in Nat /\ l >= 1 /\ l <= 17
    <3>1. \A i \in 1..17 : i \in Nat /\ i >= 1 /\ i <= 17
      OBVIOUS
    <3> QED BY <3>1, Zenon
  <2>2. p \in Nat /\ p <= 17 /\ l <= p
    BY <2>1
  <2> QED BY <2>1, <2>2
<1>2. Len(t) = 24 /\ \A i \in 1..24 : t[i] = "0"
  BY ZerosAre
<1> HIDE DEF t
<1>3. IsStored(b1, b0, 0, t)
  BY <1>2, StoredAt
<1> HIDE DEF b1
<1>4. DOMAIN b1 = 0..64 /\ \A i \in 0..16 : b1[i] = "0"
  <2>1. /\ DOMAIN b1 = 0..64
        /\ \A j \in 1..Len(t) : (0 - 1) + j \in 0..64 => b1[(0 - 1) + j] = t[j]
    BY <1>3, Zenon DEF IsStored
  <2>2. ASSUME NEW i \in 0..16 PROVE b1[i] = "0"
    <3>1. i + 1 \in 1..24 /\ (0 - 1) + (i + 1) = i /\ i \in 0..64
      OBVIOUS
    <3>2. b1[i] = t[i + 1]
      BY <1>2, <2>1, <3>1
    <3> QED BY <1>2, <3>1, <3>2
  <2> QED BY <2>1, <2>2
<1>5. IsStored(b2, b1, 0, n)
  BY <1>1, <1>4, StoredAt
<1> HIDE DEF b2
<1>6. w = [i \in 1..p |-> w[i]] /\ \A i \in 1..p : w[i] = b2[i - 1]
  BY CharactersAre
<1> HIDE DEF w
<1>7. /\ \A i \in 1..l : w[i] = n[i]
      /\ \A i \in (l + 1)..p : w[i] = "0"
  <2>1. /\ \A j \in 1..Len(n) : (0 - 1) + j \in 0..64 => b2[(0 - 1) + j] = n[j]
        /\ \A i \in 0..64 : i < 0 \/ 0 + Len(n) <= i => b2[i] = b1[i]
    BY <1>5, Zenon DEF IsStored
  <2>2. ASSUME NEW i \in 1..l PROVE w[i] = n[i]
    <3>1. i \in 1..p /\ (0 - 1) + i = i - 1 /\ i - 1 \in 0..64
      BY <1>1
    <3> QED BY <1>6, <2>1, <3>1
  <2>3. ASSUME NEW i \in (l + 1)..p PROVE w[i] = "0"
    <3>1. i \in 1..p /\ i - 1 \in 0..64 /\ 0 + l <= i - 1 /\ i - 1 \in 0..16
      BY <1>1
    <3>2. w[i] = b2[i - 1] /\ b2[i - 1] = b1[i - 1]
      BY <1>6, <2>1, <3>1
    <3> QED BY <1>4, <3>1, <3>2
  <2> QED BY <2>2, <2>3
<1>8. w \in Seq(Digits) /\ Len(w) = p
  <2>1. ASSUME NEW i \in 1..p PROVE w[i] \in Digits
    <3>1. CASE i \in 1..l
      <4>1. n[i] \in Digits
        BY <3>1, ElementOfSeq
      <4> QED BY <1>7, <3>1, <4>1
    <3>2. CASE i \notin 1..l
      <4>1. i \in (l + 1)..p
        BY <1>1, <3>2
      <4> QED BY <1>7, <4>1, ZeroIsDigit
    <3> QED BY <3>1, <3>2
  <2>2. w \in [1..p -> Digits]
    BY <1>6, <2>1, Zenon
  <2> QED BY <1>1, <2>2
<1>9. w \o <<>> = w
  BY <1>8, ConcatEmptySeq
<1>10. Between(w, n, 0, p - l)
  <2>1. /\ p - l \in Nat /\ Len(w) = 0 + l + (p - l) /\ 0 \in Nat
    BY <1>1, <1>8
  <2>2. ASSUME NEW i \in 1..0 PROVE FALSE
    OBVIOUS
  <2>3. ASSUME NEW i \in 1..l PROVE w[0 + i] = n[i]
    <3>1. 0 + i = i
      BY <1>1
    <3> QED BY <1>7, <3>1
  <2>4. ASSUME NEW i \in (0 + l + 1)..Len(w) PROVE w[i] = "0"
    <3>1. i \in (l + 1)..p
      BY <1>1, <1>8
    <3> QED BY <1>7, <3>1
  <2> DEFINE z == p - l
  <2> HIDE DEF z
  <2>5. Between(w, n, 0, z)
    <3>1. z \in Nat /\ Len(w) = 0 + l + z
      BY <2>1 DEF z
    <3> QED BY <1>8, <2>1, <2>2, <2>3, <2>4, <3>1, Zenon DEF Between
  <2> QED BY <2>5 DEF z
<1>11. w # <<>>
  BY <1>1, <1>8, NoSequence
<1>12. w = Text(w, <<>>, <<>>)
  <2>1. <<>> \in Seq(Digits)
    OBVIOUS
  <2> QED BY <1>8, <2>1, TextForms
<1>13. ScaleOf(<<>>) + Len(w) = 0 + Len(n) + (p - l)
  BY <1>1, <1>8, NoExponent
<1>14. <<>> \in Seq(Digits) /\ 0 \in Int
  OBVIOUS
<1>15. Shows(w, n, p - l)
  <2>1. Between(w \o <<>>, n, 0, p - l)
    BY <1>9, <1>10, Zenon
  <2> QED BY <1>8, <1>11, <1>12, <1>13, <1>14, <2>1, NoExponent, Zenon DEF Shows
<1> QED BY <1>15 DEF w, b2, b1, t

LEMMA BetweenNothing == ASSUME NEW n \in Seq(Digits) PROVE Between(n, n, 0, 0)
BY LenProperties DEF Between

(* d.igitse+123                                                             *)
IsScientific(e, l, y) == e \in Exponents /\ y = (e + 1) - l

WithExponent(b0, n, l, e) ==
    LET b1 == L!Stored(b0, 1, n)
        first == L!Stored(b1, 0, <<b1[1]>>)
        mantissa == IF l = 1 THEN first ELSE L!Stored(first, 1, <<".">>)
        end == IF l = 1 THEN 1 ELSE 1 + l
        exp == L!ExponentText(e)
    IN  Characters(L!Stored(mantissa, end, exp), end + Len(exp))

LEMMA Scientific ==
    ASSUME NEW b0, DOMAIN b0 = 0..64, NEW n \in Seq(Digits), NEW l, l = Len(n), l \in 1..17,
           NEW y, NEW e, IsScientific(e, l, y)
    PROVE  Shows(WithExponent(b0, n, l, e), n, y)
<1> DEFINE b1 == L!Stored(b0, 1, n)
           first == L!Stored(b1, 0, <<b1[1]>>)
           mantissa == IF l = 1 THEN first ELSE L!Stored(first, 1, <<".">>)
           end == IF l = 1 THEN 1 ELSE 1 + l
           exp == L!ExponentText(e)
           b4 == L!Stored(mantissa, end, exp)
           h == end + Len(exp)
           g == Characters(b4, h)
           S == Digits \cup {".", "e", "+", "-"}
<1>0. e \in Exponents /\ e \in Int /\ y = (e + 1) - l
  BY DEF IsScientific, Exponents
<1>1. l \in Nat /\ l >= 1 /\ l <= 17
  <2>1. \A i \in 1..17 : i \in Nat /\ i >= 1 /\ i <= 17
    OBVIOUS
  <2> QED BY <2>1, Zenon
<1>2. Digits \subseteq S /\ Signs \subseteq S /\ "." \in S /\ "e" \in S
  BY DEF Signs
<1> HIDE DEF S
<1>3. PICK x \in Seq(Digits \cup Signs) :
          /\ exp = <<"e">> \o x /\ x # <<>> /\ Len(x) \in 2..4
          /\ L!Unsigned(x) \in Seq(Digits) /\ ScaleOf(x) = e
  BY <1>0, ExponentIsRead, Zenon
<1> HIDE DEF exp
<1>4. /\ x \in Seq(S) /\ Len(exp) = Len(x) + 1 /\ exp[1] = "e"
      /\ \A i \in 1..Len(x) : exp[i + 1] = x[i]
  <2> DEFINE X == Digits \cup Signs
             p == <<"e">>
  <2>1. X \subseteq S /\ x \in Seq(X)
    BY <1>2
  <2> HIDE DEF X
  <2>2. x \in Seq(S) /\ Len(x) \in Nat
    BY <2>1
  <2>3. p \in Seq(S) /\ Len(p) = 1 /\ p[1] = "e"
    BY <1>2
  <2> HIDE DEF p
  <2>4. Joins(exp, p, x, S)
    <3>1. exp = p \o x
      BY <1>3 DEF p
    <3> QED BY <2>2, <2>3, <3>1, PartsOfJoin
  <2>5. Len(exp) = 1 + Len(x) /\ (\A i \in 1..1 : exp[i] = p[i])
        /\ \A i \in 1..Len(x) : exp[1 + i] = x[i]
    BY <2>3, <2>4 DEF Joins
  <2>6. 1 \in 1..1 /\ \A i \in 1..Len(x) : 1 + i = i + 1
    BY <2>2
  <2> QED BY <2>2, <2>3, <2>5, <2>6
<1>5. DOMAIN b1 = 0..64 /\ \A i \in 1..l : b1[i] = n[i]
  <2>1. IsStored(b1, b0, 1, n)
    BY <1>1, StoredAt
  <2> HIDE DEF b1
  <2>2. /\ DOMAIN b1 = 0..64
        /\ \A j \in 1..Len(n) : (1 - 1) + j \in 0..64 => b1[(1 - 1) + j] = n[j]
    BY <2>1, Zenon DEF IsStored
  <2>3. ASSUME NEW i \in 1..l PROVE b1[i] = n[i]
    <3>1. (1 - 1) + i = i /\ i \in 0..64
      BY <1>1
    <3> QED BY <2>2, <3>1
  <2> QED BY <2>2, <2>3
<1> HIDE DEF b1
<1>6. DOMAIN first = 0..64 /\ first[0] = n[1] /\ \A i \in 1..l : first[i] = n[i]
  <2>1. IsPut(first, b1, 0, b1[1])
    BY <1>5, PointStored
  <2> HIDE DEF first
  <2>2. DOMAIN first = 0..64 /\ \A i \in 0..64 : first[i] = IF i = 0 THEN b1[1] ELSE b1[i]
    BY <2>1, Zenon DEF IsPut
  <2>3. 0 \in 0..64 /\ 1 \in 1..l /\ \A i \in 1..l : i \in 0..64 /\ i # 0
    BY <1>1
  <2> QED BY <1>5, <2>2, <2>3
<1> HIDE DEF first
<1>7. /\ DOMAIN mantissa = 0..64 /\ end \in Nat /\ end >= 1 /\ end <= 18
      /\ \E w \in Seq(Digits), f \in Seq(Digits) :
            /\ w # <<>> /\ Len(w) = 1 /\ Between(w \o f, n, 0, 0)
            /\ w \o Fraction(f) \in Seq(S) /\ Len(w \o Fraction(f)) = end
            /\ \A i \in 1..end : (w \o Fraction(f))[i] = mantissa[i - 1]
  <2>1. CASE l = 1
    <3>1. mantissa = first /\ end = 1
      BY <2>1, Zenon
    <3> HIDE DEF mantissa, end
    <3>2. n \o <<>> = n /\ n # <<>> /\ <<>> \in Seq(Digits) /\ Fraction(<<>>) = <<>>
      <4>1. n \o <<>> = n
        BY ConcatEmptySeq
      <4>2. n # <<>>
        BY <1>1, NoSequence
      <4>3. Fraction(<<>>) = <<>>
        BY Zenon DEF Fraction
      <4> QED BY <4>1, <4>2, <4>3
    <3>3. Between(n, n, 0, 0)
      BY BetweenNothing
    <3>4. n \in Seq(S)
      BY <1>2
    <3>5. ASSUME NEW i \in 1..1 PROVE n[i] = mantissa[i - 1]
      <4>1. i = 1 /\ i - 1 = 0
        OBVIOUS
      <4> QED BY <1>6, <3>1, <4>1
    <3>6. 1 \in Nat /\ 1 >= 1 /\ 1 <= 18
      OBVIOUS
    <3>7. n \in Seq(Digits) /\ Len(n) = 1
      BY <2>1
    <3>8. /\ Between(n \o <<>>, n, 0, 0)
          /\ n \o Fraction(<<>>) \in Seq(S) /\ Len(n \o Fraction(<<>>)) = 1
          /\ \A i \in 1..1 : (n \o Fraction(<<>>))[i] = mantissa[i - 1]
      <4>1. n \o Fraction(<<>>) = n
        BY <3>2, Zenon
      <4>2. \A i \in 1..1 : n[i] = mantissa[i - 1]
        BY <3>5
      <4> QED BY <3>2, <3>3, <3>4, <3>7, <4>1, <4>2
    <3> QED BY <1>6, <3>1, <3>2, <3>6, <3>7, <3>8, Zenon
  <2>2. CASE l # 1
    <3> DEFINE m == l - 1
               w == <<n[1]>>
               f == [i \in 1..m |-> n[i + 1]]
               s == w \o (<<".">> \o f)
    <3>1. mantissa = L!Stored(first, 1, <<".">>) /\ end = 1 + l
      BY <2>2, Zenon
    <3>2. IsPut(mantissa, first, 1, ".")
      BY <1>6, <3>1, PointStored
    <3> HIDE DEF mantissa
    <3>3. /\ DOMAIN mantissa = 0..64
          /\ \A i \in 0..64 : mantissa[i] = IF i = 1 THEN "." ELSE first[i]
      BY <3>2, Zenon DEF IsPut
    <3>4. m \in Nat /\ m >= 1 /\ m = l - 1 /\ l = m + 1
      BY <1>1, <2>2
    <3>5. end \in Nat /\ end >= 1 /\ end <= 18 /\ end = m + 2
      BY <1>1, <3>1
    <3> HIDE DEF end
    <3>6. \A i \in 1..l : n[i] \in Digits
      BY ElementOfSeq
    <3>7. w \in Seq(Digits) /\ Len(w) = 1 /\ w[1] = n[1]
      <4>1. n[1] \in Digits
        BY <1>1, <3>6
      <4> QED BY <4>1
    <3>8. f \in Seq(Digits) /\ Len(f) = m /\ \A i \in 1..m : f[i] = n[i + 1]
      <4>1. \A i \in 1..m : i + 1 \in 1..l
        BY <3>4
      <4>2. f \in [1..m -> Digits]
        BY <3>6, <4>1
      <4>3. \A i \in 1..m : f[i] = n[i + 1]
        BY Zenon
      <4> HIDE DEF f, m
      <4>4. f \in Seq(Digits) /\ Len(f) = m
        BY <3>4, <4>2
      <4> QED BY <4>3, <4>4
    <3> HIDE DEF w, f, m
    <3>9. /\ s \in Seq(S) /\ Len(s) = end
          /\ s[1] = w[1] /\ s[2] = "." /\ \A i \in 1..m : s[i + 2] = f[i]
      <4>1. w \in Seq(S) /\ f \in Seq(S)
        BY <1>2, <3>7, <3>8
      <4>2. JoinsWith(s, w, ".", f, S)
        BY <1>2, <4>1, PartsWith
      <4> HIDE DEF s
      <4>3. /\ s \in Seq(S) /\ Len(s) = 1 + m + 1
            /\ \A i \in 1..1 : s[i] = w[i]
            /\ s[1 + 1] = "."
            /\ \A i \in 1..m : s[1 + 1 + i] = f[i]
        BY <3>7, <3>8, <4>2 DEF JoinsWith
      <4>4. 1 \in 1..1 /\ 1 + 1 = 2 /\ 1 + m + 1 = end /\ \A i \in 1..m : 1 + 1 + i = i + 2
        BY <3>4, <3>5
      <4> QED BY <4>3, <4>4
    <3>10. ASSUME NEW i \in 1..end PROVE s[i] = mantissa[i - 1]
      <4>1. CASE i = 1
        <5>1. i - 1 = 0 /\ 0 \in 0..64 /\ 0 # 1
          BY <4>1
        <5> QED BY <1>6, <3>3, <3>7, <3>9, <4>1, <5>1
      <4>2. CASE i = 2
        <5>1. i - 1 = 1 /\ 1 \in 0..64
          BY <4>2
        <5> QED BY <3>3, <3>9, <4>2, <5>1
      <4>3. CASE i # 1 /\ i # 2
        <5>1. /\ i - 2 \in 1..m /\ (i - 2) + 2 = i /\ (i - 2) + 1 = i - 1
              /\ i - 1 \in 0..64 /\ i - 1 # 1 /\ i - 1 \in 1..l
          BY <1>1, <3>4, <3>5, <4>3
        <5>2. s[i] = f[i - 2] /\ f[i - 2] = n[i - 1]
          BY <3>8, <3>9, <5>1
        <5>3. mantissa[i - 1] = first[i - 1] /\ first[i - 1] = n[i - 1]
          BY <1>6, <3>3, <5>1
        <5> QED BY <5>2, <5>3
      <4> QED BY <4>1, <4>2, <4>3
    <3>11. f # <<>> /\ w # <<>>
      <4>1. f # <<>>
        BY <3>4, <3>8, NoSequence
      <4>2. w # <<>>
        <5>1. Len(w) >= 1
          BY <3>7
        <5> QED BY <3>7, <5>1, NoSequence
      <4> QED BY <4>1, <4>2
    <3>12. w \o Fraction(f) = s
      BY <3>11, Zenon DEF Fraction
    <3>13. Between(w \o f, n, 0, 0)
      <4> DEFINE d == w \o f
      <4>1. Joins(d, w, f, Digits)
        BY <3>7, <3>8, PartsOfJoin
      <4> HIDE DEF d
      <4>2. /\ d \in Seq(Digits) /\ Len(d) = 1 + m
            /\ (\A i \in 1..1 : d[i] = w[i]) /\ \A i \in 1..m : d[1 + i] = f[i]
        BY <3>7, <3>8, <4>1 DEF Joins
      <4>3. Len(d) = Len(n)
        BY <3>4, <4>2
      <4>4. ASSUME NEW i \in 1..Len(d) PROVE d[i] = n[i]
        <5>1. CASE i = 1
          <6>1. 1 \in 1..1
            OBVIOUS
          <6> QED BY <3>7, <4>2, <5>1, <6>1
        <5>2. CASE i # 1
          <6>1. i - 1 \in 1..m /\ 1 + (i - 1) = i /\ (i - 1) + 1 = i
            BY <3>4, <4>2, <5>2
          <6> QED BY <3>8, <4>2, <6>1
        <5> QED BY <5>1, <5>2
      <4>5. d = n
        BY <4>2, <4>3, <4>4, SeqEqual
      <4> QED BY <4>5, BetweenNothing DEF d
    <3> HIDE DEF s
    <3> QED BY <3>3, <3>5, <3>7, <3>8, <3>9, <3>10, <3>11, <3>12, <3>13, Zenon
  <2> QED BY <2>1, <2>2
<1> HIDE DEF mantissa, end
<1>a. end \in Nat /\ end >= 1 /\ end <= 18
  BY <1>7
<1>8. PICK w \in Seq(Digits), f \in Seq(Digits) :
          /\ w # <<>> /\ Len(w) = 1 /\ Between(w \o f, n, 0, 0)
          /\ w \o Fraction(f) \in Seq(S) /\ Len(w \o Fraction(f)) = end
          /\ \A i \in 1..end : (w \o Fraction(f))[i] = mantissa[i - 1]
  BY <1>7, Zenon
<1> DEFINE s == w \o Fraction(f)
<1>9. s \in Seq(S) /\ Len(s) = end /\ \A i \in 1..end : s[i] = mantissa[i - 1]
  BY <1>8
<1> HIDE DEF s
<1>10. IsStored(b4, mantissa, end, exp)
  <2>1. end \in Int /\ Len(exp) \in Nat
    BY <1>3, <1>4, <1>a
  <2> QED BY <1>7, <2>1, StoredAt
<1> HIDE DEF b4
<1>11. /\ \A j \in 1..Len(exp) : (end - 1) + j \in 0..64 => b4[(end - 1) + j] = exp[j]
       /\ \A i \in 0..64 : i < end \/ end + Len(exp) <= i => b4[i] = mantissa[i]
  BY <1>10, Zenon DEF IsStored
<1> DEFINE r == Len(x)
<1>12. r \in Nat /\ r >= 2 /\ r <= 4 /\ Len(exp) = r + 1
  <2>1. \A i \in 2..4 : i \in Nat /\ i >= 2 /\ i <= 4
    OBVIOUS
  <2>2. Len(x) \in 2..4
    BY <1>3
  <2>3. r \in Nat /\ r >= 2 /\ r <= 4
    BY <2>1, <2>2, Zenon
  <2>4. Len(exp) = r + 1
    BY <1>4
  <2> QED BY <2>3, <2>4, Zenon
<1> HIDE DEF r
<1>13. h \in Nat /\ h <= 64 /\ h = end + r + 1
  BY <1>a, <1>12
<1>14. g = [i \in 1..h |-> g[i]] /\ \A i \in 1..h : g[i] = b4[i - 1]
  <2> HIDE DEF h
  <2> QED BY CharactersAre
<1> HIDE DEF g, h
<1>15. ASSUME NEW i \in 1..end PROVE g[i] = s[i]
  <2>1. i \in 1..h /\ i - 1 \in 0..64 /\ i - 1 < end
    BY <1>a, <1>12, <1>13
  <2> QED BY <1>9, <1>11, <1>14, <2>1
<1>16. g[end + 1] = "e"
  <2>1. /\ end + 1 \in 1..h /\ (end + 1) - 1 = end /\ 1 \in 1..(r + 1)
        /\ (end - 1) + 1 = end /\ end \in 0..64
    BY <1>a, <1>12, <1>13
  <2>2. g[end + 1] = b4[end]
    BY <1>14, <2>1
  <2>3. b4[end] = exp[1]
    BY <1>11, <1>12, <2>1
  <2> QED BY <1>4, <2>2, <2>3
<1>17. ASSUME NEW i \in 1..r PROVE g[end + 1 + i] = x[i]
  <2>1. /\ end + 1 + i \in 1..h /\ (end + 1 + i) - 1 = end + i
        /\ i + 1 \in 1..(r + 1) /\ (end - 1) + (i + 1) = end + i /\ end + i \in 0..64
    BY <1>a, <1>12, <1>13
  <2>2. g[end + 1 + i] = b4[end + i]
    BY <1>14, <2>1
  <2>3. b4[end + i] = exp[i + 1]
    BY <1>11, <1>12, <2>1
  <2>4. exp[i + 1] = x[i]
    BY <1>4 DEF r
  <2> QED BY <2>2, <2>3, <2>4
<1>18. g = s \o (<<"e">> \o x)
  <2>1. HasParts(g, h, s, "e", x)
    BY <1>9, <1>13, <1>14, <1>15, <1>16, <1>17, Zenon DEF HasParts, r
  <2> QED BY <1>2, <1>4, <1>9, <2>1, JoinedWith
<1>19. g = Text(w, f, x)
  BY <1>3, <1>18, Zenon DEF Text, Exponent, s
<1>20. ScaleOf(x) + Len(w) = 0 + Len(n) + y
  <2>1. ScaleOf(x) = e /\ Len(w) = 1
    BY <1>3, <1>8, Zenon
  <2>2. e + 1 = 0 + l + ((e + 1) - l)
    BY <1>0, <1>1
  <2> QED BY <1>0, <2>1, <2>2, Zenon
<1>21. ScaleOf(x) \in Int
  BY <1>0, <1>3
<1>22. Shows(g, n, y)
  BY <1>3, <1>8, <1>19, <1>20, <1>21, Zenon DEF Shows
<1>23. WithExponent(b0, n, l, e) = g
  BY Zenon DEF WithExponent, g, h, b4, exp, end, mantissa, first, b1
<1> QED BY <1>22, <1>23, Zenon

(* FormatDigits writes every decimal in one of these four ways.             *)
LEMMA TextOfDecimal ==
    ASSUME NEW v \in Nat \ {0}, v < L!Pow10[17], NEW x \in Exponents,
           L!DecimalLength(v) + x <= 1000
    PROVE  Shows(L!Dtoa(FALSE, [digits |-> v, exponent |-> x]), L!DecimalDigits(v), x)
<1> DEFINE n == L!DecimalDigits(v)
           l == L!DecimalLength(v)
           p == l + x
           b0 == L!Stored(L!NewBuf, 0, <<>>)
           P(b, at) == L!PrintDecimalDigits(b, at, v, l)
           F == L!FormatDigits(b0, 0, v, x)
<1>1. n \in Seq(Digits) /\ l = Len(n) /\ l \in 1..17
  BY DecimalDigitsFacts, DecimalLengthIs
<1>2. DOMAIN b0 = 0..64
  <2>1. DOMAIN L!NewBuf = 0..64
    BY DEF L!NewBuf, L!DtoaMinBufferLength
  <2>2. Len(<<>>) \in Nat
    OBVIOUS
  <2>3. IsStored(b0, L!NewBuf, 0, <<>>)
    BY <2>1, <2>2, StoredAt
  <2> QED BY <2>3, Zenon DEF IsStored
<1>3. \A b : \A at \in Int : P(b, at) = L!Stored(b, at, n)
  BY Printed
<1>4. L!Dtoa(FALSE, [digits |-> v, exponent |-> x]) = Characters(F.buf, F.end)
  <2> DEFINE dec == [digits |-> v, exponent |-> x]
  <2>1. dec.digits = v /\ dec.exponent = x
    OBVIOUS
  <2> HIDE DEF dec
  <2>2. L!Dtoa(FALSE, dec) = Characters(F.buf, F.end)
    BY <2>1, Zenon DEF L!Dtoa, Characters
  <2> QED BY <2>2 DEF dec
<1> HIDE DEF b0, n, l
<1>5. /\ l \in Nat /\ l >= 1 /\ l <= 17 /\ x \in Int /\ x >= -999
      /\ p \in Int /\ p = l + x /\ p <= 1000
  <2>1. l \in Nat /\ l >= 1 /\ l <= 17
    <3>1. \A i \in 1..17 : i \in Nat /\ i >= 1 /\ i <= 17
      OBVIOUS
    <3> QED BY <1>1, <3>1, Zenon
  <2>2. x \in Int /\ x >= -999
    BY DEF Exponents
  <2>3. p \in Int
    BY <2>1, <2>2
  <2>4. p = l + x
    BY Zenon
  <2>5. p <= 1000
    BY Zenon DEF l
  <2> HIDE DEF p
  <2> QED BY <2>1, <2>2, <2>3, <2>4, <2>5
<1>6. p - l = x
  BY <1>5
<1>7. CASE p \notin -6..17
  <2> DEFINE e == p - 1
             exp == L!ExponentText(e)
             end == IF l = 1 THEN 0 + 1 ELSE 0 + 1 + l
             b1 == P(b0, 0 + 1)
             first == L!Stored(b1, 0, <<b1[0 + 1]>>)
             mantissa == IF l = 1 THEN first ELSE L!Stored(first, 0 + 1, <<".">>)
             c1 == L!Stored(b0, 1, n)
             c2 == L!Stored(c1, 0, <<c1[1]>>)
             c3 == IF l = 1 THEN c2 ELSE L!Stored(c2, 1, <<".">>)
             c4 == IF l = 1 THEN 1 ELSE 1 + l
  <2>1. F.buf = L!Stored(mantissa, end, exp) /\ F.end = end + Len(exp)
    BY <1>7, Zenon
    DEF L!FormatDigits, L!MinFixedDecimalPoint, L!MaxFixedDecimalPoint, l
  <2>2. b1 = c1 /\ 0 + 1 = 1
    <3>1. 0 + 1 = 1 /\ 1 \in Int
      OBVIOUS
    <3> QED BY <1>3, <3>1, Zenon
  <2>3. mantissa = c3 /\ end = c4
    <3>1. first = c2
      BY <2>2, Zenon
    <3> QED BY <2>2, <3>1, Zenon
  <2>4. e \in -999..999 /\ (e + 1) - l = x
    BY <1>5
  <2>5. Shows(Characters(L!Stored(c3, c4, exp), c4 + Len(exp)), n, x)
    <3>1. Shows(WithExponent(b0, n, l, e), n, x)
      <4> HIDE DEF e
      <4>1. IsScientific(e, l, x)
        BY <2>4 DEF IsScientific, Exponents
      <4> QED BY <1>1, <1>2, <4>1, Scientific
    <3>2. WithExponent(b0, n, l, e) = Characters(L!Stored(c3, c4, exp), c4 + Len(exp))
      BY Zenon DEF WithExponent
    <3> QED BY <3>1, <3>2, Zenon
  <2> HIDE DEF c3, c4, exp, mantissa, end, F, e
  <2> QED BY <1>4, <2>1, <2>3, <2>4, <2>5, Zenon DEF n
<1>8. CASE p \in -6..17 /\ p <= 0
  <2>1. /\ F.buf = L!Stored(P(L!Stored(b0, 0, [i \in 1..8 |-> "0"]), 0 + 2 - p), 0 + 1, <<".">>)
        /\ F.end = 0 + 2 - p + l
    BY <1>8, Zenon
    DEF L!FormatDigits, L!MinFixedDecimalPoint, L!MaxFixedDecimalPoint, l
  <2>2. 0 + 2 - p = 2 - p /\ 0 + 1 = 1 /\ 2 - p \in Int /\ 0 + 2 - p + l = 2 - p + l
        /\ p \in -6..0
    BY <1>5, <1>8
  <2> HIDE DEF F, p
  <2>3. /\ F.buf = L!Stored(L!Stored(L!Stored(b0, 0, ZeroDigits(8)), 2 - p, n), 1, <<".">>)
        /\ F.end = 2 - p + l
    <3> DEFINE c == L!Stored(b0, 0, ZeroDigits(8))
    <3>1. F.buf = L!Stored(P(c, 0 + 2 - p), 0 + 1, <<".">>)
      BY <2>1, Zenon DEF ZeroDigits
    <3> HIDE DEF c
    <3>2. P(c, 2 - p) = L!Stored(c, 2 - p, n)
      BY <1>3, <2>2, Zenon
    <3>3. F.buf = L!Stored(L!Stored(c, 2 - p, n), 1, <<".">>)
      BY <2>2, <3>1, <3>2, Zenon
    <3> QED BY <2>1, <2>2, <3>3, Zenon DEF c
  <2>4. Shows(Characters(L!Stored(L!Stored(L!Stored(b0, 0, ZeroDigits(8)), 2 - p, n), 1, <<".">>),
                         2 - p + l), n, p - l)
    BY <1>1, <1>2, <2>2, LeadingZeros
  <2> QED BY <1>4, <1>6, <2>3, <2>4, Zenon DEF n, p
<1>9. CASE p \in -6..17 /\ ~(p <= 0) /\ p < l
  <2> DEFINE b1 == P(b0, 0)
             moved == [i \in 1..16 |-> b1[0 + p + i - 1]]
             c1 == L!Stored(b0, 0, n)
             c2 == [i \in 1..16 |-> c1[p + i - 1]]
             c3 == WithPoint(b0, n, p)
  <2>1. /\ F.buf = L!Stored(L!Stored(b1, 0 + p + 1, moved), 0 + p, <<".">>)
        /\ F.end = 0 + l + 1
    BY <1>9, Zenon
    DEF L!FormatDigits, L!MinFixedDecimalPoint, L!MaxFixedDecimalPoint, l
  <2>2. /\ 0 + p = p /\ 0 + p + 1 = p + 1 /\ 0 + l + 1 = l + 1 /\ 0 \in Int
        /\ p \in 1..(l - 1)
    BY <1>5, <1>9
  <2> HIDE DEF F, p
  <2>3. b1 = c1
    BY <1>3, <2>2, Zenon
  <2>4. moved = c2
    BY <2>2, <2>3, Zenon
  <2>5. F.buf = c3 /\ F.end = l + 1
    <3>1. F.buf = L!Stored(L!Stored(c1, p + 1, c2), p, <<".">>)
      BY <2>1, <2>2, <2>3, <2>4, Zenon
    <3>2. c3 = L!Stored(L!Stored(c1, p + 1, c2), p, <<".">>)
      BY Zenon DEF WithPoint
    <3> QED BY <2>1, <2>2, <3>1, <3>2, Zenon
  <2>6. Shows(Characters(c3, l + 1), n, p - l)
    BY <1>1, <1>2, <2>2, PointWithin
  <2> QED BY <1>4, <1>6, <2>5, <2>6, Zenon DEF n, p
<1>10. CASE p \in -6..17 /\ ~(p <= 0) /\ ~(p < l)
  <2>1. /\ F.buf = P(L!Stored(b0, 0, [i \in 1..24 |-> "0"]), 0)
        /\ F.end = 0 + p
    BY <1>10, Zenon
    DEF L!FormatDigits, L!MinFixedDecimalPoint, L!MaxFixedDecimalPoint, l
  <2>2. 0 + p = p /\ 0 \in Int /\ p \in l..17
    BY <1>5, <1>10
  <2> HIDE DEF F, p
  <2>3. /\ F.buf = L!Stored(L!Stored(b0, 0, ZeroDigits(24)), 0, n)
        /\ F.end = p
    BY <1>3, <2>1, <2>2, Zenon DEF ZeroDigits
  <2>4. Shows(Characters(L!Stored(L!Stored(b0, 0, ZeroDigits(24)), 0, n), p), n, p - l)
    BY <1>1, <1>2, <2>2, TrailingZeros
  <2> QED BY <1>4, <1>6, <2>3, <2>4, Zenon DEF n, p
<1> QED BY <1>7, <1>8, <1>9, <1>10

(* Only the digits and the exponent of a decimal count.                     *)
LEMMA TextOfRecord ==
    ASSUME NEW dec, NEW v, NEW x, dec.digits = v, dec.exponent = x
    PROVE  L!Dtoa(FALSE, dec) = L!Dtoa(FALSE, [digits |-> v, exponent |-> x])
<1> DEFINE d == [digits |-> v, exponent |-> x]
<1>1. d.digits = v /\ d.exponent = x
  OBVIOUS
<1> HIDE DEF d
<1>2. L!Dtoa(FALSE, dec) = L!Dtoa(FALSE, d)
  BY <1>1, Zenon DEF L!Dtoa
<1> QED BY <1>2 DEF d

(* What is shown is a sequence.                                             *)
LEMMA ShownIsSequence ==
    ASSUME NEW t, NEW n, NEW y, Shows(t, n, y)
    PROVE  <<>> \o t = t
<1> DEFINE S == Digits \cup {".", "e", "+", "-"}
<1>1. PICK w \in Seq(Digits), f \in Seq(Digits), x \in Seq(Digits \cup Signs) : t = Text(w, f, x)
  BY Zenon DEF Shows
<1>2. "." \in S /\ "e" \in S /\ Digits \subseteq S /\ Digits \cup Signs \subseteq S
  BY DEF Signs
<1> DEFINE D == Digits
           X == Digits \cup Signs
<1>3. D \subseteq S /\ X \subseteq S /\ w \in Seq(D) /\ f \in Seq(D) /\ x \in Seq(X)
  BY <1>2
<1> HIDE DEF S, D, X
<1>4. w \in Seq(S) /\ f \in Seq(S) /\ x \in Seq(S)
  BY <1>3
<1>5. Fraction(f) \in Seq(S) /\ Exponent(x) \in Seq(S)
  <2>1. <<>> \in Seq(S) /\ <<".">> \in Seq(S) /\ <<"e">> \in Seq(S)
    BY <1>2
  <2>2. <<".">> \o f \in Seq(S) /\ <<"e">> \o x \in Seq(S)
    BY <1>4, <2>1, PartsOfJoin DEF Joins
  <2> QED BY <2>1, <2>2, Zenon DEF Fraction, Exponent
<1>6. t \in Seq(S)
  <2>1. w \o Fraction(f) \in Seq(S)
    BY <1>4, <1>5, PartsOfJoin DEF Joins
  <2>2. (w \o Fraction(f)) \o Exponent(x) \in Seq(S)
    BY <1>5, <2>1, PartsOfJoin DEF Joins
  <2> QED BY <1>1, <2>2, Zenon DEF Text
<1> QED BY <1>6, ConcatEmptySeq

(* What is shown is read back.                                              *)
LEMMA ShownIsRead ==
    ASSUME NEW t, NEW v \in Nat \ {0}, NEW y \in Int, Shows(t, L!DecimalDigits(v), y)
    PROVE  LET read == L!Reads(t)
           IN  /\ read.numeral /\ ~read.negative
               /\ read.exponent >= y
               /\ read.digits * L!Pow10[read.exponent - y] = v
<1> DEFINE n == L!DecimalDigits(v)
<1>1. n \in Seq(Digits) \ {<<>>} /\ n[1] # "0" /\ L!Number(n) = v
  BY DecimalDigitsFacts
<1>2. PICK w \in Seq(Digits), f \in Seq(Digits), x \in Seq(Digits \cup Signs) : \E k, z :
        /\ t = Text(w, f, x) /\ w # <<>>
        /\ L!Unsigned(x) \in Seq(Digits) /\ ScaleOf(x) \in Int
        /\ Between(w \o f, n, k, z)
        /\ ScaleOf(x) + Len(w) = k + Len(n) + y
  BY Zenon DEF Shows
<1>3. PICK k, z :
        /\ t = Text(w, f, x) /\ w # <<>>
        /\ L!Unsigned(x) \in Seq(Digits) /\ ScaleOf(x) \in Int
        /\ Between(w \o f, n, k, z)
        /\ ScaleOf(x) + Len(w) = k + Len(n) + y
  BY <1>2, Zenon
<1> HIDE DEF n
<1>4. n # <<>>
  BY <1>1
<1>5. LET read == L!Reads(Text(w, f, x))
      IN  /\ read.numeral /\ ~read.negative
          /\ read.exponent >= y
          /\ read.digits * L!Pow10[read.exponent - y] = L!Number(n)
  BY <1>1, <1>3, <1>4, DecimalIsRead
<1> QED BY <1>1, <1>3, <1>5, Zenon

(* FormatDigits shows each of the decimals that it is given directly.       *)
LEMMA TextOfInput ==
    ASSUME NEW dec \in DecimalInputs
    PROVE  /\ dec.digits \in Nat \ {0} /\ dec.exponent \in Int
           /\ Shows(L!Dtoa(FALSE, dec), L!DecimalDigits(dec.digits), dec.exponent)
           /\ <<>> \o L!Dtoa(FALSE, dec) = L!Dtoa(FALSE, dec)
<1> DEFINE v == dec.digits
           x == dec.exponent
<1>1. /\ v \in Nat \ {0} /\ v \div 100000000 <= 999999999
      /\ x \in Exponents /\ L!DecimalLength(v) + x <= 1000
  BY SingleThreadedAssumption, SMT DEF Exponents
<1> HIDE DEF v, x
<1>2. v \in Nat \ {0} /\ v < L!Pow10[17] /\ x \in Int
  <2>1. v < 100000000000000000
    BY <1>1, SMT
  <2>2. x \in Int
    BY <1>1 DEF Exponents
  <2> QED BY <1>1, <2>1, <2>2, SmallPowers, SMT
<1>3. L!Dtoa(FALSE, dec) = L!Dtoa(FALSE, [digits |-> v, exponent |-> x])
  BY TextOfRecord DEF v, x
<1>4. Shows(L!Dtoa(FALSE, [digits |-> v, exponent |-> x]), L!DecimalDigits(v), x)
  <2>1. v \in Nat \ {0} /\ x \in Exponents /\ L!DecimalLength(v) + x <= 1000
    BY <1>1, SMT
  <2> QED BY <1>2, <2>1, TextOfDecimal
<1>5. Shows(L!Dtoa(FALSE, dec), L!DecimalDigits(v), x)
  BY <1>3, <1>4, Zenon
<1>6. <<>> \o L!Dtoa(FALSE, dec) = L!Dtoa(FALSE, dec)
  BY <1>5, ShownIsSequence
<1> QED BY <1>2, <1>5, <1>6, Zenon DEF v, x

-----------------------------------------------------------------------------
(* The texts of LogStream.                                                  *)
(* The text of an integer stays what itoa_s made of it until resetBuf(),    *)
(* and that of a decimal what FormatDigits did.                             *)
DecimalText(dec, text) == dec \in DecimalInputs /\ text = L!Dtoa(FALSE, dec)

LogInv ==
    /\ inserted = L!None => buf_ = <<>> /\ conv.at = "idle"
    /\ inserted.kind = "integer" =>
          /\ conv.at = "idle"
          /\ inserted.integer \in Int /\ buf_ = L!itoa_s(inserted.integer)
    /\ inserted.kind = "decimal" =>
          /\ conv.at = "idle"
          /\ DecimalText(inserted.dec, buf_)

(* The log stream of SingleThreaded behaves as one on its own.              *)
LEMMA LogPart == Spec_ => L!Spec
<1>1. Init_ => L!Init
  BY DEF Init_
<1>2. [Next_]_<<part, vars, log, codec>> => [L!Next]_L!vars
  BY DEF Next_, log, L!vars
<1> QED BY <1>1, <1>2, PTL DEF Spec_, L!Spec

(* LogInv holds of every behaviour of LogStream: only an empty stream takes *)
(* a value (resetBuf comes before the next message), and what follows it    *)
(* leaves the text of an integer or of a decimal alone.                     *)
THEOREM LogInvariant == L!Spec => []LogInv
<1>0. \A i \in Int : <<>> \o L!itoa_s(i) = L!itoa_s(i)
  <2> SUFFICES ASSUME NEW i \in Int PROVE <<>> \o L!itoa_s(i) = L!itoa_s(i)
    OBVIOUS
  <2> DEFINE S == Digits \cup {"-"}
             s == L!Reversed[i] \o (IF i < 0 THEN <<"-">> ELSE <<>>)
  <2>1. L!Reversed[i] \in Seq(Digits)
    BY NumeralFacts
  <2>2. s \in Seq(S)
    <3>1. L!Reversed[i] \in Seq(S)
      BY <2>1
    <3>2. <<"-">> \in Seq(S) /\ <<>> \in Seq(S)
      OBVIOUS
    <3> HIDE DEF S
    <3> QED BY <3>1, <3>2
  <2> HIDE DEF s, S
  <2>3. L!Reverse(s) \in Seq(S)
    <3>1. "-" \in S
      BY DEF S
    <3> QED BY <2>2, <3>1, ReverseFacts
  <2>4. L!itoa_s(i) \in Seq(S)
    BY <2>3 DEF s, L!itoa_s
  <2> QED BY <2>4
<1>1. L!Init => LogInv
  BY DEF L!Init, LogInv, L!None, L!Idle
<1>2. LogInv /\ [L!Next]_L!vars => LogInv'
  <2> SUFFICES ASSUME LogInv, [L!Next]_L!vars PROVE LogInv'
    OBVIOUS
  <2>1. ASSUME NEW type \in IntegerTypes, NEW integer \in L!Integers_(type),
               L!InsertInteger(type, integer)
        PROVE  LogInv'
    <3>1. integer \in Int
      <4>1. /\ type.bits \in Nat \ {0}
            /\ IF type.signed THEN integer \in -(2 ^ (type.bits - 1))..(2 ^ (type.bits - 1) - 1)
               ELSE integer \in 0..(2 ^ type.bits - 1)
        BY SingleThreadedAssumption DEF L!Integers_
      <4> QED BY <4>1
    <3>2. /\ conv.at = "idle" /\ conv' = conv /\ buf_ = <<>>
          /\ inserted' = [kind |-> "integer", integer |-> integer]
          /\ buf_' = <<>> \o L!itoa_s(integer)
      BY <2>1 DEF L!InsertInteger, L!Ready, LogInv
    <3>3. inserted'.kind = "integer" /\ inserted'.integer = integer /\ inserted' # L!None
      BY <3>2 DEF L!None
    <3>4. buf_' = L!itoa_s(integer)
      BY <1>0, <3>1, <3>2
    <3>5. inserted'.kind # "decimal"
      BY <3>3
    <3> QED BY <3>1, <3>2, <3>3, <3>4, <3>5, Zenon DEF LogInv
  <2>2. ASSUME inserted' = [kind |-> "text"] \/ inserted' = [kind |-> "special"]
        PROVE  LogInv'
    BY <2>2 DEF LogInv, L!None
  <2>3. ASSUME NEW v, inserted' = [kind |-> "double", v |-> v] PROVE LogInv'
    BY <2>3 DEF LogInv, L!None
  <2>13. ASSUME NEW type \in IntegerTypes, NEW integer \in L!Integers_(type),
                L!OverrunInteger(type, integer)
         PROVE  LogInv'
    <3>1. inserted' = [kind |-> "overrun"]
      BY <2>13, Zenon DEF L!OverrunInteger
    <3> QED BY <3>1 DEF LogInv, L!None
  <2>4. ASSUME NEW dec \in DecimalInputs, L!InsertDecimal(dec) PROVE LogInv'
    <3>1. /\ conv.at = "idle" /\ conv' = conv /\ buf_ = <<>>
          /\ inserted' = [kind |-> "decimal", dec |-> dec]
          /\ buf_' = <<>> \o L!Dtoa(FALSE, dec)
      BY <2>4, Zenon DEF L!InsertDecimal, L!Ready, LogInv
    <3>2. inserted'.kind = "decimal" /\ inserted'.dec = dec /\ inserted' # L!None
          /\ inserted'.kind # "integer"
      BY <3>1 DEF L!None
    <3>3. DecimalText(inserted'.dec, buf_')
      BY <3>1, <3>2, TextOfInput, Zenon DEF DecimalText
    <3> QED BY <3>1, <3>2, <3>3, Zenon DEF LogInv
  <2>5. ASSUME L!resetBuf PROVE LogInv'
    BY <2>5 DEF L!resetBuf, LogInv, L!None
  <2>6. ASSUME conv.at # "idle", UNCHANGED <<buf_, inserted>> PROVE LogInv'
    BY <2>6, Zenon DEF LogInv
  <2>7. ASSUME L!FormatAndAppend PROVE LogInv'
    <3>1. conv.at # "idle" /\ inserted' = inserted
      BY <2>7 DEF L!FormatAndAppend
    <3> QED BY <3>1, Zenon DEF LogInv
  <2>8. ASSUME UNCHANGED L!vars PROVE LogInv'
    BY <2>8, Zenon DEF LogInv, L!vars
  <2>9. ASSUME NEW data \in BOOLEAN, L!InsertBool(data) PROVE LogInv'
    BY <2>2, <2>9 DEF L!InsertBool
  <2>10. ASSUME NEW pstr \in Texts, L!InsertText(pstr) PROVE LogInv'
    BY <2>2, <2>10 DEF L!InsertText
  <2>11. ASSUME NEW v \in L!Doubles,
                L!InsertSpecialDouble(v) \/ L!InsertDouble(v) \/ L!CallDragon4(v)
         PROVE  LogInv'
    <3>1. \/ inserted' = [kind |-> "special"]
          \/ inserted' = [kind |-> "double", v |-> v]
      BY <2>11, Zenon DEF L!InsertSpecialDouble, L!InsertDouble, L!CallDragon4
    <3> QED BY <2>2, <2>3, <3>1, Zenon
  <2>12. ASSUME L!Grisu3Step \/ L!Grisu3Returns \/ L!Dragon4Step \/ L!Dragon4Returns
         PROVE  LogInv'
    <3>1. conv.at # "idle" /\ UNCHANGED <<buf_, inserted>>
      <4>1. (conv.at = "grisu3" \/ conv.at = "dragon4") /\ UNCHANGED <<buf_, inserted>>
        BY <2>12, Zenon
        DEF L!Grisu3Step, L!Grisu3Returns, L!Dragon4Step, L!Dragon4Returns
      <4>2. "grisu3" # "idle" /\ "dragon4" # "idle"
        OBVIOUS
      <4> QED BY <4>1, <4>2, Zenon
    <3> QED BY <2>6, <3>1, Zenon
  <2> QED
    BY <2>1, <2>13, <2>4, <2>5, <2>7, <2>8, <2>9, <2>10, <2>11, <2>12, Zenon DEF L!Next
<1> QED BY <1>1, <1>2, PTL DEF L!Spec

(* The text of an integer, of the most negative one too, is its decimal     *)
(* numeral (itoa_s).                                                        *)
LEMMA IntegerIsRead == LogInv => L!IntegersReadBack
<1> SUFFICES ASSUME LogInv, L!Inserted("integer"), inserted.integer # 0
             PROVE  LET numeral == L!Unsigned(buf_)
                    IN  /\ numeral # <<>> /\ L!IsNumeral(numeral) /\ numeral[1] # "0"
                        /\ inserted.integer = IF L!IsNegative(buf_) THEN -L!Number(numeral)
                                              ELSE L!Number(numeral)
  BY Zenon DEF L!IntegersReadBack
<1> DEFINE i == inserted.integer
<1>1. i \in Int /\ i # 0 /\ buf_ = L!itoa_s(i)
  BY DEF LogInv, L!Inserted
<1> HIDE DEF i
<1>2. L!Unsigned(buf_) = Numeral(i) /\ (L!IsNegative(buf_) <=> i < 0)
  BY <1>1, TextOfInteger
<1>3. /\ L!Number(Numeral(i)) = Magnitude(i) /\ L!Reversed[i] \in Seq(Digits)
      /\ Numeral(i) # <<>> /\ Numeral(i)[1] # "0"
  BY <1>1, NumeralFacts
<1>4. L!IsNumeral(Numeral(i))
  <2>1. L!DigitOf(0) \in Digits
    BY DigitFacts
  <2>2. Numeral(i) \in Seq(Digits)
    BY <1>3, <2>1, ReverseFacts DEF Numeral
  <2> QED BY <2>2, ElementOfSeq DEF L!IsNumeral, Digits
<1>5. i = IF L!IsNegative(buf_) THEN -Magnitude(i) ELSE Magnitude(i)
  BY <1>1, <1>2 DEF Magnitude
<1> QED BY <1>2, <1>3, <1>4, <1>5, Zenon DEF i

(* The text of a decimal is read back as the decimal (FormatDigits).        *)
LEMMA InputIsRead == LogInv => L!DecimalsReadBack
<1> SUFFICES ASSUME LogInv, L!Inserted("decimal")
             PROVE  LET read == L!Reads(buf_)
                    IN  /\ read.numeral /\ ~read.negative
                        /\ read.exponent >= inserted.dec.exponent
                        /\ read.digits * L!Pow10[read.exponent - inserted.dec.exponent]
                             = inserted.dec.digits
  BY Zenon DEF L!DecimalsReadBack
<1> DEFINE dec == inserted.dec
           v == dec.digits
           y == dec.exponent
<1>1. dec \in DecimalInputs /\ buf_ = L!Dtoa(FALSE, dec)
  BY Zenon DEF LogInv, L!Inserted, DecimalText
<1>2. /\ v \in Nat \ {0} /\ y \in Int
      /\ Shows(L!Dtoa(FALSE, dec), L!DecimalDigits(v), y)
  BY <1>1, TextOfInput, Zenon
<1> HIDE DEF v, y
<1>3. LET read == L!Reads(buf_)
      IN  /\ read.numeral /\ ~read.negative
          /\ read.exponent >= y
          /\ read.digits * L!Pow10[read.exponent - y] = v
  BY <1>1, <1>2, ShownIsRead, Zenon
<1> QED BY <1>3, Zenon DEF v, y, dec

(* What was inserted as a number is read back from the text of the message: *)
(* an integer of any width whose text fits the local array of its operator  *)
(* (not that of every long, see OverrunInteger), and a decimal of           *)
(* up to 17 digits in whichever layout FormatDigits puts the digits.        *)
THEOREM TextReadsBackAlways == Spec_ => []TextReadsBack
<1>1. LogInv => TextReadsBack
  BY IntegerIsRead, InputIsRead, Zenon DEF TextReadsBack, L!TextReadsBack
<1> QED BY <1>1, LogPart, LogInvariant, PTL
=============================================================================
