------------------------------- MODULE Buffer -------------------------------
(***************************************************************************)
(* net/Buffer.{h,cpp}: a vector of bytes with the readable bytes between   *)
(* two indexes, and room in front of them for a header that is prepended   *)
(* later.  Space is made by moving the bytes to the front or by growing    *)
(* the vector.                                                             *)
(*                                                                         *)
(* A buffer is a record of its three members; index i of the code is       *)
(* position i + 1 of the sequence.  The asserts on the arguments of        *)
(* retrieve() and preappend() are obligations of the caller.  appendInt,   *)
(* readInt and the like are append and retrieve of a fixed size.           *)
(***************************************************************************)
EXTENDS Integers, Sequences

CONSTANTS Bytes,             \* char; resize() fills in 0
          kinitSize_, kprependSize_,
          kextra_buf_len,    \* size of the second buffer given to readv(2)
          MaxReadable        \* bound: no call makes more bytes readable

ASSUME BufferAssumption ==
    /\ 0 \in Bytes /\ Bytes \subseteq Nat
    /\ kinitSize_ \in Nat \ {0} /\ kprependSize_ \in Nat
    /\ kextra_buf_len \in Nat /\ MaxReadable \in Nat

VARIABLES
    buffer,            \* [buf_, readindex_, writeindex_]
    content,           \* history: the bytes that ought to be readable
    prepended          \* history: how many of them came from preappend()

vars == <<buffer, content, prepended>>

Zeros(n) == [i \in 1..n |-> 0]

(* the constructor                                                          *)
NewBuffer == [buf_ |-> Zeros(kinitSize_ + kprependSize_),
              readindex_ |-> kprependSize_, writeindex_ |-> kprependSize_]

readableBytes(b) == b.writeindex_ - b.readindex_
writeableBytes(b) == Len(b.buf_) - b.writeindex_
prependableBytes(b) == b.readindex_

(* the bytes that peek() and retrieveAsString() see                         *)
ByteAt(b, i) == b.buf_[b.readindex_ + i]

(* vector s with the bytes src copied to index at                           *)
Copied(s, at, src) ==
    [i \in 1..Len(s) |-> IF i > at /\ i <= at + Len(src) THEN src[i - at] ELSE s[i]]

(* resize(): the new bytes are zero                                         *)
Resized(s, n) == [i \in 1..n |-> IF i <= Len(s) THEN s[i] ELSE 0]

(* ensureWriteableSpace: the room in front beyond kprependSize_ is enough   *)
Mutant_CanMove(b, len) == writeableBytes(b) + prependableBytes(b) >= len
CanMove(b, len) ==
    writeableBytes(b) + prependableBytes(b) >= len + kprependSize_

(* memmove of the readable bytes to this index                              *)
Mutant_MoveTo == 0
MoveTo == kprependSize_

MovedToFront(b) ==
    LET n == readableBytes(b)
    IN  [buf_ |-> [i \in 1..Len(b.buf_) |->
                     IF i > MoveTo /\ i <= MoveTo + n
                     THEN b.buf_[i - MoveTo + b.readindex_] ELSE b.buf_[i]],
         readindex_ |-> MoveTo,
         writeindex_ |-> MoveTo + n]

ensureWriteableSpace(b, len) ==
    IF writeableBytes(b) >= len THEN b
    ELSE IF CanMove(b, len) THEN MovedToFront(b)
    ELSE [b EXCEPT !.buf_ = Resized(b.buf_, b.writeindex_ + len)]

(* std::copy to beginWrite() and hasWritten()                               *)
Written(b, src) ==
    [b EXCEPT !.buf_ = Copied(b.buf_, b.writeindex_, src),
              !.writeindex_ = b.writeindex_ + Len(src)]

append(b, src) == Written(ensureWriteableSpace(b, Len(src)), src)

preappend(b, src) ==
    [b EXCEPT !.buf_ = Copied(b.buf_, b.readindex_ - Len(src), src),
              !.readindex_ = b.readindex_ - Len(src)]

resetRWIndex(b) == [b EXCEPT !.readindex_ = kprependSize_,
                             !.writeindex_ = kprependSize_]

(* retrieve() is hasRead(): a buffer read to the end starts over            *)
hasRead(b, n) == IF b.readindex_ + n = b.writeindex_ THEN resetRWIndex(b)
                 ELSE [b EXCEPT !.readindex_ = b.readindex_ + n]

(* readFdFast: readv(2) fills what is writeable, then the extra buffer,     *)
(* which is appended                                                        *)
Mutant_readFdFast(b, src) ==
    LET iov_len == writeableBytes(b)
    IN  IF Len(src) <= iov_len THEN Written(b, src)
        ELSE append(b, SubSeq(src, iov_len + 1, Len(src)))
readFdFast(b, src) ==
    LET iov_len == writeableBytes(b)
    IN  IF Len(src) <= iov_len THEN Written(b, src)
        ELSE append(Written(b, SubSeq(src, 1, iov_len)),
                    SubSeq(src, iov_len + 1, Len(src)))
-----------------------------------------------------------------------------
Init == buffer = NewBuffer /\ content = <<>> /\ prepended = 0

Fits(src) == Len(content) + Len(src) <= MaxReadable

Append_(src) ==
    /\ Fits(src)
    /\ buffer' = append(buffer, src)
    /\ content' = content \o src
    /\ UNCHANGED prepended

(* space asked for in advance, as encodeToEmptyBuffer does                  *)
EnsureWriteableSpace(len) ==
    /\ len <= MaxReadable - Len(content)
    /\ buffer' = ensureWriteableSpace(buffer, len)
    /\ UNCHANGED <<content, prepended>>

Preappend(src) ==
    /\ Fits(src) /\ Len(src) <= prependableBytes(buffer)
    /\ buffer' = preappend(buffer, src)
    /\ content' = src \o content
    /\ prepended' = prepended + Len(src)

Retrieve(n) ==
    /\ n <= readableBytes(buffer)
    /\ buffer' = hasRead(buffer, n)
    /\ content' = SubSeq(content, n + 1, Len(content))
    /\ prepended' = IF n <= prepended THEN prepended - n ELSE 0

RetrieveAll ==
    /\ buffer' = resetRWIndex(buffer)
    /\ content' = <<>> /\ prepended' = 0

(* readv(2) returns what has arrived; with an error nothing changes         *)
ReadFdFast(src) ==
    /\ Fits(src) /\ Len(src) <= writeableBytes(buffer) + kextra_buf_len
    /\ buffer' = readFdFast(buffer, src)
    /\ content' = content \o src
    /\ UNCHANGED prepended

(* TcpConnection::send of a buffer swaps its bytes into a new one of the     *)
(* same sizes                                                               *)
SwapWithNew ==
    /\ buffer' = NewBuffer
    /\ content' = <<>> /\ prepended' = 0

Strings == UNION {[1..n -> Bytes] : n \in 0..MaxReadable}

Next ==
    \/ \E src \in Strings : Append_(src) \/ Preappend(src) \/ ReadFdFast(src)
    \/ \E n \in 0..MaxReadable : EnsureWriteableSpace(n) \/ Retrieve(n)
    \/ RetrieveAll \/ SwapWithNew

Spec == Init /\ [][Next]_vars
-----------------------------------------------------------------------------
(* The indexes stay inside the vector and in order, so that no copy leaves  *)
(* it, and peek()'s assert holds; an empty buffer has its indexes back at   *)
(* the start.                                                               *)
IndexesInRange ==
    /\ 0 <= buffer.readindex_
    /\ buffer.readindex_ <= buffer.writeindex_
    /\ buffer.writeindex_ <= Len(buffer.buf_)
    /\ buffer.readindex_ < Len(buffer.buf_)
    /\ readableBytes(buffer) = 0 => buffer.readindex_ = kprependSize_

(* The readable bytes are those that were appended, prepended and read from *)
(* the socket and not yet retrieved, in order, however often the bytes were *)
(* moved or the vector grew.                                                *)
ContentIsReadable ==
    /\ readableBytes(buffer) = Len(content)
    /\ \A i \in 1..Len(content) : ByteAt(buffer, i) = content[i]

(* kprependSize_ bytes can be prepended to whatever was appended: the room  *)
(* in front only shrinks by what is prepended.                              *)
PrependRoom == prependableBytes(buffer) + prepended >= kprependSize_
=============================================================================
