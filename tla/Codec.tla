------------------------------- MODULE Codec --------------------------------
(***************************************************************************)
(* apps/chat/codec/{Packet,MessageCodec}.{h,cpp}: protobuf messages as     *)
(* packets in a byte stream.  A packet is                                  *)
(*     length | name length | name, 0 | payload | checksum                 *)
(* where length counts what follows it.  The receiver finds the packets    *)
(* again in its input buffer, wherever TCP cuts the stream.                *)
(*                                                                         *)
(* A byte has ByteBase values and an int32_t kHeaderLen bytes.  protobuf's *)
(* part is a message's name and its payload; both ends know all names.     *)
(* The bound is MaxSent messages per connection.                           *)
(***************************************************************************)
EXTENDS Integers, Sequences

CONSTANTS ByteBase, kHeaderLen,
          MaxPacketLen,        \* UINT16_MAX
          Messages,            \* records [name, payload] of bytes
          MaxSent,
          kinitSize_, kprependSize_, kextra_buf_len

VARIABLES
    inputBuffer_,      \* of the receiving TcpConnection
    parsing,           \* OnRawBytes is under way
    wire,              \* external: bytes sent and not yet read
    sent, received,    \* history: messages
    unread             \* history: bytes read and not yet retrieved

vars == <<inputBuffer_, parsing, wire, sent, received, unread>>

Input == INSTANCE Buffer WITH
    buffer <- inputBuffer_, content <- unread, prepended <- 0,
    Bytes <- 0..(ByteBase - 1), MaxReadable <- 0

(* the values of p bytes                                                    *)
Power[p \in 0..kHeaderLen] == IF p = 0 THEN 1 ELSE ByteBase * Power[p - 1]

(* htonl, and ntohl of the int32_t at position i of the readable bytes      *)
htonl(n) == [i \in 1..kHeaderLen |-> (n \div Power[kHeaderLen - i]) % ByteBase]

ntohl(b, i) ==
    LET value[j \in 0..kHeaderLen] ==
            IF j = 0 THEN 0 ELSE value[j - 1] * ByteBase + Input!ByteAt(b, i + j - 1)
        u == value[kHeaderLen]
    IN  IF 2 * u < Power[kHeaderLen] THEN u ELSE u - Power[kHeaderLen]

bytesAllToPack(m) == 3 * kHeaderLen + Len(m.name) + 1 + Len(m.payload)

calcCheckSum == 0

(* packProtoMessageToCachedSizeArray                                        *)
Packed(m) ==
    htonl(bytesAllToPack(m) - kHeaderLen)
      \o htonl(Len(m.name) + 1) \o m.name \o <<0>>
      \o m.payload \o htonl(calcCheckSum)

(* encodeToEmptyBuffer, and send(): what the buffer then holds              *)
encodeToEmptyBuffer(m) ==
    LET b == Input!ensureWriteableSpace(Input!NewBuffer, bytesAllToPack(m))
    IN  IF Input!writeableBytes(b) < bytesAllToPack(m) THEN b
        ELSE Input!Written(b, Packed(m))

Encoded(m) ==
    LET b == encodeToEmptyBuffer(m)
    IN  [i \in 1..Input!readableBytes(b) |-> Input!ByteAt(b, i)]
-----------------------------------------------------------------------------
(* A complete packet, and not too long a one, is at the front               *)
canParseFromArray(b) ==
    /\ Input!readableBytes(b) >= kHeaderLen
    /\ ntohl(b, 1) \in 0..MaxPacketLen
    /\ Input!readableBytes(b) >= kHeaderLen + ntohl(b, 1)

headerLen(b) == ntohl(b, 1)
typeNameLen(b) == ntohl(b, kHeaderLen + 1) - 1
payloadLen(b) == headerLen(b) - 2 * kHeaderLen - typeNameLen(b) - 1
Mutant_byteSizeAll(b) == 3 * kHeaderLen + typeNameLen(b) + payloadLen(b)
byteSizeAll(b) == 3 * kHeaderLen + typeNameLen(b) + 1 + payloadLen(b)

(* the name, which ends at its first 0, and the payload behind its room     *)
parseFromArray(b) ==
    LET byte(i) == Input!ByteAt(b, 2 * kHeaderLen + i)
        end == CHOOSE n \in 0..typeNameLen(b) :
                  byte(n + 1) = 0 /\ \A i \in 1..n : byte(i) # 0
    IN  [name |-> [i \in 1..end |-> byte(i)],
         payload |-> [i \in 1..payloadLen(b) |-> byte(typeNameLen(b) + 1 + i)]]
-----------------------------------------------------------------------------
Init ==
    /\ inputBuffer_ = Input!NewBuffer /\ parsing = FALSE
    /\ wire = <<>>
    /\ sent = <<>> /\ received = <<>> /\ unread = <<>>

Send(m) ==
    /\ Len(sent) < MaxSent
    /\ wire' = wire \o Encoded(m)
    /\ sent' = Append(sent, m)
    /\ UNCHANGED <<inputBuffer_, parsing, received, unread>>

(* handleRead: any number of the bytes on the way, and the codec is called  *)
Read(n) ==
    /\ ~parsing
    /\ n <= Input!writeableBytes(inputBuffer_) + kextra_buf_len
    /\ inputBuffer_' = Input!readFdFast(inputBuffer_, SubSeq(wire, 1, n))
    /\ wire' = SubSeq(wire, n + 1, Len(wire))
    /\ unread' = unread \o SubSeq(wire, 1, n)
    /\ parsing' = TRUE
    /\ UNCHANGED <<sent, received>>

(* OnRawBytes: one turn of its loop, with the user's callback               *)
HandlePacket ==
    /\ parsing /\ canParseFromArray(inputBuffer_)
    /\ received' = Append(received, parseFromArray(inputBuffer_))
    /\ inputBuffer_' = Input!hasRead(inputBuffer_, byteSizeAll(inputBuffer_))
    /\ unread' = SubSeq(unread, byteSizeAll(inputBuffer_) + 1, Len(unread))
    /\ UNCHANGED <<parsing, wire, sent>>

OnRawBytesReturns ==
    /\ parsing /\ ~canParseFromArray(inputBuffer_)
    /\ parsing' = FALSE
    /\ UNCHANGED <<inputBuffer_, wire, sent, received, unread>>

(* The connection ends, perhaps in the middle of a packet; the next one is   *)
(* another TcpConnection with a buffer of its own                           *)
NextConnection ==
    /\ ~parsing /\ sent # <<>>
    /\ inputBuffer_' = Input!NewBuffer /\ wire' = <<>>
    /\ sent' = <<>> /\ received' = <<>> /\ unread' = <<>>
    /\ UNCHANGED parsing

Next ==
    \/ \E m \in Messages : Send(m)
    \/ \E n \in 1..Len(wire) : Read(n)
    \/ HandlePacket \/ OnRawBytesReturns \/ NextConnection

Spec == Init /\ [][Next]_vars
-----------------------------------------------------------------------------
TooLong(m) == bytesAllToPack(m) - kHeaderLen > MaxPacketLen

(* Between two reads, the messages received are the first that were sent,   *)
(* whole and in order, wherever the stream was cut; the bytes left in the   *)
(* buffer are not yet a packet, or they begin with a packet that is too     *)
(* long.  (Nothing is received after such a packet, which the sender does   *)
(* not refuse.)                                                             *)
PacketsComeOut ==
    ~parsing =>
        LET k == Len(received)
        IN  /\ k <= Len(sent) /\ received = SubSeq(sent, 1, k)
            /\ Len(unread) = Input!readableBytes(inputBuffer_)
            /\ unread = <<>>
                 \/ /\ k < Len(sent)
                    /\ TooLong(sent[k + 1])
                         \/ Len(unread) < bytesAllToPack(sent[k + 1])
            /\ wire = <<>> /\ unread = <<>> => k = Len(sent)
=============================================================================
