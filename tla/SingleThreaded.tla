--------------------------- MODULE SingleThreaded ---------------------------
(***************************************************************************)
(* The parts of the library that one thread uses at a time and that call   *)
(* nobody: the input and output buffer, the codec over two of them, and    *)
(* the log stream.  They share no state: a behaviour is about one of them, *)
(* and the others stay as they are.                                        *)
(***************************************************************************)
EXTENDS Buffer, Grisu3

CONSTANTS IntegerTypes, Texts, DecimalInputs,                       \* LogStream
          ByteBase, kHeaderLen, MaxPacketLen, Messages, MaxSent     \* Codec

VARIABLES part, buf_, inserted, conv,
          inputBuffer_, parsing, wire, sent, received, unread

log == <<buf_, inserted, conv>>
codec == <<inputBuffer_, parsing, wire, sent, received, unread>>

L == INSTANCE LogStream
C == INSTANCE Codec

(* LogStream: FormatDigits asserts the ranges of the digits (up to 17) and  *)
(* of the exponent; the exponent it writes has up to three digits           *)
(* (Utoa_2Digits).                                                          *)
ASSUME SingleThreadedAssumption ==
    /\ IntegerTypes \subseteq [bits : Nat \ {0}, signed : BOOLEAN, buf : Nat]
    /\ \A t \in DecimalInputs :
          /\ t.digits \in Nat \ {0} /\ t.digits \div 100000000 <= 999999999
          /\ t.exponent \in -999..999
          /\ L!DecimalLength(t.digits) + t.exponent <= 1000

(* Codec: a name is a C string, and the size of a packet is an int.         *)
ASSUME CodecAssumption ==
    /\ ByteBase \in Nat \ {0, 1} /\ kHeaderLen \in Nat \ {0} /\ MaxPacketLen \in Nat
    /\ Messages \subseteq [name : Seq(1..(ByteBase - 1)),
                           payload : Seq(0..(ByteBase - 1))]
    /\ \A m \in Messages : 2 * C!bytesAllToPack(m) < C!Power[kHeaderLen]

Init_ ==
    /\ part \in {"Buffer", "LogStream", "Codec"}
    /\ Init /\ L!Init /\ C!Init

Next_ ==
    /\ UNCHANGED part
    /\ \/ part = "Buffer" /\ Next /\ UNCHANGED <<log, codec>>
       \/ part = "LogStream" /\ L!Next /\ UNCHANGED <<vars, codec>>
       \/ part = "Codec" /\ C!Next /\ UNCHANGED <<vars, log>>

Spec_ == Init_ /\ [][Next_]_<<part, vars, log, codec>>
-----------------------------------------------------------------------------
(* LogStream: no assert of the two conversions fails, no word overflows,    *)
(* and no big integer outgrows its array.                                   *)
NumberAsserts == L!NumberAsserts

(* LogStream: integers whose text fits the local array, and decimals, are   *)
(* read back from their texts.                                              *)
TextReadsBack == L!TextReadsBack

(* LogStream: the text of a double is the shortest that is read as this     *)
(* double, and the closest of those.                                        *)
DoublesAreShortest == L!DoublesAreShortest

(* Codec: the messages received are those sent, in order, wherever the      *)
(* stream was cut.                                                          *)
PacketsComeOut == C!PacketsComeOut
=============================================================================
