-------------------------- MODULE MCSingleThreaded --------------------------
EXTENDS SingleThreaded, TLC

MCBytes == {0, 1}

(* short, int and long have an array that holds the texts of the first two  *)
(* (6 and 11 characters, and the NUL, in 16) but not of the third (20);     *)
(* unsigned long and long long have a longer one                            *)
MCIntegerTypes ==
    {[bits |-> 4, signed |-> TRUE, buf |-> 5], [bits |-> 4, signed |-> FALSE, buf |-> 5],
     [bits |-> 8, signed |-> TRUE, buf |-> 5], [bits |-> 8, signed |-> FALSE, buf |-> 5],
     [bits |-> 11, signed |-> TRUE, buf |-> 5], [bits |-> 11, signed |-> FALSE, buf |-> 10],
     [bits |-> 12, signed |-> TRUE, buf |-> 10]}

MCTexts == {<<>>, <<"x">>}

(* digits of every length that TLC's integers hold, the decimal point       *)
(* inside, in front of and behind them, exponents of one to three digits    *)
MCDecimalInputs ==
    [digits : {1, 7, 42, 305, 9999, 12345, 870654, 1000001, 98765432, 123456789,
               2012345678},
     exponent : -15..18 \cup {-999, -324, -107, -99, 100, 308, 990}]

MCkAlpha == -9
MCkGamma == -2
MCkCachedPowersMinDecExp == -3

(* names of two lengths, payloads that look like lengths, a packet that is  *)
(* just short enough and one that is too long                               *)
MCMessages ==
    {[name |-> <<1>>, payload |-> <<>>], [name |-> <<1>>, payload |-> <<0, 1>>],
     [name |-> <<1, 2>>, payload |-> <<4>>], [name |-> <<1>>, payload |-> <<0, 0, 3>>]}
=============================================================================
