----------------------------- MODULE MCSerialPair -----------------------------
(* Two ports and one cable, tested in both directions at the same time.     *)
EXTENDS SerialTest

Receivers == <<"sp1", "sp2">>
Transmitters == <<"sp2", "sp1">>
OfTwo == <<{1, 2}, {1, 2}>>
OfOne == <<{1}, {1}>>
===============================================================================
