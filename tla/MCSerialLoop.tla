----------------------------- MODULE MCSerialLoop -----------------------------
(* One port looped back to itself: the handshake of a reader and a writer.  *)
EXTENDS SerialTest

Devs == <<"sp1">>
SecondOfTwo == <<{2}>>
===============================================================================
