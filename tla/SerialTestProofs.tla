--------------------------- MODULE SerialTestProofs ---------------------------
(****************************************************************************)
(* Proofs about SerialTest for every number of tests, rates, frame sizes    *)
(* and sweeps, every choice of options and faults, and any interleaving.    *)
(****************************************************************************)
EXTENDS SerialTest, SequenceTheorems, TLAPS

------------------------------------------------------------------------------
(* What the bytes on the wire look like after a read and after a write.     *)

\* What is left after the first n bytes are of the same kind.
LEMMA RestIsSeq ==
  ASSUME NEW S, NEW w \in Seq(S), NEW n \in Nat, n <= Len(w)
  PROVE  SubSeq(w, n + 1, Len(w)) \in Seq(S)
<1>1. CASE n < Len(w)
  BY <1>1, SubSeqProperties
<1>2. CASE n = Len(w)
  BY <1>2, SubSeqProperties
<1>3. QED
  BY <1>1, <1>2, LenProperties

\* A frame of n bytes c appended, where a failed write (n = -1) appends nothing.
LEMMA FrameIsSeq ==
  ASSUME NEW m \in Nat, NEW w \in Seq(1..m), NEW c \in 0..m, NEW n \in -1..c
  PROVE  w \o [i \in 1..n |-> c] \in Seq(1..m)
<1>1. [i \in 1..n |-> c] \in Seq(1..m)
  <2>1. CASE n \in Nat
    <3>1. \A i \in 1..n : c \in 1..m
      OBVIOUS
    <3>2. QED
      BY <2>1, <3>1
  <2>2. CASE n = -1
    <3>1. 1..n = 1..0
      BY <2>2
    <3>2. [i \in 1..0 |-> c] \in Seq(1..m)
      OBVIOUS
    <3>3. QED
      BY <3>1, <3>2
  <2>3. QED
    BY <2>1, <2>2
<1>2. QED
  BY <1>1, ConcatProperties

------------------------------------------------------------------------------
(* Types.  A read of a whole frame takes comSz bytes and rxTypeOne counts    *)
(* comSz - 1 failures, so that the size is not zero by then has to be known. *)

FrameSized == \A t \in Test : rpc[t] \in {"poll", "receive"} => comSz[t] > 0
TypeInv == TypeOK /\ FrameSized

\* A part of the state that a step leaves alone keeps its types.
LEMMA TypesKept ==
  /\ OptionTypes /\ UNCHANGED options => OptionTypes'
  /\ SemTypes /\ UNCHANGED sems => SemTypes'
  /\ WordTypes /\ UNCHANGED words => WordTypes'
  /\ ReaderTypes /\ UNCHANGED readers => ReaderTypes'
  /\ WriterTypes /\ UNCHANGED writers => WriterTypes'
  /\ MonitorTypes /\ UNCHANGED monitor => MonitorTypes'
  /\ EntryTypes /\ UNCHANGED entry => EntryTypes'
  /\ LineTypes /\ UNCHANGED line => LineTypes'
  /\ RxCountTypes /\ UNCHANGED rxCount => RxCountTypes'
  /\ TxCountTypes /\ UNCHANGED txCount => TxCountTypes'
  /\ ResultTypes /\ UNCHANGED result => ResultTypes'
  /\ FrameSized /\ UNCHANGED <<readers, entry>> => FrameSized'
<1>1. OptionTypes /\ UNCHANGED options => OptionTypes'
  BY DEF OptionTypes, options
<1>2. SemTypes /\ UNCHANGED sems => SemTypes'
  BY DEF SemTypes, sems
<1>3. WordTypes /\ UNCHANGED words => WordTypes'
  BY DEF WordTypes, words
<1>4. ReaderTypes /\ UNCHANGED readers => ReaderTypes'
  BY DEF ReaderTypes, readers
<1>5. WriterTypes /\ UNCHANGED writers => WriterTypes'
  BY DEF WriterTypes, writers
<1>6. MonitorTypes /\ UNCHANGED monitor => MonitorTypes'
  BY DEF MonitorTypes, monitor
<1>7. EntryTypes /\ UNCHANGED entry => EntryTypes'
  BY DEF EntryTypes, entry
<1>8. LineTypes /\ UNCHANGED line => LineTypes'
  BY DEF LineTypes, line
<1>9. RxCountTypes /\ UNCHANGED rxCount => RxCountTypes'
  BY DEF RxCountTypes, rxCount
<1>10. TxCountTypes /\ UNCHANGED txCount => TxCountTypes'
  BY DEF TxCountTypes, txCount
<1>11. ResultTypes /\ UNCHANGED result => ResultTypes'
  BY DEF ResultTypes, result
<1>12. FrameSized /\ UNCHANGED <<readers, entry>> => FrameSized'
  BY DEF FrameSized, readers, entry
<1>13. QED
  BY <1>1, <1>2, <1>3, <1>4, <1>5, <1>6, <1>7, <1>8, <1>9, <1>10, <1>11, <1>12

LEMMA CableType == \A t \in Test : Cable(t) \in Cables
BY DEF Cables

LEMMA EmptyWire == <<>> \in Seq(1..MaxFrame)
BY EmptySeq

LEMMA InitPortsTypes ==
  ASSUME TypeOK, NEW t \in Test, InitPorts(t)
  PROVE  LineTypes'
<1>1. wire' \in [Test -> Seq(1..MaxFrame)]
  BY EmptyWire DEF InitPorts, TypeOK, LineTypes
<1>2. portRate' \in [Cables -> 0..(Beyond + 1)]
  <2>1. lbrp[t] \in 0..(Beyond + 1)
    BY SweepAssumption DEF TypeOK, EntryTypes, Beyond
  <2>2. QED
    BY <2>1, CableType DEF InitPorts, TypeOK, LineTypes
<1>3. QED
  BY <1>1, <1>2 DEF LineTypes

LEMMA AfterFrameTypes ==
  ASSUME TypeInv, NEW t \in Test, NEW ok, AfterFrame(t, ok), UNCHANGED spTmp
  PROVE  /\ ReaderTypes'
         /\ lbrp' \in [Test -> 1..(Beyond + 1)]
         /\ \E p \in {"complete", "frame", "rate"} : rpc' = [rpc EXCEPT ![t] = p]
<1>1. lbrp' \in [Test -> 1..(Beyond + 1)]
  BY SweepAssumption DEF AfterFrame, NextRate, Beyond, TypeInv, TypeOK, EntryTypes
<1>2. \E p \in {"complete", "frame", "rate"} : rpc' = [rpc EXCEPT ![t] = p]
  BY DEF AfterFrame, GoTo
<1>3. comSize' \in [Test -> MinFrame..MaxFrame]
  BY SweepAssumption DEF AfterFrame, LastSize, TypeInv, TypeOK, ReaderTypes
<1>4. iterCnt' \in [Test -> 0..FrameIter]
  BY SweepAssumption DEF AfterFrame, LastIter, TypeInv, TypeOK, ReaderTypes
<1>5. rpc' \in [Test -> ReaderPC]
  BY <1>2 DEF ReaderPC, TypeInv, TypeOK, ReaderTypes
<1>6. QED
  BY <1>1, <1>2, <1>3, <1>4, <1>5 DEF ReaderTypes, TypeInv, TypeOK

\* Reading from the wire, and the counts of one receive.
LEMMA TakeTypes ==
  ASSUME TypeOK, NEW t \in Test, NEW n \in Nat, n <= Len(wire[t]), Take(t, n)
  PROVE  wire' \in [Test -> Seq(1..MaxFrame)]
<1>1. wire[t] \in Seq(1..MaxFrame)
  BY DEF TypeOK, LineTypes
<1>2. SubSeq(wire[t], n + 1, Len(wire[t])) \in Seq(1..MaxFrame)
  BY <1>1, RestIsSeq
<1>3. QED
  BY <1>2 DEF Take, TypeOK, LineTypes

LEMMA VerdictTypes ==
  ASSUME TypeOK, NEW t \in Test, NEW ok \in BOOLEAN, NEW ng \in Nat, Verdict(t, ok, ng)
  PROVE  RxCountTypes' /\ ResultTypes' /\ AfterFrame(t, ok)
<1>1. RxCountTypes'
  BY DEF Verdict, TypeOK, RxCountTypes
<1>2. ResultTypes'
  BY DEF Verdict, TypeOK, ResultTypes
<1>3. QED
  BY <1>1, <1>2 DEF Verdict

\* What rxTypeZero, rxTypeOne and rxTypeTwo have in common: some of the bytes
\* there are taken, and the frame is counted.
LEMMA ReadsAndCounts ==
  ASSUME TypeInv, NEW t \in Test, comSz[t] > 0, RxTypeZero(t) \/ RxTypeOne(t) \/ RxTypeTwo(t)
  PROVE  \E n \in Nat, ok \in BOOLEAN, ng \in Nat :
           n <= Len(wire[t]) /\ Take(t, n) /\ Verdict(t, ok, ng)
<1>1. comSz[t] \in Nat
  BY SweepAssumption DEF TypeInv, TypeOK, EntryTypes
<1>2. Match(t) \in BOOLEAN /\ Failed(Match(t)) \in Nat
  BY DEF Match, Failed
<1>3. \A n \in Partial(t) : n \in Nat /\ n <= Len(wire[t])
  BY <1>1 DEF Partial
<1>4. CASE RxTypeZero(t)
  BY <1>1, <1>2, <1>3, <1>4 DEF RxTypeZero, Arrived
<1>5. CASE RxTypeOne(t)
  BY <1>1, <1>2, <1>3, <1>5 DEF RxTypeOne, Arrived
<1>6. CASE RxTypeTwo(t)
  BY <1>1, <1>2, <1>3, <1>6 DEF RxTypeTwo, Arrived
<1>7. QED
  BY <1>4, <1>5, <1>6

LEMMA ReceiveTypes ==
  ASSUME TypeInv, NEW t \in Test, Receive(t)
  PROVE  /\ RxCountTypes' /\ ResultTypes' /\ LineTypes'
         /\ ReaderTypes' /\ EntryTypes' /\ FrameSized'
<1>1. comSz[t] > 0
  BY DEF Receive, TypeInv, FrameSized
<1>2. /\ RxCountTypes' /\ ResultTypes'
      /\ wire' \in [Test -> Seq(1..MaxFrame)]
      /\ \E ok \in BOOLEAN : AfterFrame(t, ok)
  <2>1. CASE RxTypeThree(t)
    <3>1. RxCountTypes' /\ ResultTypes'
      BY <2>1, TypesKept DEF RxTypeThree, TypeInv, TypeOK
    <3>2. wire' \in [Test -> Seq(1..MaxFrame)] /\ AfterFrame(t, FALSE)
      BY <2>1 DEF RxTypeThree, TypeInv, TypeOK, LineTypes
    <3>3. QED
      BY <3>1, <3>2
  <2>2. CASE RxTypeZero(t) \/ RxTypeOne(t) \/ RxTypeTwo(t)
    <3>1. PICK n \in Nat, ok \in BOOLEAN, ng \in Nat :
            n <= Len(wire[t]) /\ Take(t, n) /\ Verdict(t, ok, ng)
      BY <1>1, <2>2, ReadsAndCounts
    <3>2. wire' \in [Test -> Seq(1..MaxFrame)]
      BY <3>1, TakeTypes DEF TypeInv
    <3>3. RxCountTypes' /\ ResultTypes' /\ AfterFrame(t, ok)
      BY <3>1, VerdictTypes DEF TypeInv
    <3>4. QED
      BY <3>2, <3>3
  <2>3. QED
    BY <2>1, <2>2 DEF Receive
<1>3. /\ ReaderTypes'
      /\ lbrp' \in [Test -> 1..(Beyond + 1)]
      /\ \E p \in {"complete", "frame", "rate"} : rpc' = [rpc EXCEPT ![t] = p]
  BY <1>2, AfterFrameTypes DEF Receive
<1>4. comSz' = comSz \/ comSz' = [comSz EXCEPT ![t] = MaxFrame]
  BY DEF Receive, RxTypeThree
<1>5. EntryTypes'
  BY <1>3, <1>4, SweepAssumption DEF Receive, TypeInv, TypeOK, EntryTypes
<1>6. LineTypes'
  BY <1>2 DEF Receive, TypeInv, TypeOK, LineTypes
<1>7. FrameSized'
  BY <1>3, <1>4 DEF TypeInv, TypeOK, FrameSized, ReaderTypes, EntryTypes
<1>8. QED
  BY <1>2, <1>3, <1>5, <1>6, <1>7

LEMMA ReaderKeepsTypes ==
  ASSUME TypeInv, NEW t \in Test, ReaderStep(t), UNCHANGED options
  PROVE  TypeInv'
<1>1. CASE Park(t)
  <2>1. ReaderTypes'
    BY <1>1 DEF Park, GoTo, ReaderPC, TypeInv, TypeOK, ReaderTypes
  <2>2. WordTypes'
    BY <1>1 DEF Park, SpState, ReaderTypes, TypeInv, TypeOK, WordTypes
  <2>3. FrameSized'
    BY <1>1 DEF Park, GoTo, entry, TypeInv, TypeOK, FrameSized, ReaderTypes, EntryTypes
  <2>4. QED
    BY <1>1, <2>1, <2>2, <2>3, TypesKept DEF Park, TypeInv, TypeOK
<1>2. CASE Begin(t)
  <2>1. ReaderTypes'
    BY <1>2 DEF Begin, GoTo, ReaderPC, TypeInv, TypeOK, ReaderTypes
  <2>2. SemTypes'
    BY <1>2 DEF Begin, Wait, TypeInv, TypeOK, SemTypes
  <2>3. FrameSized'
    BY <1>2 DEF Begin, GoTo, entry, TypeInv, TypeOK, FrameSized, ReaderTypes, EntryTypes
  <2>4. QED
    BY <1>2, <2>1, <2>2, <2>3, TypesKept DEF Begin, TypeInv, TypeOK
<1>3. CASE Open(t)
  <2>1. ReaderTypes'
    BY <1>3 DEF Open, GoTo, ReaderPC, TypeInv, TypeOK, ReaderTypes
  <2>2. EntryTypes'
    BY <1>3, SweepAssumption DEF Open, Beyond, TypeInv, TypeOK, EntryTypes
  <2>3. ResultTypes'
    BY <1>3 DEF Open, TypeInv, TypeOK, ResultTypes
  <2>4. FrameSized'
    BY <1>3 DEF Open, GoTo, entry, TypeInv, TypeOK, FrameSized, ReaderTypes, EntryTypes
  <2>5. QED
    BY <1>3, <2>1, <2>2, <2>3, <2>4, TypesKept DEF Open, TypeInv, TypeOK
<1>4. CASE Rate(t)
  <2>1. ReaderTypes'
    BY <1>4 DEF Rate, GoTo, ReaderPC, TypeInv, TypeOK, ReaderTypes
  <2>2. EntryTypes'
    BY <1>4, SweepAssumption DEF Rate, Beyond, NextRate, TypeInv, TypeOK, EntryTypes
  <2>3. FrameSized'
    BY <1>4 DEF Rate, GoTo, NextRate, TypeInv, TypeOK, FrameSized, ReaderTypes, EntryTypes
  <2>4. QED
    BY <1>4, <2>1, <2>2, <2>3, TypesKept DEF Rate, TypeInv, TypeOK
<1>5. CASE InitAlone(t)
  <2>1. ReaderTypes'
    BY <1>5, SweepAssumption DEF InitAlone, GoTo, ReaderPC, FirstFrame, TypeInv, TypeOK, ReaderTypes
  <2>2. LineTypes'
    BY <1>5, InitPortsTypes DEF InitAlone, TypeInv, TypeOK, LineTypes
  <2>3. FrameSized'
    BY <1>5 DEF InitAlone, GoTo, entry, TypeInv, TypeOK, FrameSized, ReaderTypes, EntryTypes
  <2>4. QED
    BY <1>5, <2>1, <2>2, <2>3, TypesKept DEF InitAlone, TypeInv, TypeOK
<1>6. CASE Check(t)
  <2>1. ReaderTypes'
    BY <1>6 DEF Check, GoTo, ReaderPC, TypeInv, TypeOK, ReaderTypes
  <2>2. FrameSized'
    BY <1>6 DEF Check, GoTo, entry, TypeInv, TypeOK, FrameSized, ReaderTypes, EntryTypes
  <2>3. QED
    BY <1>6, <2>1, <2>2, TypesKept DEF Check, TypeInv, TypeOK
<1>7. CASE Grant(t)
  <2>1. ReaderTypes'
    BY <1>7, SweepAssumption DEF Grant, GoTo, ReaderPC, FirstFrame, TypeInv, TypeOK, ReaderTypes
  <2>2. LineTypes'
    BY <1>7, InitPortsTypes DEF Grant, TypeInv, TypeOK, LineTypes
  <2>3. SemTypes'
    BY <1>7, CableType DEF Grant, Post, TypeInv, TypeOK, SemTypes
  <2>4. FrameSized'
    BY <1>7 DEF Grant, GoTo, entry, TypeInv, TypeOK, FrameSized, ReaderTypes, EntryTypes
  <2>5. QED
    BY <1>7, <2>1, <2>2, <2>3, <2>4, TypesKept DEF Grant, TypeInv, TypeOK
<1>8. CASE Mark(t)
  <2>1. ReaderTypes'
    BY <1>8 DEF Mark, GoTo, ReaderPC, WordTypes, TypeInv, TypeOK, ReaderTypes
  <2>2. WordTypes'
    BY <1>8 DEF Mark, SpState, ReaderTypes, TypeInv, TypeOK, WordTypes
  <2>3. FrameSized'
    BY <1>8 DEF Mark, GoTo, entry, TypeInv, TypeOK, FrameSized, ReaderTypes, EntryTypes
  <2>4. QED
    BY <1>8, <2>1, <2>2, <2>3, TypesKept DEF Mark, TypeInv, TypeOK
<1>9. CASE Lock(t)
  <2>1. ReaderTypes'
    BY <1>9 DEF Lock, GoTo, ReaderPC, TypeInv, TypeOK, ReaderTypes
  <2>2. SemTypes'
    BY <1>9, CableType DEF Lock, Wait, TypeInv, TypeOK, SemTypes
  <2>3. FrameSized'
    BY <1>9 DEF Lock, GoTo, entry, TypeInv, TypeOK, FrameSized, ReaderTypes, EntryTypes
  <2>4. QED
    BY <1>9, <2>1, <2>2, <2>3, TypesKept DEF Lock, TypeInv, TypeOK
<1>10. CASE Restore(t)
  <2>1. ReaderTypes'
    BY <1>10, SweepAssumption DEF Restore, GoTo, ReaderPC, FirstFrame, TypeInv, TypeOK, ReaderTypes
  <2>2. WordTypes'
    BY <1>10 DEF Restore, SpState, ReaderTypes, TypeInv, TypeOK, WordTypes
  <2>3. FrameSized'
    BY <1>10 DEF Restore, GoTo, entry, TypeInv, TypeOK, FrameSized, ReaderTypes, EntryTypes
  <2>4. QED
    BY <1>10, <2>1, <2>2, <2>3, TypesKept DEF Restore, TypeInv, TypeOK
<1>11. CASE Frame(t)
  <2>1. ReaderTypes'
    BY <1>11 DEF Frame, GoTo, ReaderPC, TypeInv, TypeOK, ReaderTypes
  <2>2. EntryTypes'
    BY <1>11, SweepAssumption DEF Frame, ReaderTypes, TypeInv, TypeOK, EntryTypes
  <2>3. FrameSized'
    BY <1>11, SweepAssumption DEF Frame, GoTo, TypeInv, TypeOK, FrameSized, ReaderTypes, EntryTypes
  <2>4. QED
    BY <1>11, <2>1, <2>2, <2>3, TypesKept DEF Frame, TypeInv, TypeOK
<1>12. CASE StartFrame(t)
  <2>1. ReaderTypes'
    BY <1>12 DEF StartFrame, GoTo, ReaderPC, TypeInv, TypeOK, ReaderTypes
  <2>2. SemTypes'
    BY <1>12 DEF StartFrame, Post, TypeInv, TypeOK, SemTypes
  <2>3. WordTypes'
    BY <1>12 DEF StartFrame, SpState, ReaderTypes, TypeInv, TypeOK, WordTypes
  <2>4. FrameSized'
    BY <1>12 DEF StartFrame, GoTo, entry, TypeInv, TypeOK, FrameSized, ReaderTypes, EntryTypes
  <2>5. QED
    BY <1>12, <2>1, <2>2, <2>3, <2>4, TypesKept DEF StartFrame, TypeInv, TypeOK
<1>13. CASE TxTimeout(t)
  <2>1. ReaderTypes'
    BY <1>13 DEF TxTimeout, GoTo, ReaderPC, TypeInv, TypeOK, ReaderTypes
  <2>2. ResultTypes'
    BY <1>13 DEF TxTimeout, TypeInv, TypeOK, ResultTypes
  <2>3. FrameSized'
    BY <1>13 DEF TxTimeout, GoTo, entry, TypeInv, TypeOK, FrameSized, ReaderTypes, EntryTypes
  <2>4. QED
    BY <1>13, <2>1, <2>2, <2>3, TypesKept DEF TxTimeout, TypeInv, TypeOK
<1>14. CASE Complete(t)
  <2>1. ReaderTypes'
    BY <1>14 DEF Complete, GoTo, ReaderPC, TypeInv, TypeOK, ReaderTypes
  <2>2. WordTypes'
    BY <1>14 DEF Complete, SpState, ReaderTypes, TypeInv, TypeOK, WordTypes
  <2>3. FrameSized'
    BY <1>14 DEF Complete, GoTo, entry, TypeInv, TypeOK, FrameSized, ReaderTypes, EntryTypes
  <2>4. QED
    BY <1>14, <2>1, <2>2, <2>3, TypesKept DEF Complete, TypeInv, TypeOK
<1>15. CASE PostMon(t)
  <2>1. ReaderTypes'
    BY <1>15 DEF PostMon, GoTo, ReaderPC, TypeInv, TypeOK, ReaderTypes
  <2>2. SemTypes'
    BY <1>15 DEF PostMon, Post, TypeInv, TypeOK, SemTypes
  <2>3. FrameSized'
    BY <1>15 DEF PostMon, GoTo, entry, TypeInv, TypeOK, FrameSized, ReaderTypes, EntryTypes
  <2>4. QED
    BY <1>15, <2>1, <2>2, <2>3, TypesKept DEF PostMon, TypeInv, TypeOK
<1>16. CASE Receive(t)
  BY <1>16, ReceiveTypes, TypesKept DEF Receive, TypeInv, TypeOK
<1>17. QED
  BY <1>1, <1>2, <1>3, <1>4, <1>5, <1>6, <1>7, <1>8, <1>9, <1>10, <1>11, <1>12, <1>13, <1>14, <1>15, <1>16 DEF ReaderStep

LEMMA WriterKeepsTypes ==
  ASSUME TypeInv, NEW t \in Test, WriterStep(t), UNCHANGED options
  PROVE  TypeInv'
<1>1. CASE Ready(t)
  <2>1. WriterTypes'
    BY <1>1 DEF Ready, WriterGoTo, WriterPC, TypeInv, TypeOK, WriterTypes
  <2>2. WordTypes'
    BY <1>1 DEF Ready, SpState, TypeInv, TypeOK, WordTypes
  <2>3. QED
    BY <1>1, <2>1, <2>2, TypesKept DEF Ready, TypeInv, TypeOK
<1>2. CASE TakeFrame(t)
  <2>1. WriterTypes'
    BY <1>2 DEF TakeFrame, WriterGoTo, WriterPC, TypeInv, TypeOK, WriterTypes
  <2>2. SemTypes'
    BY <1>2 DEF TakeFrame, Wait, TypeInv, TypeOK, SemTypes
  <2>3. QED
    BY <1>2, <2>1, <2>2, TypesKept DEF TakeFrame, TypeInv, TypeOK
<1>3. CASE Transmit(t)
  <2>1. WriterTypes'
    BY <1>3 DEF Transmit, WriterGoTo, WriterPC, TypeInv, TypeOK, WriterTypes
  <2>2. WordTypes'
    BY <1>3 DEF Transmit, SpState, TypeInv, TypeOK, WordTypes
  <2>3. QED
    BY <1>3, <2>1, <2>2, TypesKept DEF Transmit, TypeInv, TypeOK
<1>4. CASE Write(t)
  <2>1. PICK n \in -1..comSz[t], lost \in BOOLEAN :
          /\ bCnt' = [bCnt EXCEPT ![t] = n]
          /\ wire' = [wire EXCEPT ![t] = IF lost THEN @ ELSE @ \o [i \in 1..n |-> comSz[t]]]
    BY <1>4 DEF Write
  <2>2. comSz[t] \in 0..MaxFrame /\ wire[t] \in Seq(1..MaxFrame) /\ MaxFrame \in Nat
    BY SweepAssumption DEF TypeInv, TypeOK, EntryTypes, LineTypes
  <2>3. wire[t] \o [i \in 1..n |-> comSz[t]] \in Seq(1..MaxFrame)
    BY <2>2, FrameIsSeq
  <2>4. LineTypes'
    BY <1>4, <2>1, <2>3 DEF Write, TypeInv, TypeOK, LineTypes
  <2>5. bCnt' \in [Test -> -1..MaxFrame]
    BY <2>1, <2>2 DEF TypeInv, TypeOK, WriterTypes
  <2>6. WriterTypes'
    BY <1>4, <2>5 DEF Write, WriterGoTo, WriterPC, TypeInv, TypeOK, WriterTypes
  <2>7. QED
    BY <1>4, <2>4, <2>6, TypesKept DEF Write, TypeInv, TypeOK
<1>5. CASE Count(t)
  <2>1. WriterTypes'
    BY <1>5 DEF Count, WriterGoTo, WriterPC, TypeInv, TypeOK, WriterTypes
  <2>2. WordTypes'
    BY <1>5 DEF Count, SpState, TypeInv, TypeOK, WordTypes
  <2>3. TxCountTypes'
    BY <1>5 DEF Count, TypeInv, TypeOK, TxCountTypes
  <2>4. ResultTypes'
    BY <1>5 DEF Count, TypeInv, TypeOK, ResultTypes
  <2>5. QED
    BY <1>5, <2>1, <2>2, <2>3, <2>4, TypesKept DEF Count, TypeInv, TypeOK
<1>6. QED
  BY <1>1, <1>2, <1>3, <1>4, <1>5 DEF WriterStep

LEMMA NextTest ==
  ASSUME MonitorTypes
  PROVE  /\ mt \in Test /\ 1 \in Test /\ iter - 1 \in Int
         /\ ~Last => mt + 1 \in Test
<1>1. NTests \in Nat \ {0}
  BY TestsAssumption
<1>2. mt \in Test /\ iter \in Int
  BY DEF MonitorTypes
<1>3. QED
  BY <1>1, <1>2 DEF Last, Test

LEMMA MonitorKeepsTypes ==
  ASSUME TypeInv, MonitorStep \/ Interrupt, UNCHANGED options
  PROVE  TypeInv'
<1>1. CASE PostReader
  <2>1. MonitorTypes'
    BY <1>1, NextTest DEF PostReader, MonitorPC, TypeInv, TypeOK, MonitorTypes
  <2>2. SemTypes'
    BY <1>1, NextTest DEF PostReader, Post, TypeInv, TypeOK, SemTypes
  <2>3. QED
    BY <1>1, <2>1, <2>2, TypesKept DEF PostReader, TypeInv, TypeOK
<1>2. CASE WaitTest
  <2>1. MonitorTypes'
    BY <1>2, NextTest DEF WaitTest, NextWait, MonitorPC, TypeInv, TypeOK, MonitorTypes
  <2>2. SemTypes'
    BY <1>2, NextTest DEF WaitTest, Wait, TypeInv, TypeOK, SemTypes
  <2>3. QED
    BY <1>2, <2>1, <2>2, TypesKept DEF WaitTest, TypeInv, TypeOK
<1>3. CASE TimedOut
  <2>1. MonitorTypes'
    BY <1>3, NextTest DEF TimedOut, Unblock, NextWait, MonitorPC, TypeInv, TypeOK, MonitorTypes
  <2>2. QED
    BY <1>3, <2>1, TypesKept DEF TimedOut, AllRead, TypeInv, TypeOK
<1>4. CASE Free
  <2>1. MonitorTypes'
    BY <1>4, NextTest DEF Free, MonitorPC, TypeInv, TypeOK, MonitorTypes
  <2>2. EntryTypes'
    BY <1>4, NextTest, SweepAssumption DEF Free, Beyond, TypeInv, TypeOK, EntryTypes
  <2>3. FrameSized'
    BY <1>4 DEF Free, entry, readers, TypeInv, TypeOK, FrameSized, ReaderTypes, EntryTypes
  <2>4. QED
    BY <1>4, <2>1, <2>2, <2>3, TypesKept DEF Free, TypeInv, TypeOK
<1>5. CASE JoinWriter
  <2>1. MonitorTypes'
    BY <1>5, NextTest DEF JoinWriter, MonitorPC, TypeInv, TypeOK, MonitorTypes
  <2>2. WriterTypes'
    BY <1>5 DEF JoinWriter, WriterGoTo, WriterPC, TypeInv, TypeOK, WriterTypes
  <2>3. QED
    BY <1>5, <2>1, <2>2, TypesKept DEF JoinWriter, TypeInv, TypeOK
<1>6. CASE JoinReader
  <2>1. MonitorTypes'
    BY <1>6, NextTest DEF JoinReader, MonitorPC, TypeInv, TypeOK, MonitorTypes
  <2>2. ReaderTypes'
    BY <1>6 DEF JoinReader, GoTo, ReaderPC, TypeInv, TypeOK, ReaderTypes
  <2>3. FrameSized'
    BY <1>6 DEF JoinReader, GoTo, entry, TypeInv, TypeOK, FrameSized, ReaderTypes, EntryTypes
  <2>4. QED
    BY <1>6, <2>1, <2>2, <2>3, TypesKept DEF JoinReader, TypeInv, TypeOK
<1>7. CASE Interrupt
  <2>1. signals' \in 0..MaxSignals /\ keepGoing' \in BOOLEAN
    <3>1. MaxSignals \in Nat
      BY EnvironmentAssumption
    <3>2. signals \in 0..MaxSignals
      BY DEF TypeInv, TypeOK, MonitorTypes
    <3>3. signals < MaxSignals /\ signals' = signals + 1
      BY <1>7 DEF Interrupt
    <3>4. signals' \in 0..MaxSignals
      BY <3>1, <3>2, <3>3
    <3>5. keepGoing' = FALSE
      BY <1>7 DEF Interrupt
    <3>6. QED
      BY <3>4, <3>5
  <2>2. mpc' \in MonitorPC /\ mt' \in Test /\ iter' \in Int
    <3>1. MonitorTypes
      BY DEF TypeInv, TypeOK
    <3>2. CASE NextWait
      BY <3>1, <3>2, NextTest DEF NextWait, MonitorPC, MonitorTypes
    <3>3. CASE UNCHANGED <<mpc, mt, iter>>
      BY <3>1, <3>3 DEF MonitorTypes
    <3>4. QED
      BY <1>7, <3>2, <3>3 DEF Interrupt, Unblock
  <2>3. MonitorTypes'
    BY <1>7, <2>1, <2>2 DEF Interrupt, TypeInv, TypeOK, MonitorTypes
  <2>4. QED
    BY <1>7, <2>3, TypesKept DEF Interrupt, AllRead, TypeInv, TypeOK
<1>8. QED
  BY <1>1, <1>2, <1>3, <1>4, <1>5, <1>6, <1>7 DEF MonitorStep

LEMMA TypeInit == Init => TypeInv
<1> SUFFICES ASSUME Init PROVE TypeInv
  OBVIOUS
<1>1. OptionTypes /\ SemTypes /\ WordTypes
  BY DEF Init, OptionTypes, SemTypes, WordTypes, SpState
<1>2. ReaderTypes /\ WriterTypes
  BY SweepAssumption DEF Init, ReaderTypes, WriterTypes, ReaderPC, WriterPC, SpState
<1>3. MonitorTypes
  BY TestsAssumption, OptionAssumption, EnvironmentAssumption DEF Init, MonitorTypes, MonitorPC, Test
<1>4. EntryTypes
  BY SweepAssumption DEF Init, EntryTypes, Beyond
<1>5. LineTypes
  BY EmptyWire, SweepAssumption DEF Init, LineTypes, Beyond
<1>6. RxCountTypes /\ TxCountTypes /\ ResultTypes
  BY DEF Init, RxCountTypes, TxCountTypes, ResultTypes
<1>7. FrameSized
  BY DEF Init, FrameSized
<1>8. QED
  BY <1>1, <1>2, <1>3, <1>4, <1>5, <1>6, <1>7 DEF TypeInv, TypeOK

LEMMA TypeStep == TypeInv /\ [Next]_vars => TypeInv'
<1> SUFFICES ASSUME TypeInv, [Next]_vars PROVE TypeInv'
  OBVIOUS
<1>1. CASE Monitor \/ (Interrupt /\ UNCHANGED options)
  BY <1>1, MonitorKeepsTypes DEF Monitor
<1>2. CASE \E t \in Test : Reader(t) \/ Writer(t)
  BY <1>2, ReaderKeepsTypes, WriterKeepsTypes DEF Reader, Writer
<1>3. CASE UNCHANGED vars
  BY <1>3, TypesKept DEF vars, TypeInv, TypeOK
<1>4. QED
  BY <1>1, <1>2, <1>3 DEF Next, Terminated

\* Every variable of the sweep has its type in every reachable state, for any
\* number of tests, rates, frame sizes and sweeps (serialFit, serialPort_r,
\* serialPort_w), whatever faults and signals there are.
THEOREM TypeCorrect == Spec => []TypeOK
<1>1. Spec => []TypeInv
  BY TypeInit, TypeStep, PTL DEF Spec
<1>2. TypeInv => TypeOK
  BY DEF TypeInv
<1>3. QED
  BY <1>1, <1>2, PTL

------------------------------------------------------------------------------
(* The barrier.  Each test is owed, by the place of the monitor, one post of *)
(* mp or none.  Exactly that is on its way: as a post of mp_r not yet taken, *)
(* as the reader at work, or as a post of mp.                                *)

Owed(t) == IF mpc = "post" THEN (IF t < mt THEN 1 ELSE 0)
           ELSE IF mpc = "wait" THEN (IF t >= mt THEN 1 ELSE 0) ELSE 0
AtWork(t) == IF Busy(t) THEN 1 ELSE 0
OnItsWay(t) == mp_r[t] + AtWork(t) + mp[t] = Owed(t)
BarrierInv == WholeWaits => \A t \in Test : OnItsWay(t)

LEMMA BarrierInit == Init => BarrierInv
BY DEF Init, BarrierInv, OnItsWay, AtWork, Owed, Busy, Test

\* Only Begin and PostMon touch the two semaphores of the monitor, and only they
\* begin or end the work on a sweep.
LEMMA ReaderKeepsAtWork ==
  ASSUME TypeInv, NEW t \in Test, ReaderStep(t), ~Begin(t), ~PostMon(t)
  PROVE  /\ UNCHANGED <<mp, mp_r, monitor>>
         /\ \A u \in Test : AtWork(u)' = AtWork(u)
<1>1. UNCHANGED <<mp, mp_r, monitor>>
  BY DEF ReaderStep, Park, Open, Rate, InitAlone, Check, Grant, Mark, Lock, Restore, Frame,
         StartFrame, TxTimeout, Receive, Complete, sems
<1>2. \E p \in ReaderPC : /\ rpc' = [rpc EXCEPT ![t] = p]
                          /\ p \in {"park", "waitMon", "cancelled"} <=> ~Busy(t)
  <2>1. CASE Receive(t)
    <3>1. \E ok : AfterFrame(t, ok)
      BY <2>1 DEF Receive, RxTypeZero, RxTypeOne, RxTypeTwo, RxTypeThree, Verdict
    <3>2. \E p \in {"complete", "frame", "rate"} : rpc' = [rpc EXCEPT ![t] = p]
      BY <3>1 DEF AfterFrame, GoTo
    <3>3. QED
      BY <2>1, <3>2 DEF Receive, Busy, ReaderPC
  <2>2. CASE Park(t) \/ Open(t) \/ Rate(t) \/ InitAlone(t) \/ Check(t) \/ Grant(t) \/ Mark(t)
    BY <2>2 DEF Park, Open, Rate, InitAlone, Check, Grant, Mark, GoTo, Busy, ReaderPC, TypeInv,
                TypeOK, ReaderTypes
  <2>3. CASE \/ Lock(t) \/ Restore(t) \/ Frame(t) \/ StartFrame(t) \/ TxTimeout(t)
             \/ Complete(t)
    BY <2>3 DEF Lock, Restore, Frame, StartFrame, TxTimeout, Complete, GoTo, Busy, ReaderPC
  <2>4. QED
    BY <2>1, <2>2, <2>3 DEF ReaderStep
<1>3. QED
  BY <1>1, <1>2 DEF AtWork, Busy, TypeInv, TypeOK, ReaderTypes

LEMMA BarrierReader ==
  ASSUME TypeInv, BarrierInv, NEW t \in Test, ReaderStep(t), UNCHANGED options
  PROVE  BarrierInv'
<1>1. UNCHANGED monitor
  BY DEF ReaderStep, Park, Begin, Open, Rate, InitAlone, Check, Grant, Mark, Lock, Restore,
         Frame, StartFrame, TxTimeout, Receive, Complete, PostMon
<1>2. WholeWaits' <=> WholeWaits
  BY <1>1 DEF WholeWaits, monitor, options
<1>3. \A u \in Test : Owed(u)' = Owed(u)
  BY <1>1 DEF Owed, monitor
<1>4. CASE ~Begin(t) /\ ~PostMon(t)
  BY <1>2, <1>3, <1>4, ReaderKeepsAtWork DEF BarrierInv, OnItsWay
<1>5. CASE Begin(t)
  <2>1. \A u \in Test : mp_r'[u] + AtWork(u)' + mp'[u] = mp_r[u] + AtWork(u) + mp[u]
    BY <1>5 DEF Begin, Wait, GoTo, AtWork, Busy, TypeInv, TypeOK, SemTypes, ReaderTypes
  <2>2. QED
    BY <1>2, <1>3, <2>1 DEF BarrierInv, OnItsWay
<1>6. CASE PostMon(t)
  <2>1. \A u \in Test : mp_r'[u] + AtWork(u)' + mp'[u] = mp_r[u] + AtWork(u) + mp[u]
    BY <1>6 DEF PostMon, Post, GoTo, AtWork, Busy, TypeInv, TypeOK, SemTypes, ReaderTypes
  <2>2. QED
    BY <1>2, <1>3, <2>1 DEF BarrierInv, OnItsWay
<1>7. QED
  BY <1>4, <1>5, <1>6

LEMMA BarrierMonitor ==
  ASSUME TypeInv, BarrierInv, MonitorStep \/ Interrupt, UNCHANGED options, WholeWaits'
  PROVE  \A t \in Test : OnItsWay(t)'
<1> USE DEF OnItsWay
<1>1. /\ mt \in 1..NTests /\ Test = 1..NTests
      /\ mp \in [Test -> Nat] /\ mp_r \in [Test -> Nat]
      /\ rpc \in [Test -> ReaderPC] /\ \A t \in Test : AtWork(t) \in {0, 1}
      /\ signals \in Nat /\ NTests \in Nat
  <2>1. mt \in 1..NTests /\ Test = 1..NTests /\ NTests \in Nat
    BY TestsAssumption DEF TypeInv, TypeOK, MonitorTypes, Test
  <2>2. signals \in Nat
    <3>1. MaxSignals \in Nat
      BY EnvironmentAssumption
    <3>2. signals \in 0..MaxSignals
      BY DEF TypeInv, TypeOK, MonitorTypes
    <3>3. QED
      BY <3>1, <3>2
  <2>3. mp \in [Test -> Nat] /\ mp_r \in [Test -> Nat] /\ rpc \in [Test -> ReaderPC]
    BY DEF TypeInv, TypeOK, SemTypes, ReaderTypes
  <2>4. QED
    BY <2>1, <2>2, <2>3 DEF AtWork
<1>2. WholeWaits /\ \A t \in Test : OnItsWay(t)
  <2>1. signals' = signals \/ signals' = signals + 1
    BY DEF MonitorStep, PostReader, WaitTest, TimedOut, Free, JoinWriter, JoinReader, Interrupt
  <2>2. WholeWaits
    BY <1>1, <2>1 DEF WholeWaits, options
  <2>3. QED
    BY <2>2 DEF BarrierInv
<1>3. CASE PostReader
  <2>1. \A t \in Test : /\ mp_r'[t] = mp_r[t] + (IF t = mt THEN 1 ELSE 0)
                        /\ mp'[t] = mp[t] /\ AtWork(t)' = AtWork(t)
    BY <1>1, <1>3 DEF PostReader, Post, AtWork, Busy, readers
  <2>2. \A t \in Test : Owed(t)' = Owed(t) + (IF t = mt THEN 1 ELSE 0)
    BY <1>1, <1>3 DEF PostReader, Last, Owed
  <2>3. \A t \in Test : mp[t] \in Nat /\ mp_r[t] \in Nat /\ AtWork(t) \in {0, 1} /\ Owed(t) \in {0, 1}
    BY <1>1 DEF Owed
  <2>4. QED
    BY <1>2, <2>1, <2>2, <2>3
<1>4. CASE WaitTest
  <2>1. \A t \in Test : /\ mp'[t] = mp[t] - (IF t = mt THEN 1 ELSE 0)
                        /\ mp_r'[t] = mp_r[t] /\ AtWork(t)' = AtWork(t)
    BY <1>1, <1>4 DEF WaitTest, Wait, AtWork, Busy, readers
  <2>2. \A t \in Test : Owed(t)' = Owed(t) - (IF t = mt THEN 1 ELSE 0)
    BY <1>1, <1>4 DEF WaitTest, NextWait, Last, Owed
  <2>3. \A t \in Test : mp[t] \in Nat /\ mp_r[t] \in Nat /\ AtWork(t) \in {0, 1} /\ Owed(t) \in {0, 1}
    BY <1>1 DEF Owed
  <2>4. QED
    BY <1>2, <2>1, <2>2, <2>3
<1>5. ~TimedOut
  BY <1>2 DEF TimedOut, WholeWaits
<1>6. CASE Free
  BY <1>1, <1>2, <1>6 DEF Free, Owed, AtWork, Busy, readers, sems
<1>7. CASE JoinWriter
  BY <1>1, <1>2, <1>7 DEF JoinWriter, Owed, AtWork, Busy, readers, sems
<1>8. CASE JoinReader
  <2>1. mp' = mp /\ mp_r' = mp_r
    BY <1>8 DEF JoinReader, sems
  <2>2. \A t \in Test : Owed(t) = 0 /\ Owed(t)' = 0
    BY <1>8 DEF JoinReader, Owed
  <2>3. \A t \in Test : ~Busy(t)
    BY <1>1, <1>2, <2>2 DEF AtWork
  <2>4. \A t \in Test : ~Busy(t)'
    BY <1>1, <1>8, <2>3 DEF JoinReader, GoTo, Busy
  <2>5. QED
    BY <1>2, <2>1, <2>2, <2>3, <2>4 DEF AtWork
<1>9. CASE Interrupt
  <2>1. UNCHANGED <<mpc, mt>>
    BY <1>1, <1>2, <1>9 DEF Interrupt, WholeWaits, options
  <2>2. UNCHANGED <<mp, mp_r, rpc>>
    BY <1>9 DEF Interrupt, AllRead, sems, readers
  <2>3. QED
    BY <1>2, <2>1, <2>2 DEF Owed, AtWork, Busy
<1>10. QED
  BY <1>3, <1>4, <1>5, <1>6, <1>7, <1>8, <1>9 DEF MonitorStep

LEMMA BarrierStep == TypeInv /\ BarrierInv /\ [Next]_vars => BarrierInv'
<1> SUFFICES ASSUME TypeInv, BarrierInv, [Next]_vars PROVE BarrierInv'
  OBVIOUS
<1>1. CASE Monitor \/ (Interrupt /\ UNCHANGED options)
  BY <1>1, BarrierMonitor DEF Monitor, BarrierInv
<1>2. ASSUME NEW t \in Test, Reader(t) PROVE BarrierInv'
  BY <1>2, BarrierReader DEF Reader
<1>3. CASE (\E t \in Test : Writer(t)) \/ UNCHANGED vars
  <2>1. UNCHANGED <<mp, mp_r, readers, monitor, options>>
    BY <1>3 DEF Writer, WriterStep, Ready, TakeFrame, Transmit, Write, Count, sems, vars
  <2>2. QED
    BY <2>1 DEF BarrierInv, WholeWaits, OnItsWay, Owed, AtWork, Busy, readers, monitor, options
<1>4. QED
  BY <1>1, <1>2, <1>3 DEF Next, Terminated

\* The loop of serialFit that waits for the tests is a barrier, whatever the number
\* of tests, as long as none of its waits is cut short: when a sweep starts and when
\* cancelSpDat starts, no reader is at work and no post is left over.
THEOREM BarrierHolds == Spec => []Barrier
<1>1. TypeInv /\ BarrierInv => Barrier
  <2> SUFFICES ASSUME TypeInv, BarrierInv, WholeWaits PROVE SweepComplete
    BY DEF Barrier
  <2>1. \A t \in Test : mp_r[t] \in Nat /\ mp[t] \in Nat /\ OnItsWay(t)
    BY DEF TypeInv, TypeOK, SemTypes, BarrierInv
  <2>2. \A t \in Test : Owed(t) = 0 => ~Busy(t) /\ mp_r[t] = 0 /\ mp[t] = 0
    BY <2>1 DEF OnItsWay, AtWork
  <2>3. mpc = "post" => \A t \in mt..NTests : t \in Test /\ Owed(t) = 0
    <3>1. NTests \in Nat /\ mt \in Test
      BY TestsAssumption DEF TypeInv, TypeOK, MonitorTypes
    <3>2. QED
      BY <3>1 DEF Owed, Test
  <2>4. Stopping => \A t \in Test : Owed(t) = 0
    BY DEF Stopping, Owed
  <2>5. QED
    BY <2>2, <2>3, <2>4 DEF SweepComplete
<1>2. QED
  BY <1>1, TypeInit, TypeStep, BarrierInit, BarrierStep, PTL DEF Spec

------------------------------------------------------------------------------
(* The refinement.  The posts that the barrier counts are the phases of the  *)
(* sweep: the post of mp_r starts a test, the post of mp finishes it, and    *)
(* the last one that the monitor takes ends the sweep.                       *)

\* The user cannot make a wait of the monitor return early.
AlwaysWhole ==
  \/ MonitorLoops \subseteq {"waitAndScroll"}
  \/ MonitorLoops \subseteq {"waitAndScroll", "waitAndBlock"} /\ MaxSignals = 0

LEMMA WholeAlways == AlwaysWhole /\ TypeInv => WholeWaits
<1> SUFFICES ASSUME AlwaysWhole, TypeInv PROVE WholeWaits
  OBVIOUS
<1>1. monitorLoop \in MonitorLoops /\ signals \in 0..MaxSignals
  BY DEF TypeInv, TypeOK, OptionTypes, MonitorTypes
<1>2. MaxSignals = 0 => signals = 0
  BY <1>1
<1>3. QED
  BY <1>1, <1>2 DEF AlwaysWhole, WholeWaits

Phases == [t \in Test |-> Phase(t)]
SamePhases == UNCHANGED <<Phases, Iterations - iter, Stopping>>

\* What the posts say of a phase.
LEMMA PhaseOfPosts ==
  ASSUME TypeInv, BarrierInv, WholeWaits, NEW t \in Test
  PROVE  /\ mp[t] \in Nat /\ (Busy(t) \/ mp_r[t] > 0 => mp[t] = 0)
         /\ Owed(t) = 0 => mp[t] = 0 /\ ~Busy(t)
<1>1. mp[t] \in Nat /\ mp_r[t] \in Nat /\ OnItsWay(t)
  BY DEF TypeInv, TypeOK, SemTypes, BarrierInv
<1>2. QED
  BY <1>1 DEF OnItsWay, AtWork, Owed

\* Where the monitor and the posts stay, so do the phases.
LEMMA QuietPhases ==
  ASSUME UNCHANGED <<mpc, mt, iter>>, \A t \in Test : mp'[t] = mp[t]
  PROVE  SamePhases
<1>1. \A t \in Test : Phase(t)' = Phase(t)
  BY DEF Phase, Stopping
<1>2. QED
  BY <1>1 DEF SamePhases, Phases, Stopping, Test

LEMMA SweepInit == Init => Sweep!Init
<1> SUFFICES ASSUME Init PROVE Sweep!Init
  OBVIOUS
<1>1. \A t \in Test : Phase(t) = "idle"
  BY TestsAssumption DEF Init, Phase, Stopping, Test
<1>2. Iterations - iter = 0
  BY OptionAssumption DEF Init
<1>3. Stopping = FALSE
  BY DEF Init, Stopping
<1>4. QED
  BY <1>1, <1>2, <1>3 DEF Sweep!Init

LEMMA SweepReader ==
  ASSUME TypeInv, BarrierInv, WholeWaits, NEW t \in Test, ReaderStep(t)
  PROVE  Sweep!Finish(t) \/ SamePhases
<1>1. UNCHANGED <<mpc, mt, iter>>
  BY DEF ReaderStep, Park, Begin, Open, Rate, InitAlone, Check, Grant, Mark, Lock, Restore,
         Frame, StartFrame, TxTimeout, Receive, Complete, PostMon, monitor
<1>2. CASE ~PostMon(t)
  <2>1. mp' = mp
    BY <1>2, ReaderKeepsAtWork DEF Begin
  <2>2. QED
    BY <1>1, <2>1, QuietPhases
<1>3. CASE PostMon(t)
  <2>1. Busy(t) /\ mp' = [mp EXCEPT ![t] = @ + 1]
    BY <1>3 DEF PostMon, Busy, Post
  <2>2. mp[t] = 0 /\ Owed(t) # 0
    BY <2>1, PhaseOfPosts
  <2>3. mp \in [Test -> Nat] /\ mt \in 1..NTests /\ Test = 1..NTests /\ NTests \in Nat
    BY TestsAssumption DEF TypeInv, TypeOK, SemTypes, MonitorTypes, Test
  <2>4. mp'[t] = 1 /\ \A u \in Test \ {t} : mp'[u] = mp[u]
    BY <2>1, <2>2, <2>3
  <2>5. (mpc = "post" /\ t < mt) \/ (mpc = "wait" /\ t >= mt)
    BY <2>2 DEF Owed
  <2>6. Phase(t) = "running"
    BY <2>2, <2>3, <2>5 DEF Phase, Stopping
  <2>7. Phase(t)' = "finished"
    BY <1>1, <2>3, <2>4, <2>5 DEF Phase, Stopping
  <2>8. \A u \in Test \ {t} : Phase(u)' = Phase(u)
    BY <1>1, <2>4 DEF Phase, Stopping
  <2>9. Test' = Test /\ Stopping' = Stopping /\ (Iterations - iter)' = Iterations - iter
    BY <1>1 DEF Test, Stopping
  <2>10. Phases' = [Phases EXCEPT ![t] = "finished"]
    BY <2>7, <2>8, <2>9 DEF Phases
  <2>11. Phases[t] = "running"
    BY <2>6 DEF Phases
  <2>12. QED
    BY <2>9, <2>10, <2>11 DEF Sweep!Finish, Phases
<1>4. QED
  BY <1>2, <1>3

\* The waits of the monitor go through the tests in order; the last one ends the sweep.
LEMMA SweepWait ==
  ASSUME TypeInv, BarrierInv, WholeWaits, WaitTest
  PROVE  Sweep!EndSweep \/ SamePhases
<1>1. mp \in [Test -> Nat] /\ mt \in 1..NTests /\ Test = 1..NTests /\ NTests \in Nat
  BY TestsAssumption DEF TypeInv, TypeOK, SemTypes, MonitorTypes, Test
<1>2. mpc = "wait" /\ mp[mt] > 0 /\ mp' = [mp EXCEPT ![mt] = @ - 1] /\ NextWait
  BY DEF WaitTest, Wait
<1>3. CASE ~Last
  <2>1. mpc' = "wait" /\ mt' = mt + 1 /\ iter' = iter
    BY <1>2, <1>3 DEF NextWait
  <2>2. \A u \in Test : Phase(u)' = Phase(u)
    <3>1. ASSUME NEW u \in Test, u < mt PROVE Phase(u)' = Phase(u)
      BY <1>1, <1>2, <2>1, <3>1 DEF Phase, Stopping
    <3>2. ASSUME NEW u \in Test, u = mt PROVE Phase(u)' = Phase(u)
      <4>1. Phase(u) = "finished"
        BY <1>1, <1>2, <3>2 DEF Phase, Stopping
      <4>2. u < mt'
        BY <1>1, <2>1, <3>2
      <4>3. Phase(u)' = "finished"
        BY <2>1, <4>2 DEF Phase, Stopping
      <4>4. QED
        BY <4>1, <4>3
    <3>3. ASSUME NEW u \in Test, u > mt PROVE Phase(u)' = Phase(u)
      <4>1. mp'[u] = mp[u] /\ ~(u < mt') /\ ~(u < mt)
        BY <1>1, <1>2, <2>1, <3>3
      <4>2. QED
        BY <1>2, <2>1, <4>1 DEF Phase, Stopping
    <3>4. QED
      BY <1>1, <3>1, <3>2, <3>3
  <2>3. QED
    BY <1>2, <2>1, <2>2 DEF SamePhases, Phases, Stopping, Test
<1>4. CASE Last
  <2>1. /\ mt = NTests /\ mt' = 1 /\ iter' = iter - 1
        /\ mpc' = IF keepGoing' /\ iter' > 0 THEN "post" ELSE "cancel"
    BY <1>2, <1>4 DEF NextWait, Last
  <2>2. \A u \in Test : Phase(u) = "finished"
    BY <1>1, <1>2, <2>1 DEF Phase, Stopping
  <2>3. \A u \in Test : Phase(u)' = "idle"
    BY <1>1, <2>1 DEF Phase, Stopping
  <2>4. iter \in Int /\ Iterations \in Nat
    BY OptionAssumption DEF TypeInv, TypeOK, MonitorTypes
  <2>5. (Iterations - iter)' = (Iterations - iter) + 1
    BY <2>1, <2>4
  <2>6. Iterations - iter' >= Iterations => Stopping'
    <3>1. Iterations - iter' >= Iterations => ~(iter' > 0)
      BY <2>1, <2>4
    <3>2. ~(iter' > 0) => mpc' = "cancel"
      BY <2>1
    <3>3. QED
      BY <3>1, <3>2 DEF Stopping
  <2>7. Stopping' \in BOOLEAN
    BY DEF Stopping
  <2>8. Test' = Test
    BY DEF Test
  <2>9. QED
    BY <2>2, <2>3, <2>5, <2>6, <2>7, <2>8 DEF Sweep!EndSweep
<1>5. QED
  BY <1>3, <1>4

LEMMA SweepPost ==
  ASSUME TypeInv, BarrierInv, WholeWaits, PostReader
  PROVE  Sweep!Start(mt)
<1>1. /\ mp \in [Test -> Nat] /\ mt \in 1..NTests /\ Test = 1..NTests /\ NTests \in Nat
      /\ iter \in Int
  BY TestsAssumption DEF TypeInv, TypeOK, SemTypes, MonitorTypes, Test
<1>2. mpc = "post" /\ mp' = mp /\ iter' = iter
  BY DEF PostReader
<1>3. \/ mt # NTests /\ mpc' = "post" /\ mt' = mt + 1
      \/ mt = NTests /\ mpc' = "wait" /\ mt' = 1
  BY DEF PostReader, Last
<1>4. ~Stopping /\ ~Stopping'
  BY <1>2, <1>3 DEF Stopping
<1>5. Phase(mt) = "idle"
  BY <1>1, <1>2 DEF Phase
<1>6. mp[mt] = 0
  <2>1. Owed(mt) = 0
    BY <1>1, <1>2 DEF Owed
  <2>2. QED
    BY <1>1, <2>1, PhaseOfPosts
<1>7. ASSUME NEW u \in Test, u < mt PROVE Phase(u)' = Phase(u)
  <2>1. mp'[u] = mp[u] /\ ~(mpc = "post" /\ u >= mt) /\ ~(mpc = "wait" /\ u < mt)
    BY <1>1, <1>2, <1>7
  <2>2. ~(mpc' = "post" /\ u >= mt') /\ ~(mpc' = "wait" /\ u < mt')
    BY <1>1, <1>3, <1>7
  <2>3. QED
    BY <1>4, <2>1, <2>2 DEF Phase
<1>8. ASSUME NEW u \in Test, u > mt PROVE Phase(u)' = Phase(u)
  <2>1. mpc' = "post" /\ u >= mt' /\ u >= mt
    BY <1>1, <1>3, <1>8
  <2>2. QED
    BY <1>2, <1>4, <2>1 DEF Phase
<1>9. ASSUME NEW u \in Test, u = mt PROVE Phase(u)' = "running"
  <2>1. ~(mp'[u] > 0) /\ ~(mpc' = "post" /\ u >= mt') /\ ~(mpc' = "wait" /\ u < mt')
    BY <1>1, <1>2, <1>3, <1>6, <1>9
  <2>2. QED
    BY <1>4, <2>1 DEF Phase
<1>10. Phases' = [Phases EXCEPT ![mt] = "running"]
  <2>1. Test' = Test
    BY DEF Test
  <2>2. \A u \in Test : Phase(u)' = IF u = mt THEN "running" ELSE Phase(u)
    BY <1>1, <1>7, <1>8, <1>9
  <2>3. QED
    BY <2>1, <2>2 DEF Phases
<1>11. Phases[mt] = "idle"
  BY <1>1, <1>5 DEF Phases
<1>12. Stopping' = Stopping /\ (Iterations - iter)' = Iterations - iter
  BY <1>2, <1>3 DEF Stopping
<1>13. QED
  BY <1>4, <1>10, <1>11, <1>12 DEF Sweep!Start, Phases

LEMMA SweepStep ==
  ASSUME AlwaysWhole, TypeInv, BarrierInv, [Next]_vars
  PROVE  Sweep!Next \/ SamePhases
<1>1. WholeWaits
  BY WholeAlways
<1>2. mt \in Test
  BY DEF TypeInv, TypeOK, MonitorTypes
<1>3. ASSUME NEW t \in Test, Reader(t) PROVE Sweep!Next \/ SamePhases
  BY <1>1, <1>3, SweepReader DEF Reader, Sweep!Next
<1>4. CASE (\E t \in Test : Writer(t)) \/ UNCHANGED vars
  <2>1. UNCHANGED <<mp, monitor>>
    BY <1>4 DEF Writer, WriterStep, Ready, TakeFrame, Transmit, Write, Count, sems, vars
  <2>2. QED
    BY <2>1, QuietPhases DEF monitor
<1>5. CASE PostReader
  BY <1>1, <1>2, <1>5, SweepPost DEF Sweep!Next
<1>6. CASE WaitTest
  BY <1>1, <1>6, SweepWait DEF Sweep!Next
<1>7. ~TimedOut
  BY <1>1 DEF TimedOut, WholeWaits
<1>8. CASE Free \/ JoinWriter \/ JoinReader
  <2>1. Stopping /\ Stopping' /\ iter' = iter
    BY <1>8 DEF Free, JoinWriter, JoinReader, Stopping
  <2>2. \A t \in Test : Phase(t)' = Phase(t)
    BY <2>1 DEF Phase
  <2>3. QED
    BY <2>1, <2>2 DEF SamePhases, Phases, Test
<1>9. CASE Interrupt
  <2>1. ~(monitorLoop = "waitAndUnblock") /\ (monitorLoop = "waitAndBlock" => MaxSignals = 0)
    BY DEF AlwaysWhole, TypeInv, TypeOK, OptionTypes
  <2>2. signals < MaxSignals /\ MaxSignals \in Nat /\ signals \in 0..MaxSignals
    BY <1>9, EnvironmentAssumption DEF Interrupt, TypeInv, TypeOK, MonitorTypes
  <2>3. UNCHANGED <<mpc, mt, iter, spd>> /\ mp' = mp
    BY <1>9, <2>1, <2>2 DEF Interrupt, AllRead, sems
  <2>4. QED
    BY <2>3, QuietPhases
<1>10. QED
  BY <1>3, <1>4, <1>5, <1>6, <1>7, <1>8, <1>9 DEF Next, Monitor, MonitorStep, Terminated

\* The monitor, the readers and the writers with their semaphores implement the barrier
\* of SerialSweep (serialFit, the operational loop, and serialPort_r), for every number of
\* tests, rates, frame sizes and sweeps and all faults: tests run side by side, a sweep ends
\* when each has finished, and the run ends with a sweep.
THEOREM SweepImplemented ==
  ASSUME AlwaysWhole
  PROVE  Spec => Sweep!Spec
<1>1. TypeInv /\ BarrierInv /\ [Next]_vars => [Sweep!Next]_(Sweep!vars)
  BY SweepStep DEF SamePhases, Phases, Sweep!vars
<1>2. QED
  BY <1>1, SweepInit, TypeInit, TypeStep, BarrierInit, BarrierStep, PTL DEF Spec, Sweep!Spec

------------------------------------------------------------------------------
(* Frames.  A reader is cancelled only after its writer was: until then a     *)
(* frame it is receiving is accounted for on both sides.                      *)

WriterCancelledFirst == mpc = "joinR" => wpc[mt] = "cancelled"
Asked(t) == txOK[t] + txNG[t] + mp_w[t] + (IF Sending(t) THEN 1 ELSE 0)
Answered(t) == rxOK[t] + rxNG[t] + (IF rpc[t] = "receive" THEN 1 ELSE 0)
Conserved(t) == wpc[t] # "cancelled" => Asked(t) = Answered(t)
FrameInv == WriterCancelledFirst /\ (rxType \in {0, 2} => \A t \in Test : Conserved(t))

LEMMA FrameInit == Init => FrameInv
BY DEF Init, FrameInv, WriterCancelledFirst, Conserved, Asked, Answered, Sending

\* What the counts of a test are made of.
LEMMA CountsAreNat ==
  ASSUME TypeInv
  PROVE  /\ txOK \in [Test -> Nat] /\ txNG \in [Test -> Nat] /\ mp_w \in [Test -> Nat]
         /\ rxOK \in [Test -> Nat] /\ rxNG \in [Test -> Nat]
         /\ rpc \in [Test -> ReaderPC] /\ wpc \in [Test -> WriterPC]
BY DEF TypeInv, TypeOK, RxCountTypes, TxCountTypes, SemTypes, ReaderTypes, WriterTypes

\* A reader that waits for its frame counts it once, when it stops waiting.
LEMMA ReceiveCounts ==
  ASSUME TypeInv, NEW t \in Test, Receive(t), rxType \in {0, 2}
  PROVE  /\ \E i, j \in {0, 1} : /\ i + j = 1
                                 /\ rxOK' = [rxOK EXCEPT ![t] = @ + i]
                                 /\ rxNG' = [rxNG EXCEPT ![t] = @ + j]
         /\ \E p \in {"complete", "frame", "rate"} : rpc' = [rpc EXCEPT ![t] = p]
<1>1. \E ok \in BOOLEAN : Verdict(t, ok, Failed(ok))
  <2>1. Match(t) \in BOOLEAN
    BY DEF Match
  <2>2. Failed(FALSE) = 1
    BY DEF Failed
  <2>3. CASE RxTypeZero(t)
    BY <2>1, <2>2, <2>3 DEF RxTypeZero
  <2>4. CASE RxTypeTwo(t)
    BY <2>1, <2>2, <2>4 DEF RxTypeTwo
  <2>5. ~RxTypeOne(t) /\ ~RxTypeThree(t)
    <3>1. (RxTypeOne(t) => rxType = 1) /\ (RxTypeThree(t) => rxType = 3)
      BY DEF RxTypeOne, RxTypeThree
    <3>2. QED
      BY <3>1
  <2>6. QED
    BY <2>3, <2>4, <2>5 DEF Receive
<1>2. PICK ok \in BOOLEAN : Verdict(t, ok, Failed(ok))
  BY <1>1
<1>3. AfterFrame(t, ok)
  BY <1>2 DEF Verdict
<1>4. \E p \in {"complete", "frame", "rate"} : rpc' = [rpc EXCEPT ![t] = p]
  BY <1>3 DEF AfterFrame, GoTo
<1>5. CASE ok = TRUE
  <2>1. Verdict(t, TRUE, 0)
    BY <1>2, <1>5 DEF Failed
  <2>2. rxOK' = [rxOK EXCEPT ![t] = @ + 1] /\ rxNG' = [rxNG EXCEPT ![t] = @ + 0]
    BY <2>1 DEF Verdict
  <2>3. \E i, j \in {0, 1} : /\ i + j = 1
                             /\ rxOK' = [rxOK EXCEPT ![t] = @ + i]
                             /\ rxNG' = [rxNG EXCEPT ![t] = @ + j]
    BY <2>2
  <2>4. QED
    BY <1>4, <2>3
<1>6. CASE ok = FALSE
  <2>1. Verdict(t, FALSE, 1)
    BY <1>2, <1>6 DEF Failed
  <2>2. rxOK' = [rxOK EXCEPT ![t] = @ + 0] /\ rxNG' = [rxNG EXCEPT ![t] = @ + 1]
    BY <2>1 DEF Verdict
  <2>3. \E i, j \in {0, 1} : /\ i + j = 1
                             /\ rxOK' = [rxOK EXCEPT ![t] = @ + i]
                             /\ rxNG' = [rxNG EXCEPT ![t] = @ + j]
    BY <2>2
  <2>4. QED
    BY <1>4, <2>3
<1>7. QED
  BY <1>5, <1>6

LEMMA FrameReader ==
  ASSUME TypeInv, FrameInv, NEW t \in Test, ReaderStep(t), UNCHANGED options
  PROVE  FrameInv'
<1>1. UNCHANGED <<monitor, writers, txCount>>
  BY DEF ReaderStep, Park, Begin, Open, Rate, InitAlone, Check, Grant, Mark, Lock, Restore,
         Frame, StartFrame, TxTimeout, Receive, Complete, PostMon
<1>2. WriterCancelledFirst'
  BY <1>1 DEF FrameInv, WriterCancelledFirst, monitor, writers
<1>3. SUFFICES ASSUME rxType \in {0, 2}, NEW u \in Test PROVE Conserved(u)'
  BY <1>2 DEF FrameInv, options
<1>4. Conserved(u)
  BY <1>3 DEF FrameInv
<1>5. UNCHANGED <<txOK, txNG, wpc>> /\ Sending(u)' = Sending(u)
  BY <1>1 DEF txCount, writers, Sending
<1>6. CASE StartFrame(t)
  BY <1>4, <1>5, <1>6, CountsAreNat DEF StartFrame, Post, GoTo, rxCount, Conserved, Asked, Answered
<1>7. CASE Receive(t)
  <2>1. UNCHANGED mp_w /\ rpc[t] = "receive"
    BY <1>7 DEF Receive, sems
  <2>2. PICK i, j \in {0, 1} : /\ i + j = 1
                               /\ rxOK' = [rxOK EXCEPT ![t] = @ + i]
                               /\ rxNG' = [rxNG EXCEPT ![t] = @ + j]
    BY <1>3, <1>7, ReceiveCounts
  <2>3. PICK p \in {"complete", "frame", "rate"} : rpc' = [rpc EXCEPT ![t] = p]
    BY <1>3, <1>7, ReceiveCounts
  <2>4. Asked(u)' = Asked(u)
    BY <1>5, <2>1 DEF Asked
  <2>5. Answered(u)' = Answered(u)
    BY <2>1, <2>2, <2>3, CountsAreNat DEF Answered
  <2>6. QED
    BY <1>4, <1>5, <2>4, <2>5 DEF Conserved
<1>8. CASE ~StartFrame(t) /\ ~Receive(t)
  <2>1. UNCHANGED <<mp_w, rxOK, rxNG>>
    BY <1>8 DEF ReaderStep, Park, Begin, Open, Rate, InitAlone, Check, Grant, Mark, Lock, Restore,
                Frame, TxTimeout, Complete, PostMon, sems, rxCount
  <2>2. \E p \in ReaderPC \ {"receive"} : rpc' = [rpc EXCEPT ![t] = p] /\ rpc[t] # "receive"
    <3>1. CASE Park(t) \/ Begin(t) \/ Open(t) \/ InitAlone(t) \/ Check(t) \/ Grant(t) \/ Mark(t)
      BY <3>1 DEF Park, Begin, Open, InitAlone, Check, Grant, Mark, GoTo, ReaderPC
    <3>2. CASE Rate(t)
      BY <3>2, CountsAreNat DEF Rate, GoTo, ReaderPC
    <3>3. CASE \/ Lock(t) \/ Restore(t) \/ Frame(t) \/ TxTimeout(t) \/ Complete(t) \/ PostMon(t)
      BY <3>3 DEF Lock, Restore, Frame, TxTimeout, Complete, PostMon, GoTo, ReaderPC
    <3>4. QED
      BY <1>8, <3>1, <3>2, <3>3 DEF ReaderStep
  <2>3. rpc'[u] = "receive" <=> rpc[u] = "receive"
    BY <2>2, CountsAreNat
  <2>4. QED
    BY <1>4, <1>5, <2>1, <2>3 DEF Conserved, Asked, Answered
<1>9. QED
  BY <1>6, <1>7, <1>8

LEMMA FrameWriter ==
  ASSUME TypeInv, FrameInv, NEW t \in Test, WriterStep(t), UNCHANGED options
  PROVE  FrameInv'
<1>1. UNCHANGED <<monitor, readers, rxCount>>
  BY DEF WriterStep, Ready, TakeFrame, Transmit, Write, Count
<1>2. wpc[t] # "cancelled" /\ \E p \in WriterPC \ {"cancelled"} : wpc' = [wpc EXCEPT ![t] = p]
  BY DEF WriterStep, Ready, TakeFrame, Transmit, Write, Count, WriterGoTo, WriterPC
<1>3. \A u \in Test : (wpc'[u] = "cancelled") <=> (wpc[u] = "cancelled")
  BY <1>2, CountsAreNat
<1>4. WriterCancelledFirst'
  BY <1>1, <1>3 DEF FrameInv, WriterCancelledFirst, monitor, TypeInv, TypeOK, MonitorTypes
<1>5. SUFFICES ASSUME rxType \in {0, 2}, NEW u \in Test PROVE Asked(u)' = Asked(u)
  <2>1. \A u \in Test : Answered(u)' = Answered(u)
    BY <1>1 DEF Answered, rxCount, readers
  <2>2. QED
    BY <1>3, <1>4, <1>5, <2>1 DEF FrameInv, Conserved, options
<1>6. CASE Ready(t) \/ Transmit(t) \/ Write(t)
  <2>1. UNCHANGED <<txOK, txNG, mp_w>>
    BY <1>6 DEF Ready, Transmit, Write, txCount, sems
  <2>2. Sending(u)' <=> Sending(u)
    BY <1>6, CountsAreNat DEF Ready, Transmit, Write, WriterGoTo, Sending
  <2>3. QED
    BY <2>1, <2>2 DEF Asked
<1>7. CASE TakeFrame(t)
  BY <1>7, CountsAreNat DEF TakeFrame, Wait, WriterGoTo, Asked, Sending, txCount
<1>8. CASE Count(t)
  <2>1. \E i, j \in {0, 1} : /\ i + j = 1
                             /\ txOK' = [txOK EXCEPT ![t] = @ + i]
                             /\ txNG' = [txNG EXCEPT ![t] = @ + j]
    <3> DEFINE ok == bCnt[t] # -1 /\ (rxType = 2 \/ bCnt[t] = comSz[t])
    <3>1. CASE ok
      <4>1. txOK' = [txOK EXCEPT ![t] = @ + 1] /\ txNG' = [txNG EXCEPT ![t] = @ + 0]
        BY <1>8, <3>1 DEF Count
      <4>2. QED
        BY <4>1
    <3>2. CASE ~ok
      <4>1. txOK' = [txOK EXCEPT ![t] = @ + 0] /\ txNG' = [txNG EXCEPT ![t] = @ + 1]
        BY <1>8, <3>2 DEF Count
      <4>2. QED
        BY <4>1
    <3>3. QED
      BY <3>1, <3>2
  <2>2. UNCHANGED mp_w /\ wpc' = [wpc EXCEPT ![t] = "ready"] /\ wpc[t] = "count"
    BY <1>8 DEF Count, WriterGoTo, sems
  <2>3. QED
    BY <2>1, <2>2, CountsAreNat DEF Asked, Sending
<1>9. QED
  BY <1>6, <1>7, <1>8 DEF WriterStep

LEMMA FrameMonitor ==
  ASSUME TypeInv, FrameInv, MonitorStep \/ Interrupt, UNCHANGED options
  PROVE  FrameInv'
<1>1. UNCHANGED <<rxCount, txCount, mp_w>>
  BY DEF MonitorStep, PostReader, WaitTest, TimedOut, Free, JoinWriter, JoinReader, Interrupt,
         AllRead, sems
<1>2. CASE JoinWriter
  <2>1. mt \in Test /\ wpc' = [wpc EXCEPT ![mt] = "cancelled"] /\ UNCHANGED <<mt, rpc>>
    BY <1>2 DEF JoinWriter, WriterGoTo, readers, TypeInv, TypeOK, MonitorTypes
  <2>2. WriterCancelledFirst'
    BY <2>1, CountsAreNat DEF WriterCancelledFirst
  <2>3. \A u \in Test : Conserved(u) => Conserved(u)'
    BY <1>1, <2>1, CountsAreNat DEF Conserved, Asked, Answered, Sending, rxCount, txCount
  <2>4. QED
    BY <2>2, <2>3 DEF FrameInv, options
<1>3. CASE JoinReader
  <2>1. mt \in Test /\ wpc[mt] = "cancelled" /\ rpc' = [rpc EXCEPT ![mt] = "cancelled"]
    BY <1>3 DEF JoinReader, GoTo, FrameInv, WriterCancelledFirst, TypeInv, TypeOK, MonitorTypes
  <2>2. mpc' # "joinR" /\ UNCHANGED wpc
    BY <1>3 DEF JoinReader, writers
  <2>3. \A u \in Test : Conserved(u) => Conserved(u)'
    BY <1>1, <2>1, <2>2, CountsAreNat DEF Conserved, Asked, Answered, Sending, rxCount, txCount
  <2>4. QED
    BY <2>2, <2>3 DEF FrameInv, WriterCancelledFirst, options
<1>4. CASE PostReader \/ WaitTest \/ TimedOut \/ Free \/ Interrupt
  <2>1. UNCHANGED <<readers, writers>>
    BY <1>4 DEF PostReader, WaitTest, TimedOut, Free, Interrupt, AllRead
  <2>2. mpc' # "joinR" \/ UNCHANGED <<mpc, mt>>
    <3>1. CASE NextWait \/ Unblock
      BY <1>4, <3>1 DEF NextWait, Unblock, PostReader, WaitTest, TimedOut, Free, Interrupt
    <3>2. CASE ~NextWait /\ ~Unblock
      BY <1>4, <3>2 DEF PostReader, WaitTest, TimedOut, Free, Interrupt
    <3>3. QED
      BY <3>1, <3>2
  <2>3. \A u \in Test : Conserved(u) => Conserved(u)'
    BY <1>1, <2>1 DEF Conserved, Asked, Answered, Sending, rxCount, txCount, readers, writers
  <2>4. QED
    BY <2>1, <2>2, <2>3 DEF FrameInv, WriterCancelledFirst, options, writers
<1>5. QED
  BY <1>2, <1>3, <1>4 DEF MonitorStep

LEMMA FrameStep == TypeInv /\ FrameInv /\ [Next]_vars => FrameInv'
<1> SUFFICES ASSUME TypeInv, FrameInv, [Next]_vars PROVE FrameInv'
  OBVIOUS
<1>1. CASE Monitor \/ (Interrupt /\ UNCHANGED options)
  BY <1>1, FrameMonitor DEF Monitor
<1>2. CASE \E t \in Test : Reader(t) \/ Writer(t)
  BY <1>2, FrameReader, FrameWriter DEF Reader, Writer
<1>3. CASE UNCHANGED vars
  <2>1. UNCHANGED <<sems, readers, writers, monitor, rxCount, txCount, options>>
    BY <1>3 DEF vars
  <2>2. QED
    BY <2>1 DEF FrameInv, WriterCancelledFirst, Conserved, Asked, Answered, Sending, sems,
                readers, writers, monitor, rxCount, txCount, options
<1>4. QED
  BY <1>1, <1>2, <1>3 DEF Next, Terminated

\* No frame gets lost between the two threads of a test (spExtLpback), in any
\* interleaving and whatever read and write return, up to the cancel of the writer.
THEOREM FramesConserved == Spec => []FrameConservation
<1>1. FrameInv => FrameConservation
  BY DEF FrameInv, FrameConservation, Conserved, Asked, Answered
<1>2. QED
  BY <1>1, TypeInit, TypeStep, FrameInit, FrameStep, PTL DEF Spec

------------------------------------------------------------------------------
(* The readers and their words.                                               *)

\* A test has at most one concurrent test, and is that one's.
LEMMA OnePartner ==
  \A t \in Test : \A c, d \in Concurrent(t) : c \in Test /\ c # t /\ c = d /\ t \in Concurrent(c)
BY TestsAssumption DEF Concurrent

\* A step of a reader moves no other reader and no other reader's word, and gets to
\* mark and to lock only by Check and Mark.
LEMMA ReaderMoves ==
  ASSUME TypeInv, NEW t \in Test, ReaderStep(t)
  PROVE  /\ \A u \in Test \ {t} : rpc'[u] = rpc[u] /\ spSt_r'[u] = spSt_r[u]
         /\ rpc'[t] = "mark" => Check(t)
         /\ rpc'[t] = "lock" => Mark(t)
<1>1. rpc \in [Test -> ReaderPC] /\ spSt_r \in [Test -> SpState]
  BY DEF TypeInv, TypeOK, ReaderTypes, WordTypes
<1>2. CASE Receive(t)
  <2>1. \E ok : AfterFrame(t, ok)
    BY <1>2 DEF Receive, RxTypeZero, RxTypeOne, RxTypeTwo, RxTypeThree, Verdict
  <2>2. \E p \in {"complete", "frame", "rate"} : rpc' = [rpc EXCEPT ![t] = p]
    BY <2>1 DEF AfterFrame, GoTo
  <2>3. QED
    BY <1>1, <1>2, <2>2 DEF Receive, words
<1>3. CASE Park(t) \/ Begin(t) \/ Open(t) \/ InitAlone(t) \/ Grant(t)
  BY <1>1, <1>3 DEF Park, Begin, Open, InitAlone, Grant, GoTo, words
<1>4. CASE Rate(t)
  BY <1>1, <1>4 DEF Rate, GoTo, words
<1>5. CASE Check(t)
  BY <1>1, <1>5 DEF Check, GoTo, words
<1>6. CASE Mark(t)
  BY <1>1, <1>6 DEF Mark, GoTo
<1>7. CASE Lock(t) \/ Restore(t) \/ Frame(t) \/ StartFrame(t)
  BY <1>1, <1>7 DEF Lock, Restore, Frame, StartFrame, GoTo, words
<1>8. CASE TxTimeout(t) \/ Complete(t) \/ PostMon(t)
  BY <1>1, <1>8 DEF TxTimeout, Complete, PostMon, GoTo, words
<1>9. QED
  BY <1>2, <1>3, <1>4, <1>5, <1>6, <1>7, <1>8 DEF ReaderStep
===============================================================================
