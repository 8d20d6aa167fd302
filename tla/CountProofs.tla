------------------------------ MODULE CountProofs ------------------------------
(****************************************************************************)
(* Proofs about what the verdict of the sweep says, for every number of     *)
(* tests, rates, frame sizes and sweeps: a run that ends with PASSED has    *)
(* counted every frame, and faultless devices let a run end with nothing    *)
(* else.                                                                    *)
(****************************************************************************)
EXTENDS RateProofs, FiniteSetTheorems

------------------------------------------------------------------------------
(* The frames of a sweep.                                                   *)

Sizes == MaxFrame - MinFrame + 1
PerRate == FrameIter * Sizes
RateCount(t) == Cardinality(RatesRun[t])
PerSweep(t) == RateCount(t) * PerRate
RatesBefore(t, l) == Cardinality({r \in RatesRun[t] : r < l})

LEMMA SizeTypes ==
  /\ MinFrame \in Nat \ {0} /\ MaxFrame \in Nat /\ MinFrame <= MaxFrame
  /\ FrameIter \in Nat \ {0} /\ Sizes \in Nat \ {0} /\ PerRate \in Nat \ {0}
<1>1. /\ MinFrame \in Nat \ {0} /\ MaxFrame \in Nat /\ MinFrame <= MaxFrame
      /\ FrameIter \in Nat \ {0}
  BY SweepAssumption
<1>2. Sizes \in Nat \ {0}
  BY <1>1 DEF Sizes
<1>3. PerRate \in Nat \ {0}
  BY <1>1, <1>2 DEF PerRate
<1>4. QED
  BY <1>1, <1>2, <1>3

\* The rates of a test are counted one by one on the way through the table.
LEMMA RatesCounted ==
  ASSUME NEW t \in Test
  PROVE  /\ RateCount(t) \in Nat /\ PerSweep(t) \in Nat
         /\ RatesBefore(t, 1) = 0
         /\ \A l \in Nat : /\ RatesBefore(t, l) \in Nat
                           /\ l \in RatesRun[t] => RatesBefore(t, l + 1) = RatesBefore(t, l) + 1
                           /\ l \notin RatesRun[t] => RatesBefore(t, l + 1) = RatesBefore(t, l)
                           /\ l > NRates => RatesBefore(t, l) = RateCount(t)
<1>1. NRates \in Nat /\ RatesRun[t] \in SUBSET (1..NRates)
  BY SweepAssumption
<1>2. IsFiniteSet(1..NRates)
  BY <1>1, FS_Interval
<1>3. IsFiniteSet(RatesRun[t])
  BY <1>1, <1>2, FS_Subset
<1>4. RateCount(t) \in Nat /\ PerSweep(t) \in Nat
  <2>1. RateCount(t) \in Nat
    BY <1>3, FS_CardinalityType DEF RateCount
  <2>2. QED
    BY <2>1, SizeTypes DEF PerSweep
<1>5. RatesBefore(t, 1) = 0
  <2>1. {r \in RatesRun[t] : r < 1} = {}
    BY <1>1
  <2>2. QED
    BY <2>1, FS_EmptySet DEF RatesBefore
<1>6. ASSUME NEW l \in Nat
      PROVE  /\ RatesBefore(t, l) \in Nat
             /\ l \in RatesRun[t] => RatesBefore(t, l + 1) = RatesBefore(t, l) + 1
             /\ l \notin RatesRun[t] => RatesBefore(t, l + 1) = RatesBefore(t, l)
             /\ l > NRates => RatesBefore(t, l) = RateCount(t)
  <2> DEFINE Below == {r \in RatesRun[t] : r < l}
  <2>1. Below \in SUBSET RatesRun[t] /\ l \notin Below
    BY <1>1
  <2>2. IsFiniteSet(Below)
    BY <1>3, <2>1, FS_Subset
  <2>3. RatesBefore(t, l) \in Nat
    BY <2>2, FS_CardinalityType DEF RatesBefore
  <2>4. CASE l \in RatesRun[t]
    <3>1. {r \in RatesRun[t] : r < l + 1} = Below \cup {l}
      BY <1>1, <2>4
    <3>2. Cardinality(Below \cup {l}) = Cardinality(Below) + 1
      BY <2>1, <2>2, FS_AddElement
    <3>3. ~(l > NRates)
      BY <1>1, <2>4
    <3>4. QED
      BY <2>3, <2>4, <3>1, <3>2, <3>3 DEF RatesBefore
  <2>5. CASE l \notin RatesRun[t]
    <3>1. {r \in RatesRun[t] : r < l + 1} = Below
      BY <1>1, <2>5
    <3>2. l > NRates => Below = RatesRun[t]
      BY <1>1
    <3>3. QED
      BY <2>3, <2>5, <3>1, <3>2 DEF RatesBefore, RateCount
  <2>6. QED
    BY <2>4, <2>5
<1>7. QED
  BY <1>4, <1>5, <1>6

------------------------------------------------------------------------------
(* What a test has received.  As long as nothing has failed, its reader has  *)
(* counted the frames of the sweeps before and of the part of this one that  *)
(* its place in the three nested loops says.                                 *)

AtRate == {"rate", "init", "check", "grant", "mark", "lock", "restore"}
AtFrame == {"frame", "poll", "receive"}

InSweep(t) ==
  IF rpc[t] \in AtRate THEN RatesBefore(t, lbrp[t]) * PerRate
  ELSE IF rpc[t] \in AtFrame
       THEN RatesBefore(t, lbrp[t]) * PerRate + (iterCnt[t] - 1) * Sizes + (comSize[t] - MinFrame)
  ELSE IF Through(t) THEN PerSweep(t) ELSE 0

\* A reader at work is at an entry of its table or at the end of it.
Placed(t) ==
  /\ rpc[t] \in AtRate \cup AtFrame => lbrp[t] \in 1..NRates + 1
  /\ rpc[t] \in (AtRate \cup AtFrame) \ {"rate"} => lbrp[t] \in RatesRun[t]
  /\ rpc[t] \in AtFrame => iterCnt[t] >= 1

Counted(t) ==
  /\ Placed(t)
  /\ rxNG[t] = 0 /\ txNG[t] = 0
  /\ rxOK[t] = (Iterations - iter) * PerSweep(t) + InSweep(t)

Clean == WholeWaits /\ ~ftFailed /\ rxType # 3
CountInv == Clean => \A t \in Test : Counted(t)

LEMMA CountInit == Init => CountInv
<1> SUFFICES ASSUME Init, NEW t \in Test PROVE Counted(t)
  BY DEF CountInv
<1>1. rpc[t] = "park" /\ rxOK[t] = 0 /\ rxNG[t] = 0 /\ txNG[t] = 0 /\ mp[t] = 0 /\ mpc = "post"
  BY DEF Init
<1>2. InSweep(t) = 0 /\ Placed(t)
  BY <1>1 DEF InSweep, Placed, AtRate, AtFrame, Through
<1>3. Iterations - iter = 0 /\ PerSweep(t) \in Nat
  BY OptionAssumption, RatesCounted DEF Init
<1>4. QED
  BY <1>1, <1>2, <1>3 DEF Counted

------------------------------------------------------------------------------
(* The reader.                                                              *)

\* The failure of every open shows in the result (that of the receiver of a cable does not).
OpensCounted == "open" \notin Faults \/ \A t \in Test : Loopback(t)

\* A receive that leaves the run without a failure has counted one good frame.
LEMMA ReceivesWell ==
  ASSUME TypeInv, NEW t \in Test, Receive(t), rxType # 3, ~ftFailed'
  PROVE  /\ rxOK' = [rxOK EXCEPT ![t] = @ + 1]
         /\ \A u \in Test : rxNG'[u] = rxNG[u]
         /\ AfterFrame(t, TRUE)
<1>1. comSz[t] \in Nat /\ comSz[t] > 0 /\ rxOK \in [Test -> Nat] /\ rxNG \in [Test -> Nat]
  BY SweepAssumption DEF Receive, TypeInv, TypeOK, EntryTypes, FrameSized, RxCountTypes
<1>2. \E ok \in BOOLEAN, ng \in Nat : Verdict(t, ok, ng) /\ (ok \/ ng > 0)
  <2>1. \/ \E ok \in BOOLEAN : Verdict(t, ok, Failed(ok))
        \/ \E ok \in BOOLEAN : Verdict(t, ok, comSz[t] - 1 + Failed(ok))
        \/ Verdict(t, FALSE, comSz[t])
    <3>1. Match(t) \in BOOLEAN /\ FALSE \in BOOLEAN
      BY DEF Match
    <3>2. Failed(FALSE) = 1
      BY DEF Failed
    <3>3. RxTypeZero(t) \/ RxTypeOne(t) \/ RxTypeTwo(t)
      BY DEF Receive, RxTypeThree
    <3>4. QED
      BY <3>1, <3>2, <3>3 DEF RxTypeZero, RxTypeOne, RxTypeTwo
  <2>2. ASSUME NEW ok \in BOOLEAN
        PROVE  /\ Failed(ok) \in Nat /\ (ok \/ Failed(ok) > 0)
               /\ comSz[t] - 1 + Failed(ok) \in Nat /\ (ok \/ comSz[t] - 1 + Failed(ok) > 0)
    <3>1. CASE ok = TRUE
      BY <1>1, <3>1 DEF Failed
    <3>2. CASE ok = FALSE
      BY <1>1, <3>2 DEF Failed
    <3>3. QED
      BY <3>1, <3>2
  <2>3. CASE \E ok \in BOOLEAN : Verdict(t, ok, Failed(ok))
    BY <2>2, <2>3
  <2>4. CASE \E ok \in BOOLEAN : Verdict(t, ok, comSz[t] - 1 + Failed(ok))
    BY <2>2, <2>4
  <2>5. CASE Verdict(t, FALSE, comSz[t])
    BY <1>1, <2>5
  <2>6. QED
    BY <2>1, <2>3, <2>4, <2>5
<1>3. PICK ok \in BOOLEAN, ng \in Nat : Verdict(t, ok, ng) /\ (ok \/ ng > 0)
  BY <1>2
<1>4. ~(ng > 0)
  BY <1>3 DEF Verdict
<1>5. ng = 0 /\ ok = TRUE
  BY <1>3, <1>4
<1>6. Verdict(t, TRUE, 0)
  BY <1>3, <1>5
<1>7. rxOK' = [rxOK EXCEPT ![t] = @ + 1] /\ rxNG' = [rxNG EXCEPT ![t] = @ + 0] /\ AfterFrame(t, TRUE)
  BY <1>6 DEF Verdict
<1>8. ASSUME NEW u \in Test PROVE rxNG'[u] = rxNG[u]
  <2>1. rxNG[u] \in Nat /\ rxNG'[u] = IF u = t THEN rxNG[t] + 0 ELSE rxNG[u]
    BY <1>1, <1>7
  <2>2. QED
    BY <2>1
<1>9. QED
  BY <1>7, <1>8

\* What a step of one reader leaves alone of what is counted.
LEMMA ReaderCounts ==
  ASSUME TypeInv, NEW x \in Test, ReaderStep(x)
  PROVE  /\ UNCHANGED <<monitor, txCount>>
         /\ \A u \in Test \ {x} : iterCnt'[u] = iterCnt[u] /\ comSize'[u] = comSize[u]
         /\ Receive(x) \/ UNCHANGED rxCount
         /\ ftFailed => ftFailed'
<1>1. UNCHANGED <<monitor, txCount>>
  BY DEF ReaderStep, Park, Begin, Open, Rate, InitAlone, Check, Grant, Mark, Lock, Restore,
         Frame, StartFrame, TxTimeout, Receive, Complete, PostMon
<1>2. Receive(x) \/ UNCHANGED rxCount
  BY DEF ReaderStep, Park, Begin, Open, Rate, InitAlone, Check, Grant, Mark, Lock, Restore,
         Frame, StartFrame, TxTimeout, Complete, PostMon
<1>3. iterCnt \in [Test -> 0..FrameIter] /\ comSize \in [Test -> MinFrame..MaxFrame]
  BY DEF TypeInv, TypeOK, ReaderTypes
<1>4. \A u \in Test \ {x} : iterCnt'[u] = iterCnt[u] /\ comSize'[u] = comSize[u]
  <2>1. CASE Receive(x)
    <3>1. PICK ok : AfterFrame(x, ok)
      BY <2>1 DEF Receive, RxTypeZero, RxTypeOne, RxTypeTwo, RxTypeThree, Verdict
    <3>2. /\ iterCnt' = iterCnt \/ \E n : iterCnt' = [iterCnt EXCEPT ![x] = n]
          /\ comSize' = comSize \/ \E n : comSize' = [comSize EXCEPT ![x] = n]
      BY <3>1 DEF AfterFrame
    <3>3. QED
      BY <1>3, <3>2
  <2>2. CASE InitAlone(x) \/ Grant(x) \/ Restore(x)
    BY <1>3, <2>2 DEF InitAlone, Grant, Restore, FirstFrame
  <2>3. CASE UNCHANGED <<iterCnt, comSize>>
    BY <2>3
  <2>4. QED
    BY <2>1, <2>2, <2>3 DEF ReaderStep, Park, Begin, Open, Rate, Check, Mark, Lock,
         Frame, StartFrame, TxTimeout, Complete, PostMon
<1>5. ftFailed => ftFailed'
  <2>1. CASE Receive(x)
    BY <2>1 DEF Receive, RxTypeZero, RxTypeOne, RxTypeTwo, RxTypeThree, Verdict, result
  <2>2. CASE Open(x) \/ TxTimeout(x)
    BY <2>2 DEF Open, TxTimeout
  <2>3. CASE UNCHANGED result
    BY <2>3 DEF result
  <2>4. QED
    BY <2>1, <2>2, <2>3 DEF ReaderStep, Park, Begin, Rate, InitAlone, Check, Grant, Mark, Lock, Restore,
         Frame, StartFrame, Complete, PostMon
<1>6. QED
  BY <1>1, <1>2, <1>4, <1>5

\* One frame more, in the loops over sizes, iterations and rates.
LEMMA OneMore ==
  ASSUME NEW b \in Nat, NEW i \in Nat, NEW s \in MinFrame..MaxFrame
  PROVE  /\ b * PerRate + (i - 1) * Sizes + (s + 1 - MinFrame)
              = b * PerRate + (i - 1) * Sizes + (s - MinFrame) + 1
         /\ b * PerRate + (i + 1 - 1) * Sizes + (MinFrame - MinFrame)
              = b * PerRate + (i - 1) * Sizes + (MaxFrame - MinFrame) + 1
         /\ (b + 1) * PerRate
              = b * PerRate + (FrameIter - 1) * Sizes + (MaxFrame - MinFrame) + 1
         /\ b * PerRate \in Nat /\ (i - 1) * Sizes \in Int
<1> USE SizeTypes
<1>1. b * PerRate \in Nat /\ (i - 1) * Sizes \in Int
  OBVIOUS
<1>2. (i + 1 - 1) * Sizes = (i - 1) * Sizes + Sizes
  OBVIOUS
<1>3. (b + 1) * PerRate = b * PerRate + PerRate
  OBVIOUS
<1>4. PerRate = (FrameIter - 1) * Sizes + Sizes
  BY DEF PerRate
<1>5. Sizes = MaxFrame - MinFrame + 1 /\ (FrameIter - 1) * Sizes \in Int
  BY DEF Sizes
<1>6. s \in Int
  OBVIOUS
<1>7. QED
  BY <1>1, <1>2, <1>3, <1>4, <1>5, <1>6

\* What a place is worth after a step.
LEMMA SweepAfter ==
  ASSUME NEW t \in Test
  PROVE  /\ rpc'[t] \in AtRate => InSweep(t)' = RatesBefore(t, lbrp'[t]) * PerRate
         /\ rpc'[t] \in AtFrame /\ rpc'[t] \notin AtRate =>
              InSweep(t)' = RatesBefore(t, lbrp'[t]) * PerRate + (iterCnt'[t] - 1) * Sizes
                              + (comSize'[t] - MinFrame)
         /\ rpc'[t] \notin AtRate \cup AtFrame =>
              InSweep(t)' = IF Through(t)' THEN PerSweep(t) ELSE 0
         /\ PerSweep(t)' = PerSweep(t)
BY DEF InSweep, AtRate, AtFrame, RatesBefore, PerRate, Sizes, PerSweep, RateCount

LEMMA CountReceive ==
  ASSUME TypeInv, NEW t \in Test, Receive(t), rxType # 3, Counted(t), ~ftFailed'
  PROVE  Counted(t)'
<1> USE RateTypes, SizeTypes
<1> DEFINE b == RatesBefore(t, lbrp[t])
           i == iterCnt[t]
           s == comSize[t]
<1>1. /\ rxOK'[t] = rxOK[t] + 1 /\ rxNG'[t] = rxNG[t] /\ AfterFrame(t, TRUE)
      /\ rpc[t] = "receive" /\ UNCHANGED <<txNG, iter>>
      /\ rxOK[t] \in Nat
  BY ReceivesWell DEF Receive, monitor, txCount, TypeInv, TypeOK, RxCountTypes
<1>2. /\ lbrp[t] \in RatesRun[t] /\ lbrp[t] \in 1..NRates /\ i >= 1
      /\ rxOK[t] = (Iterations - iter) * PerSweep(t) + (b * PerRate + (i - 1) * Sizes + (s - MinFrame))
  <2>1. Placed(t) /\ rxOK[t] = (Iterations - iter) * PerSweep(t) + InSweep(t)
    BY DEF Counted
  <2>2. lbrp[t] \in RatesRun[t] /\ i >= 1
    BY <1>1, <2>1 DEF Placed, AtRate, AtFrame
  <2>3. InSweep(t) = b * PerRate + (i - 1) * Sizes + (s - MinFrame)
    BY <1>1 DEF InSweep, AtRate, AtFrame
  <2>4. QED
    BY <2>1, <2>2, <2>3
<1>3. /\ i \in 0..FrameIter /\ s \in MinFrame..MaxFrame /\ b \in Nat
      /\ RatesBefore(t, lbrp[t] + 1) = b + 1
  BY <1>2, RatesCounted DEF TypeInv, TypeOK, ReaderTypes
<1>4. (Iterations - iter) * PerSweep(t) \in Int
  <2>1. Iterations - iter \in Int
    <3>1. iter \in Int
      BY DEF TypeInv, TypeOK, MonitorTypes
    <3>2. Iterations \in Nat
      BY OptionAssumption
    <3>3. QED
      BY <3>1, <3>2
  <2>2. PerSweep(t) \in Int
    BY RatesCounted
  <2>3. QED
    BY <2>1, <2>2
<1>5. /\ b * PerRate + (i - 1) * Sizes + (s + 1 - MinFrame)
            = b * PerRate + (i - 1) * Sizes + (s - MinFrame) + 1
      /\ b * PerRate + (i + 1 - 1) * Sizes + (MinFrame - MinFrame)
            = b * PerRate + (i - 1) * Sizes + (MaxFrame - MinFrame) + 1
      /\ (b + 1) * PerRate
            = b * PerRate + (FrameIter - 1) * Sizes + (MaxFrame - MinFrame) + 1
      /\ b * PerRate \in Nat /\ (i - 1) * Sizes \in Int
  <2>1. i \in Nat
    BY <1>3
  <2>2. QED
    BY <1>3, <2>1, OneMore
<1>6. SUFFICES Placed(t)' /\ InSweep(t)' = (b * PerRate + (i - 1) * Sizes + (s - MinFrame)) + 1
  <2>1. PerSweep(t)' = PerSweep(t)
    BY SweepAfter
  <2>2. b * PerRate + (i - 1) * Sizes + (s - MinFrame) \in Int
    BY <1>3, <1>5
  <2>3. QED
    BY <1>1, <1>2, <1>4, <1>6, <2>1, <2>2 DEF Counted
<1> HIDE DEF b, i, s
<1>7. CASE ~LastSize(t) /\ comSize' = [comSize EXCEPT ![t] = @ + 1] /\ rpc' = [rpc EXCEPT ![t] = "frame"]
           /\ UNCHANGED <<iterCnt, lbrp>>
  <2>1. rpc'[t] = "frame" /\ comSize'[t] = s + 1 /\ iterCnt'[t] = i /\ lbrp'[t] = lbrp[t]
    BY <1>7 DEF i, s, TypeInv, TypeOK, ReaderTypes
  <2>2. InSweep(t)' = b * PerRate + (i - 1) * Sizes + (s + 1 - MinFrame)
    <3>1. rpc'[t] \in AtFrame /\ rpc'[t] \notin AtRate
      BY <2>1 DEF AtRate, AtFrame
    <3>2. InSweep(t)' = RatesBefore(t, lbrp'[t]) * PerRate + (iterCnt'[t] - 1) * Sizes
                              + (comSize'[t] - MinFrame)
      BY <3>1, SweepAfter
    <3>3. RatesBefore(t, lbrp'[t]) = b
      BY <2>1 DEF b
    <3>4. QED
      BY <1>3, <2>1, <3>2, <3>3
  <2>3. Placed(t)'
    BY <1>2, <2>1 DEF i, Placed, AtRate, AtFrame
  <2>4. QED
    BY <1>5, <2>2, <2>3
<1>8. CASE LastSize(t) /\ iterCnt' = [iterCnt EXCEPT ![t] = @ + 1] /\ comSize' = [comSize EXCEPT ![t] = MinFrame]
           /\ rpc' = [rpc EXCEPT ![t] = "frame"] /\ UNCHANGED lbrp
  <2>1. rpc'[t] = "frame" /\ comSize'[t] = MinFrame /\ iterCnt'[t] = i + 1 /\ lbrp'[t] = lbrp[t]
    BY <1>8 DEF i, TypeInv, TypeOK, ReaderTypes
  <2>2. InSweep(t)' = b * PerRate + (i + 1 - 1) * Sizes + (MinFrame - MinFrame)
    <3>1. rpc'[t] \in AtFrame /\ rpc'[t] \notin AtRate
      BY <2>1 DEF AtRate, AtFrame
    <3>2. InSweep(t)' = RatesBefore(t, lbrp'[t]) * PerRate + (iterCnt'[t] - 1) * Sizes
                              + (comSize'[t] - MinFrame)
      BY <3>1, SweepAfter
    <3>3. RatesBefore(t, lbrp'[t]) = b
      BY <2>1 DEF b
    <3>4. QED
      BY <1>3, <2>1, <3>2, <3>3
  <2>3. Placed(t)'
    BY <1>2, <1>3, <2>1 DEF i, Placed, AtRate, AtFrame
  <2>4. s = MaxFrame
    <3>1. s >= MaxFrame
      BY <1>8 DEF s, LastSize
    <3>2. QED
      BY <1>3, <3>1
  <2>5. QED
    BY <1>5, <2>2, <2>3, <2>4
<1>9. CASE LastSize(t) /\ LastIter(t) /\ NextRate(t) /\ rpc' = [rpc EXCEPT ![t] = "rate"]
  <2>1. rpc'[t] = "rate" /\ lbrp'[t] = lbrp[t] + 1
    BY <1>2, <1>9 DEF NextRate, Beyond
  <2>2. InSweep(t)' = (b + 1) * PerRate
    BY <1>3, <2>1, SweepAfter DEF AtRate, AtFrame
  <2>3. Placed(t)'
    BY <1>2, <2>1 DEF i, Placed, AtRate, AtFrame
  <2>4. s = MaxFrame /\ i = FrameIter
    BY <1>3, <1>9 DEF i, s, LastSize, LastIter
  <2>5. QED
    BY <1>5, <2>2, <2>3, <2>4
<1>10. QED
  BY <1>1, <1>7, <1>8, <1>9 DEF AfterFrame, GoTo

\* The other steps of a reader count nothing and take it on in its sweep.
LEMMA CountWalk ==
  ASSUME TypeInv, BarrierInv, WholeWaits, OpensCounted, NEW t \in Test, ReaderStep(t), ~Receive(t),
         Counted(t), ~ftFailed'
  PROVE  Counted(t)'
<1> USE RateTypes, SizeTypes
<1>1. UNCHANGED <<rxOK, rxNG, txNG, iter, mpc, mt>>
  BY ReaderCounts DEF monitor, txCount, rxCount
<1>2. Placed(t) /\ rxNG[t] = 0 /\ txNG[t] = 0
      /\ rxOK[t] = (Iterations - iter) * PerSweep(t) + InSweep(t)
  BY DEF Counted
<1>3. SUFFICES Placed(t)' /\ InSweep(t)' = InSweep(t)
  BY <1>1, <1>2, SweepAfter DEF Counted
<1>4. Busy(t) \/ mp_r[t] > 0 => mp[t] = 0 /\ ~(mpc = "wait" /\ t < mt)
  BY AtWorkPlaces
<1>5. RatesBefore(t, 1) = 0
      /\ \A l \in 1..NRates + 1 :
           /\ RatesBefore(t, l) \in Nat
           /\ l \notin RatesRun[t] => RatesBefore(t, l + 1) = RatesBefore(t, l)
           /\ l > NRates => RatesBefore(t, l) = RateCount(t)
  BY RatesCounted
<1>6. CASE Park(t)
  <2>1. rpc[t] = "park" /\ rpc'[t] = "waitMon" /\ mp' = mp
    BY <1>6 DEF Park, GoTo, sems
  <2>2. Through(t)' = Through(t)
    BY <1>1, <2>1 DEF Through
  <2>3. rpc[t] \notin AtRate \cup AtFrame /\ rpc'[t] \notin AtRate \cup AtFrame
    BY <2>1 DEF AtRate, AtFrame
  <2>4. QED
    BY <2>2, <2>3, SweepAfter DEF Placed, InSweep
<1>7. CASE Begin(t)
  <2>1. rpc[t] = "waitMon" /\ rpc'[t] = "open" /\ mp' = mp /\ mp_r[t] > 0
    BY <1>7 DEF Begin, Wait, GoTo
  <2>2. ~Through(t) /\ ~Through(t)'
    BY <1>1, <1>4, <2>1 DEF Through
  <2>3. rpc[t] \notin AtRate \cup AtFrame /\ rpc'[t] \notin AtRate \cup AtFrame
    BY <2>1 DEF AtRate, AtFrame
  <2>4. QED
    BY <2>2, <2>3, SweepAfter DEF Placed, InSweep
<1>8. CASE Open(t)
  <2>1. rpc[t] = "open" /\ rpc'[t] = "rate" /\ lbrp'[t] = 1
    <3>1. rpc[t] = "open"
      BY <1>8 DEF Open
    <3>2. GoTo(t, "rate") /\ lbrp' = [lbrp EXCEPT ![t] = 1]
      BY <1>8 DEF Open, OpensCounted
    <3>3. QED
      BY <3>1, <3>2 DEF GoTo
  <2>2. ~Through(t)
    BY <1>4, <2>1 DEF Through, Busy
  <2>3. InSweep(t) = 0
    BY <2>1, <2>2 DEF InSweep, AtRate, AtFrame
  <2>4. rpc'[t] \in AtRate /\ rpc'[t] \notin AtFrame
    BY <2>1 DEF AtRate, AtFrame
  <2>5. InSweep(t)' = 0
    <3>1. InSweep(t)' = RatesBefore(t, lbrp'[t]) * PerRate
      BY <2>4, SweepAfter
    <3>2. 0 * PerRate = 0
      OBVIOUS
    <3>3. QED
      BY <1>5, <2>1, <3>1, <3>2
  <2>6. Placed(t)'
    BY <2>1, <2>4 DEF Placed
  <2>7. QED
    BY <2>3, <2>5, <2>6
<1>9. CASE Rate(t)
  <2>1. rpc[t] = "rate" /\ lbrp[t] \in 1..NRates + 1
    BY <1>2, <1>9 DEF Rate, Placed, AtRate
  <2>2. InSweep(t) = RatesBefore(t, lbrp[t]) * PerRate
    BY <2>1 DEF InSweep, AtRate
  <2>3. CASE lbrp[t] > NRates /\ GoTo(t, "complete")
    <3>1. rpc'[t] = "complete"
      BY <2>3 DEF GoTo
    <3>2. rpc'[t] \notin AtRate \cup AtFrame /\ Through(t)'
      BY <3>1 DEF AtRate, AtFrame, Through
    <3>3. InSweep(t)' = PerSweep(t)
      BY <3>2, SweepAfter
    <3>4. RatesBefore(t, lbrp[t]) = RateCount(t)
      BY <1>5, <2>1, <2>3
    <3>5. QED
      BY <2>2, <3>2, <3>3, <3>4 DEF PerSweep, Placed
  <2>4. CASE lbrp[t] <= NRates /\ lbrp[t] \notin RatesRun[t] /\ NextRate(t) /\ UNCHANGED rpc
    <3>1. rpc'[t] = "rate" /\ lbrp'[t] = lbrp[t] + 1
      BY <2>1, <2>4 DEF NextRate, Beyond
    <3>2. rpc'[t] \in AtRate
      BY <3>1 DEF AtRate
    <3>3. InSweep(t)' = RatesBefore(t, lbrp[t] + 1) * PerRate
      BY <3>1, <3>2, SweepAfter
    <3>4. RatesBefore(t, lbrp[t] + 1) = RatesBefore(t, lbrp[t])
      BY <1>5, <2>1, <2>4
    <3>5. Placed(t)'
      BY <2>1, <2>4, <3>1 DEF Placed, AtRate, AtFrame
    <3>6. QED
      BY <2>2, <3>3, <3>4, <3>5
  <2>5. CASE /\ lbrp[t] \in RatesRun[t] \cup {Beyond} /\ UNCHANGED lbrp
             /\ GoTo(t, IF Concurrent(t) = {} THEN "init" ELSE "check")
    <3>1. lbrp'[t] = lbrp[t] /\ lbrp[t] \in RatesRun[t]
      BY <2>1, <2>5 DEF Beyond
    <3>2. rpc'[t] \in AtRate /\ rpc'[t] \notin AtFrame
      BY <2>5 DEF GoTo, AtRate, AtFrame
    <3>3. InSweep(t)' = RatesBefore(t, lbrp[t]) * PerRate
      BY <3>1, <3>2, SweepAfter
    <3>4. Placed(t)'
      BY <2>1, <3>1, <3>2 DEF Placed
    <3>5. QED
      BY <2>2, <3>3, <3>4
  <2>6. QED
    BY <1>9, <2>3, <2>4, <2>5 DEF Rate
<1>10. CASE InitAlone(t) \/ Grant(t) \/ Restore(t)
  <2>1. /\ rpc[t] \in {"init", "grant", "restore"} /\ rpc'[t] = "frame" /\ lbrp'[t] = lbrp[t]
        /\ iterCnt'[t] = 1 /\ comSize'[t] = MinFrame
    BY <1>10 DEF InitAlone, Grant, Restore, FirstFrame, GoTo, entry, TypeInv, TypeOK, ReaderTypes
  <2>2. /\ rpc[t] \in AtRate \ {"rate"}
        /\ rpc'[t] \in AtFrame /\ rpc'[t] \notin AtRate
    BY <2>1 DEF AtRate, AtFrame
  <2>3. InSweep(t) = RatesBefore(t, lbrp[t]) * PerRate
    BY <2>2 DEF InSweep
  <2>4. InSweep(t)' = RatesBefore(t, lbrp'[t]) * PerRate + (iterCnt'[t] - 1) * Sizes
                        + (comSize'[t] - MinFrame)
    BY <2>2, SweepAfter
  <2>5. lbrp[t] \in RatesRun[t] /\ lbrp[t] \in 1..NRates + 1
    BY <1>2, <2>2 DEF Placed
  <2>6. (1 - 1) * Sizes = 0 /\ MinFrame - MinFrame = 0 /\ RatesBefore(t, lbrp[t]) * PerRate \in Nat
    <3>1. RatesBefore(t, lbrp[t]) \in Nat
      BY <1>5, <2>5
    <3>2. QED
      BY <3>1
  <2>7. InSweep(t)' = InSweep(t)
    BY <2>1, <2>3, <2>4, <2>6
  <2>8. Placed(t)'
    BY <2>1, <2>5 DEF Placed
  <2>9. QED
    BY <2>7, <2>8
<1>11. CASE Check(t) \/ Mark(t) \/ Lock(t)
  <2>1. /\ rpc[t] \in {"check", "mark", "lock"} /\ rpc'[t] \in {"grant", "mark", "lock", "restore"}
        /\ lbrp'[t] = lbrp[t]
    BY <1>11 DEF Check, Mark, Lock, GoTo, entry
  <2>2. /\ rpc[t] \in AtRate \ {"rate"} /\ rpc'[t] \in AtRate /\ rpc'[t] \notin AtFrame
    BY <2>1 DEF AtRate, AtFrame
  <2>3. InSweep(t) = RatesBefore(t, lbrp[t]) * PerRate /\ InSweep(t)' = RatesBefore(t, lbrp'[t]) * PerRate
    BY <2>2, SweepAfter DEF InSweep
  <2>4. QED
    BY <1>2, <2>1, <2>2, <2>3 DEF Placed
<1>12. CASE Frame(t) \/ StartFrame(t)
  <2>1. /\ rpc[t] \in {"frame", "poll"} /\ rpc'[t] \in {"poll", "receive"}
        /\ lbrp'[t] = lbrp[t] /\ iterCnt'[t] = iterCnt[t] /\ comSize'[t] = comSize[t]
    BY <1>12 DEF Frame, StartFrame, GoTo, entry
  <2>2. /\ rpc[t] \in AtFrame /\ rpc[t] \notin AtRate /\ rpc'[t] \in AtFrame /\ rpc'[t] \notin AtRate
        /\ rpc[t] # "rate"
    BY <2>1 DEF AtRate, AtFrame
  <2>3. /\ InSweep(t) = RatesBefore(t, lbrp[t]) * PerRate + (iterCnt[t] - 1) * Sizes
                          + (comSize[t] - MinFrame)
        /\ InSweep(t)' = RatesBefore(t, lbrp'[t]) * PerRate + (iterCnt'[t] - 1) * Sizes
                          + (comSize'[t] - MinFrame)
    BY <2>2, SweepAfter DEF InSweep
  <2>4. QED
    BY <1>2, <2>1, <2>2, <2>3 DEF Placed
<1>13. CASE Complete(t) \/ PostMon(t)
  <2>1. /\ rpc[t] \in {"complete", "postMon"} /\ rpc'[t] \in {"postMon", "park"}
        /\ rpc'[t] = "park" => mp'[t] = mp[t] + 1
    BY <1>13 DEF Complete, PostMon, Post, GoTo
  <2>2. /\ rpc[t] \notin AtRate \cup AtFrame /\ rpc'[t] \notin AtRate \cup AtFrame
    BY <2>1 DEF AtRate, AtFrame
  <2>3. Through(t) /\ Through(t)'
    BY <2>1 DEF Through
  <2>4. QED
    BY <2>2, <2>3, SweepAfter DEF InSweep, Placed
<1>14. ~TxTimeout(t)
  BY DEF TxTimeout
<1>15. QED
  BY <1>6, <1>7, <1>8, <1>9, <1>10, <1>11, <1>12, <1>13, <1>14 DEF ReaderStep

LEMMA CountReader ==
  ASSUME TypeInv, BarrierInv, OpensCounted, CountInv, NEW x \in Test, ReaderStep(x), UNCHANGED options
  PROVE  CountInv'
<1> USE RateTypes
<1>1. /\ UNCHANGED <<txNG, iter, mpc, mt, signals>>
      /\ \A u \in Test \ {x} : iterCnt'[u] = iterCnt[u] /\ comSize'[u] = comSize[u]
      /\ ftFailed => ftFailed'
  BY ReaderCounts DEF monitor, txCount
<1>2. SUFFICES ASSUME Clean', NEW u \in Test PROVE Counted(u)'
  BY DEF CountInv
<1>3. Clean /\ Counted(u) /\ Counted(x) /\ ~ftFailed'
  BY <1>1, <1>2 DEF CountInv, Clean, WholeWaits, options
<1>4. CASE u = x
  BY <1>3, <1>4, CountReceive, CountWalk DEF Clean
<1>5. CASE u # x
  <2>1. rpc'[u] = rpc[u] /\ lbrp'[u] = lbrp[u] /\ mp'[u] = mp[u]
    BY <1>5, ReaderKind DEF Apart
  <2>2. rxOK'[u] = rxOK[u] /\ rxNG'[u] = rxNG[u]
    <3>1. CASE Receive(x)
      <4>1. rxOK' = [rxOK EXCEPT ![x] = @ + 1] /\ rxNG'[u] = rxNG[u]
        BY <1>3, <3>1, ReceivesWell DEF Clean
      <4>2. rxOK \in [Test -> Nat]
        BY DEF TypeInv, TypeOK, RxCountTypes
      <4>3. QED
        BY <1>5, <4>1, <4>2
    <3>2. QED
      BY <3>1, ReaderCounts DEF rxCount
  <2>3. Through(u)' = Through(u)
    BY <1>1, <2>1 DEF Through
  <2>4. InSweep(u)' = InSweep(u)
    BY <1>1, <1>5, <2>1, <2>3, SweepAfter DEF InSweep
  <2>5. Placed(u)'
    BY <1>1, <1>3, <1>5, <2>1 DEF Counted, Placed
  <2>6. QED
    BY <1>1, <1>3, <2>2, <2>4, <2>5, SweepAfter DEF Counted
<1>6. QED
  BY <1>4, <1>5

------------------------------------------------------------------------------
(* The writer counts the failures of a write, the monitor ends the sweeps.   *)

LEMMA CountWriter ==
  ASSUME TypeInv, CountInv, NEW x \in Test, WriterStep(x), UNCHANGED options
  PROVE  CountInv'
<1>1. UNCHANGED <<mp, mpc, mt, iter, signals, readers, lbrp, rxCount>>
  BY DEF WriterStep, Ready, TakeFrame, Transmit, Write, Count, sems, monitor, entry
<1>2. SUFFICES ASSUME Clean', NEW u \in Test PROVE Counted(u)'
  BY DEF CountInv
<1>3. txNG'[u] = txNG[u] /\ ~ftFailed
  <2>1. CASE Count(x)
    <3> DEFINE ok == bCnt[x] # -1 /\ (rxType = 2 \/ bCnt[x] = comSz[x])
    <3>1. ok /\ ~ftFailed
      BY <1>2, <2>1 DEF Count, Clean
    <3>2. txNG' = [txNG EXCEPT ![x] = @ + 0] /\ txNG \in [Test -> Nat]
      BY <2>1, <3>1 DEF Count, TypeInv, TypeOK, TxCountTypes
    <3>3. txNG[u] \in Nat /\ txNG'[u] = IF u = x THEN txNG[x] + 0 ELSE txNG[u]
      BY <3>2
    <3>4. QED
      BY <3>1, <3>3
  <2>2. CASE UNCHANGED <<txNG, ftFailed>>
    BY <1>2, <2>2 DEF Clean
  <2>3. QED
    BY <2>1, <2>2 DEF WriterStep, Ready, TakeFrame, Transmit, Write, txCount, result
<1>4. Clean
  BY <1>1, <1>2, <1>3 DEF Clean, WholeWaits, options
<1>5. Counted(u)
  BY <1>4 DEF CountInv
<1>6. QED
  BY <1>1, <1>3, <1>5 DEF Counted, Placed, InSweep, Through, readers, rxCount, RatesBefore, PerRate, Sizes,
     PerSweep, RateCount

LEMMA CountMonitor ==
  ASSUME TypeInv, BarrierInv, CountInv, MonitorStep \/ Interrupt, UNCHANGED options
  PROVE  CountInv'
<1> USE RateTypes
<1>1. SUFFICES ASSUME Clean', NEW u \in Test PROVE Counted(u)'
  BY DEF CountInv
<1>2. UNCHANGED <<rxOK, rxNG, txNG, iterCnt, comSize>> /\ ~ftFailed
  <2>1. UNCHANGED <<rxCount, txCount, result, iterCnt, comSize>>
    <3>1. CASE PostReader \/ WaitTest \/ Free \/ JoinWriter
      BY <3>1 DEF PostReader, WaitTest, Free, JoinWriter, readers
    <3>2. CASE TimedOut \/ Interrupt
      BY <3>2 DEF TimedOut, Interrupt, AllRead, readers
    <3>3. CASE JoinReader
      BY <3>3 DEF JoinReader
    <3>4. QED
      BY <3>1, <3>2, <3>3 DEF MonitorStep
  <2>2. QED
    BY <1>1, <2>1 DEF rxCount, txCount, result, Clean
<1>3. WholeWaits
  <2>1. signals' = signals \/ signals' = signals + 1
    BY DEF MonitorStep, PostReader, WaitTest, TimedOut, Free, JoinWriter, JoinReader, Interrupt
  <2>2. signals \in 0..MaxSignals /\ MaxSignals \in Nat
    BY EnvironmentAssumption DEF TypeInv, TypeOK, MonitorTypes
  <2>3. QED
    BY <1>1, <2>1, <2>2 DEF Clean, WholeWaits, options
<1>4. Clean
  BY <1>1, <1>2, <1>3 DEF Clean, options
<1>5. /\ Placed(u) /\ rxNG[u] = 0 /\ txNG[u] = 0
      /\ rxOK[u] = (Iterations - iter) * PerSweep(u) + InSweep(u)
  BY <1>4 DEF CountInv, Counted
<1>6. mp \in [Test -> Nat] /\ mp_r \in [Test -> Nat] /\ NTests \in Nat /\ mt \in 1..NTests /\ Test = 1..NTests
  BY TestsAssumption DEF TypeInv, TypeOK, SemTypes, MonitorTypes, Test
<1>7. ASSUME iter' = iter, rpc'[u] = rpc[u], Busy(u) => lbrp'[u] = lbrp[u], Through(u)' = Through(u)
      PROVE  Counted(u)'
  <2>1. CASE rpc[u] \in AtRate \cup AtFrame
    <3>1. Busy(u)
      BY <2>1 DEF Busy, AtRate, AtFrame
    <3>2. QED
      BY <1>2, <1>5, <1>7, <3>1, SweepAfter DEF Counted, Placed, InSweep
  <2>2. CASE rpc[u] \notin AtRate \cup AtFrame
    BY <1>2, <1>5, <1>7, <2>2, SweepAfter DEF Counted, Placed, InSweep
  <2>3. QED
    BY <2>1, <2>2
<1>8. Stopping => ~Busy(u) /\ mp[u] = 0
  <2>1. Stopping => Owed(u) = 0
    BY DEF Stopping, Owed
  <2>2. QED
    BY <1>3, <2>1, PhaseOfPosts
<1>9. CASE PostReader
  <2>1. /\ mpc = "post" /\ UNCHANGED <<mp, iter, rpc, lbrp>>
        /\ mpc' = "post" \/ (mpc' = "wait" /\ mt' = 1)
    BY <1>9 DEF PostReader, readers, entry, Last
  <2>2. Through(u)' = Through(u)
    BY <1>6, <2>1 DEF Through
  <2>3. QED
    BY <1>7, <2>1, <2>2
<1>10. CASE WaitTest
  <2>1. mpc = "wait" /\ mp[mt] > 0 /\ mp' = [mp EXCEPT ![mt] = @ - 1] /\ UNCHANGED <<rpc, lbrp>>
    BY <1>10 DEF WaitTest, Wait, readers, entry
  <2>2. CASE ~Last
    <3>1. mt' = mt + 1 /\ mpc' = mpc /\ iter' = iter
      BY <1>10, <2>2 DEF WaitTest, NextWait
    <3>2. Through(u)' = Through(u)
      <4>1. CASE u = mt
        BY <1>6, <2>1, <3>1, <4>1 DEF Through
      <4>2. CASE u # mt
        <5>1. mp'[u] = mp[u]
          BY <1>6, <2>1, <4>2
        <5>2. u \in Int /\ mt \in Int /\ mt' = mt + 1
          BY <1>6, <3>1
        <5>3. u < mt' <=> u < mt
          BY <4>2, <5>2
        <5>4. QED
          BY <2>1, <3>1, <5>1, <5>3 DEF Through
      <4>3. QED
        BY <4>1, <4>2
    <3>3. QED
      BY <1>7, <2>1, <3>1, <3>2
  <2>3. CASE Last
    <3>1. mt = NTests /\ mpc' \in {"post", "cancel"} /\ iter' = iter - 1
      BY <1>10, <2>3 DEF WaitTest, NextWait, Last
    <3>2. ~Busy(u) /\ (u # mt => mp[u] = 0)
      <4>1. CASE u = mt
        <5>1. mp[u] \in Nat /\ (Busy(u) => mp[u] = 0)
          BY <1>3, PhaseOfPosts
        <5>2. mp[u] # 0
          BY <2>1, <4>1, <5>1
        <5>3. QED
          BY <4>1, <5>1, <5>2
      <4>2. CASE u # mt
        <5>1. Owed(u) = 0
          BY <1>6, <2>1, <3>1, <4>2 DEF Owed
        <5>2. QED
          BY <1>3, <4>2, <5>1, PhaseOfPosts
      <4>3. QED
        BY <4>1, <4>2
    <3>3. mp'[u] = 0
      <4>1. CASE u = mt
        <5>1. mp[u] = 1
          <6>1. mp_r[u] + AtWork(u) + mp[u] = Owed(u) /\ mp[u] \in Nat /\ mp_r[u] \in Nat
            BY <1>3, <1>6 DEF BarrierInv, OnItsWay
          <6>2. Owed(u) \in {0, 1} /\ AtWork(u) = 0
            BY <3>2 DEF Owed, AtWork
          <6>3. mp[u] # 0
            BY <2>1, <4>1, <6>1
          <6>4. QED
            BY <6>1, <6>2, <6>3
        <5>2. QED
          BY <1>6, <2>1, <4>1, <5>1
      <4>2. CASE u # mt
        BY <1>6, <2>1, <3>2, <4>2
      <4>3. QED
        BY <4>1, <4>2
    <3>4. rpc[u] \notin AtRate \cup AtFrame /\ rpc'[u] \notin AtRate \cup AtFrame
          /\ rpc[u] \notin {"complete", "postMon"}
      BY <2>1, <3>2 DEF Busy, AtRate, AtFrame
    <3>5. Through(u)
      BY <1>6, <2>1, <3>1 DEF Through
    <3>6. ~Through(u)'
      BY <2>1, <3>1, <3>3, <3>4 DEF Through
    <3>7. InSweep(u) = PerSweep(u) /\ InSweep(u)' = 0 /\ Placed(u)'
      BY <3>4, <3>5, <3>6, SweepAfter DEF InSweep, Placed
    <3>8. (Iterations - iter') * PerSweep(u) = (Iterations - iter) * PerSweep(u) + PerSweep(u)
      <4>1. PerSweep(u) \in Nat /\ Iterations - iter \in Int
        <5>1. iter \in Int
          BY DEF TypeInv, TypeOK, MonitorTypes
        <5>2. Iterations \in Nat
          BY OptionAssumption
        <5>3. QED
          BY <5>1, <5>2, RatesCounted
      <4>2. Iterations - iter' = (Iterations - iter) + 1
        <5>1. iter \in Int
          BY DEF TypeInv, TypeOK, MonitorTypes
        <5>2. Iterations \in Nat
          BY OptionAssumption
        <5>3. QED
          BY <3>1, <5>1, <5>2
      <4>3. ASSUME NEW d \in Int, NEW m \in Nat PROVE (d + 1) * m = d * m + m /\ d * m + m + 0 = d * m + m
        OBVIOUS
      <4>4. QED
        BY <4>1, <4>2, <4>3
    <3>9. rxOK'[u] = (Iterations - iter') * PerSweep(u)' + InSweep(u)'
      <4>1. rxOK'[u] = rxOK[u] /\ PerSweep(u)' = PerSweep(u)
        BY <1>2, SweepAfter
      <4>2. rxOK[u] \in Nat
        BY DEF TypeInv, TypeOK, RxCountTypes
      <4>3. rxOK[u] = (Iterations - iter') * PerSweep(u)
        BY <1>5, <3>7, <3>8
      <4>4. QED
        BY <3>7, <4>1, <4>2, <4>3
    <3>10. QED
      BY <1>2, <1>5, <3>7, <3>9 DEF Counted
  <2>4. QED
    BY <2>2, <2>3
<1>11. ~TimedOut
  BY <1>3 DEF TimedOut, WholeWaits
<1>12. CASE Free \/ JoinWriter
  <2>1. /\ Stopping /\ mpc' # "wait" /\ mpc # "wait" /\ UNCHANGED <<mp, iter, rpc>>
    BY <1>12 DEF Free, JoinWriter, readers, sems, Stopping
  <2>2. Through(u)' = Through(u)
    BY <2>1 DEF Through
  <2>3. QED
    BY <1>7, <1>8, <2>1, <2>2
<1>13. CASE JoinReader
  <2>1. /\ Stopping /\ mpc' # "wait" /\ mpc # "wait" /\ UNCHANGED <<mp, iter>>
        /\ rpc'[u] \in {rpc[u], "cancelled"}
    BY <1>6, <1>13 DEF JoinReader, GoTo, sems, Stopping
  <2>2. rpc[u] \notin AtRate \cup AtFrame /\ rpc'[u] \notin AtRate \cup AtFrame
        /\ rpc[u] \notin {"complete", "postMon"} /\ rpc'[u] \notin {"complete", "postMon"}
    BY <1>8, <2>1 DEF Busy, AtRate, AtFrame
  <2>3. ~Through(u) /\ ~Through(u)'
    BY <1>8, <2>1, <2>2 DEF Through
  <2>4. InSweep(u) = 0 /\ InSweep(u)' = 0 /\ Placed(u)'
    BY <2>2, <2>3, SweepAfter DEF InSweep, Placed
  <2>5. QED
    BY <1>2, <1>5, <2>1, <2>4, SweepAfter DEF Counted
<1>14. CASE Interrupt
  <2>1. UNCHANGED <<mpc, mt, iter>>
    <3>1. signals \in 0..MaxSignals /\ MaxSignals \in Nat
      BY EnvironmentAssumption DEF TypeInv, TypeOK, MonitorTypes
    <3>2. signals' # 0
      BY <1>14, <3>1 DEF Interrupt
    <3>3. monitorLoop = "waitAndScroll"
      BY <1>1, <3>2 DEF Clean, WholeWaits, options
    <3>4. QED
      BY <1>14, <3>3 DEF Interrupt
  <2>2. UNCHANGED <<mp, rpc, lbrp>>
    BY <1>14 DEF Interrupt, AllRead, sems, readers, entry
  <2>3. QED
    BY <1>7, <2>1, <2>2 DEF Through
<1>15. QED
  BY <1>9, <1>10, <1>11, <1>12, <1>13, <1>14 DEF MonitorStep

LEMMA CountStep ==
  ASSUME OpensCounted
  PROVE  TypeInv /\ BarrierInv /\ CountInv /\ [Next]_vars => CountInv'
<1> SUFFICES ASSUME TypeInv, BarrierInv, CountInv, [Next]_vars PROVE CountInv'
  OBVIOUS
<1>1. CASE Monitor \/ (Interrupt /\ UNCHANGED options)
  BY <1>1, CountMonitor DEF Monitor
<1>2. CASE \E t \in Test : Reader(t) \/ Writer(t)
  BY <1>2, CountReader, CountWriter DEF Reader, Writer
<1>3. CASE UNCHANGED vars
  <2>1. UNCHANGED <<mp, mpc, mt, iter, signals, readers, lbrp, rxCount, txCount, result, options>>
    BY <1>3 DEF vars, sems, monitor, entry
  <2>2. QED
    BY <2>1 DEF CountInv, Clean, WholeWaits, Counted, Placed, InSweep, Through, readers, rxCount, txCount,
       result, options, RatesBefore, PerRate, Sizes, PerSweep, RateCount
<1>4. QED
  BY <1>1, <1>2, <1>3 DEF Next, Terminated

------------------------------------------------------------------------------
(* The end.  When the verdict is printed all threads have been cancelled.    *)

Gone(t) == wpc[t] = "cancelled" /\ rpc[t] = "cancelled"
EndInv ==
  /\ mpc \in {"cancel", "joinW", "joinR"} => \A t \in Test : t < mt => Gone(t)
  /\ mpc = "done" => \A t \in Test : Gone(t)
  /\ verdict # "none" => mpc = "done"
  /\ verdict = "PASSED" => ~ftFailed

LEMMA EndInit == Init => EndInv
BY DEF Init, EndInv

LEMMA EndThread ==
  ASSUME TypeInv, EndInv, NEW x \in Test, ReaderStep(x) \/ WriterStep(x)
  PROVE  EndInv'
<1> USE RateTypes, CountsAreNat
<1>1. UNCHANGED <<mpc, mt, verdict>>
  <2>1. ReaderStep(x) => UNCHANGED monitor
    BY ReaderCounts
  <2>2. WriterStep(x) => UNCHANGED monitor
    BY DEF WriterStep, Ready, TakeFrame, Transmit, Write, Count
  <2>3. QED
    BY <2>1, <2>2 DEF monitor
<1>2. ~Gone(x)
  <2>1. ReaderStep(x) => rpc[x] # "cancelled"
    BY DEF ReaderStep, Park, Begin, Open, Rate, InitAlone, Check, Grant, Mark, Lock, Restore,
         Frame, StartFrame, TxTimeout, Receive, Complete, PostMon
  <2>2. WriterStep(x) => wpc[x] # "cancelled"
    BY DEF WriterStep, Ready, TakeFrame, Transmit, Write, Count
  <2>3. QED
    BY <2>1, <2>2 DEF Gone
<1>3. ASSUME NEW u \in Test, Gone(u) PROVE Gone(u)'
  <2>1. u # x
    BY <1>2, <1>3
  <2>2. CASE ReaderStep(x)
    <3>1. rpc'[u] = rpc[u]
      BY <2>1, <2>2, ReaderMoves
    <3>2. UNCHANGED writers
      BY <2>2 DEF ReaderStep, Park, Begin, Open, Rate, InitAlone, Check, Grant, Mark, Lock, Restore,
         Frame, StartFrame, TxTimeout, Receive, Complete, PostMon
    <3>3. QED
      BY <1>3, <3>1, <3>2 DEF Gone, writers
  <2>3. CASE WriterStep(x)
    <3>1. UNCHANGED readers /\ \E p : wpc' = [wpc EXCEPT ![x] = p]
      BY <2>3 DEF WriterStep, Ready, TakeFrame, Transmit, Write, Count, WriterGoTo
    <3>2. QED
      BY <1>3, <2>1, <3>1 DEF Gone, readers
  <2>4. QED
    BY <2>2, <2>3
<1>4. mpc # "done"
  BY <1>2 DEF EndInv
<1>5. QED
  BY <1>1, <1>3, <1>4 DEF EndInv

LEMMA EndMonitor ==
  ASSUME TypeInv, FrameInv, EndInv, MonitorStep \/ Interrupt
  PROVE  EndInv'
<1> USE CountsAreNat
<1>1. NTests \in Nat /\ mt \in 1..NTests /\ Test = 1..NTests
  BY TestsAssumption DEF TypeInv, TypeOK, MonitorTypes, Test
<1>2. UNCHANGED ftFailed
  BY DEF MonitorStep, PostReader, WaitTest, TimedOut, Free, JoinWriter, JoinReader, Interrupt,
         AllRead, result
<1>3. CASE JoinReader
  <2>1. \A t \in Test : Gone(t) \/ t = mt => Gone(t)'
    <3>1. wpc[mt] = "cancelled" /\ rpc' = [rpc EXCEPT ![mt] = "cancelled"] /\ UNCHANGED wpc
      BY <1>3 DEF JoinReader, GoTo, writers, FrameInv, WriterCancelledFirst
    <3>2. \A t \in Test : wpc'[t] = wpc[t] /\ rpc'[t] = IF t = mt THEN "cancelled" ELSE rpc[t]
      BY <3>1
    <3>3. QED
      BY <3>1, <3>2 DEF Gone
  <2>2. mpc = "joinR" /\ \A t \in Test : t < mt => Gone(t)
    BY <1>3 DEF JoinReader, EndInv
  <2>3. CASE ~Last /\ mt' = mt + 1 /\ mpc' = "cancel" /\ UNCHANGED verdict
    <3>1. \A t \in Test : t < mt' => t < mt \/ t = mt
      BY <1>1, <2>3
    <3>2. \A t \in Test : t < mt' => Gone(t)'
      BY <2>1, <2>2, <3>1
    <3>3. verdict = "none"
      BY <2>2 DEF EndInv
    <3>4. QED
      BY <2>3, <3>2, <3>3 DEF EndInv
  <2>4. CASE /\ Last /\ mpc' = "done"
             /\ verdict' = IF ftFailed THEN "FAILED" ELSE IF ftPassed THEN "PASSED" ELSE "DID NOT RUN"
    <3>1. \A t \in Test : t < mt \/ t = mt
      <4>1. mt = NTests
        BY <2>4 DEF Last
      <4>2. QED
        BY <1>1, <4>1
    <3>2. \A t \in Test : Gone(t)'
      BY <2>1, <2>2, <3>1
    <3>3. verdict' = "PASSED" => ~ftFailed'
      BY <1>2, <2>4
    <3>4. QED
      BY <2>4, <3>2, <3>3 DEF EndInv
  <2>5. QED
    BY <1>3, <2>3, <2>4 DEF JoinReader
<1>4. CASE JoinWriter
  <2>1. \A t \in Test : Gone(t) => Gone(t)'
    BY <1>1, <1>4 DEF JoinWriter, WriterGoTo, readers, Gone
  <2>2. QED
    BY <1>2, <1>4, <2>1 DEF JoinWriter, EndInv
<1>5. CASE PostReader \/ WaitTest \/ TimedOut \/ Free \/ Interrupt
  <2>1. UNCHANGED <<verdict, rpc, wpc>> /\ mpc # "done"
    BY <1>5 DEF PostReader, WaitTest, TimedOut, Free, Interrupt, AllRead, readers, writers
  <2>2. \/ mpc' \in {"post", "wait"} \/ (mpc' = "cancel" /\ mt' = 1)
        \/ UNCHANGED <<mpc, mt>> \/ (mpc = "cancel" /\ mpc' = "joinW" /\ UNCHANGED mt)
    <3>1. NextWait => \/ mpc' = "post" \/ (mpc' = "cancel" /\ mt' = 1) \/ mpc' = mpc
      BY DEF NextWait
    <3>2. CASE PostReader \/ WaitTest \/ TimedOut
      BY <3>1, <3>2 DEF PostReader, WaitTest, TimedOut, Unblock
    <3>3. CASE Free
      BY <3>3 DEF Free
    <3>4. CASE Interrupt
      BY <3>1, <3>4 DEF Interrupt, Unblock
    <3>5. QED
      BY <1>5, <3>2, <3>3, <3>4
  <2>3. \A t \in Test : Gone(t)' = Gone(t)
    BY <2>1 DEF Gone
  <2>4. (mpc' = "cancel" /\ mt' = 1) => \A t \in Test : ~(t < mt')
    BY <1>1
  <2>5. /\ mpc' \in {"cancel", "joinW", "joinR"} => \A t \in Test : t < mt' => Gone(t)'
        /\ mpc' # "done"
    BY <2>1, <2>2, <2>3, <2>4 DEF EndInv
  <2>6. verdict' = "none"
    BY <2>1 DEF EndInv
  <2>7. QED
    BY <2>5, <2>6 DEF EndInv
<1>6. QED
  BY <1>3, <1>4, <1>5 DEF MonitorStep

LEMMA EndStep == TypeInv /\ FrameInv /\ EndInv /\ [Next]_vars => EndInv'
<1> SUFFICES ASSUME TypeInv, FrameInv, EndInv, [Next]_vars PROVE EndInv'
  OBVIOUS
<1>1. CASE Monitor \/ Interrupt
  BY <1>1, EndMonitor DEF Monitor
<1>2. CASE \E t \in Test : Reader(t) \/ Writer(t)
  BY <1>2, EndThread DEF Reader, Writer
<1>3. CASE UNCHANGED vars
  BY <1>3 DEF vars, EndInv, Gone, monitor, readers, writers, result
<1>4. QED
  BY <1>1, <1>2, <1>3 DEF Next, Terminated

\* A run that ends with PASSED has received every frame of every test intact, for every
\* number of tests, rates, frame sizes and sweeps and all faults (serialFit, spExtLpback):
\* no failure on any path is lost before ftComplete, but for the one of a receiver of a cable
\* that cannot be opened, which spExtLpback returns without counting it.
THEOREM PassedMeansAllFramesHolds ==
  ASSUME OpensCounted
  PROVE  Spec => []PassedMeansAllFrames
<1>1. TypeInv /\ BarrierInv /\ CountInv /\ EndInv => PassedMeansAllFrames
  <2> SUFFICES ASSUME TypeInv, BarrierInv, CountInv, EndInv, verdict = "PASSED", WholeWaits, rxType # 3,
                      NEW t \in Test
               PROVE  rxOK[t] = Frames(t) /\ rxNG[t] = 0 /\ txNG[t] = 0
    BY DEF PassedMeansAllFrames
  <2>1. mpc = "done" /\ ~ftFailed /\ rpc[t] = "cancelled"
    BY DEF EndInv, Gone
  <2>2. Counted(t)
    BY <2>1 DEF CountInv, Clean
  <2>3. mp[t] = 0
    BY <2>1, PhaseOfPosts DEF Owed
  <2>4. InSweep(t) = 0
    BY <2>1, <2>3 DEF InSweep, AtRate, AtFrame, Through
  <2>5. (Iterations - iter) * PerSweep(t) + 0 = Frames(t)
    <3>1. iter \in Int
      BY DEF TypeInv, TypeOK, MonitorTypes
    <3>2. Iterations - iter \in Int /\ RateCount(t) \in Nat
      BY <3>1, OptionAssumption, RatesCounted
    <3>3. ASSUME NEW d \in Int, NEW c \in Nat, NEW f \in Nat, NEW n \in Nat
          PROVE  d * (c * (f * n)) + 0 = d * c * f * n
      OBVIOUS
    <3>4. Frames(t) = (Iterations - iter) * RateCount(t) * FrameIter * Sizes
      BY DEF Frames, RateCount, Sizes
    <3>5. PerSweep(t) = RateCount(t) * (FrameIter * Sizes)
      BY DEF PerSweep, PerRate
    <3>6. FrameIter \in Nat /\ Sizes \in Nat
      BY SizeTypes
    <3>7. QED
      BY <3>2, <3>3, <3>4, <3>5, <3>6
  <2>6. QED
    BY <2>2, <2>4, <2>5 DEF Counted
<1>2. TypeInv /\ BarrierInv /\ CountInv /\ [Next]_vars => CountInv'
  BY CountStep
<1>3. QED
  BY <1>1, <1>2, TypeInit, TypeStep, BarrierInit, BarrierStep, FrameInit, FrameStep, CountInit,
     EndInit, EndStep, PTL DEF Spec

------------------------------------------------------------------------------
(* Faultless devices.  A frame is on its way from the reader that asked for  *)
(* it: as the post of mp_w, with the writer, or whole on the wire.           *)

Handed(t) ==
  IF rpc[t] = "receive"
  THEN \/ mp_w[t] = 1 /\ wpc[t] = "waitRx" /\ wire[t] = <<>>
       \/ mp_w[t] = 0 /\ wpc[t] \in {"taken", "write"} /\ wire[t] = <<>>
       \/ /\ mp_w[t] = 0 /\ wpc[t] \in {"count", "ready", "waitRx"}
          /\ Len(wire[t]) = comSz[t] /\ Match(t)
  ELSE mp_w[t] = 0 /\ wpc[t] \in {"ready", "waitRx", "count", "cancelled"} /\ wire[t] = <<>>

\* What the threads of a test tell each other and what they have counted.
Told(t) ==
  /\ spSt_w[t] = "waitingForRx" => wpc[t] \in {"waitRx", "taken", "cancelled"}
  /\ wpc[t] = "cancelled" => Stopping
  /\ wpc[t] = "count" => bCnt[t] # -1
  /\ rpc[t] = "init" => Concurrent(t) = {}
Balanced(t) ==
  txOK[t] + mp_w[t] + (IF Sending(t) THEN 1 ELSE 0) = rxOK[t] + (IF rpc[t] = "receive" THEN 1 ELSE 0)
Noted(t) == rxOK[t] > 0 => ftPassed
Good(t) == Handed(t) /\ Told(t) /\ Balanced(t) /\ Noted(t)

Happy == Faults = {} /\ rxType = 2 /\ WholeWaits
GoodInv ==
  Happy => /\ ~ftFailed /\ \A t \in Test : Good(t)
           /\ mpc = "done" => verdict = "PASSED"

\* At least one sweep is run.
SweepsRun == WholeWaits => iter <= Iterations /\ (Stopping => iter < Iterations)

LEMMA GoodInit == Init => GoodInv
<1> SUFFICES ASSUME Init PROVE ~ftFailed /\ (\A t \in Test : Good(t)) /\ mpc # "done"
  BY DEF GoodInv
<1>1. ~ftFailed /\ mpc # "done"
  BY DEF Init
<1> SUFFICES ASSUME NEW t \in Test PROVE Good(t)
  BY <1>1
<1>2. /\ rpc[t] = "park" /\ wpc[t] = "ready" /\ mp_w[t] = 0 /\ wire[t] = <<>>
      /\ spSt_w[t] = "scheduled" /\ txOK[t] = 0 /\ rxOK[t] = 0
  BY DEF Init
<1>3. QED
  BY <1>2 DEF Good, Handed, Told, Balanced, Noted, Sending

LEMMA SweepsInit == Init => SweepsRun
BY OptionAssumption DEF Init, SweepsRun, Stopping

LEMMA WholeBefore ==
  ASSUME TypeInv, [Next]_vars, WholeWaits'
  PROVE  WholeWaits
<1>1. signals' = signals \/ signals' = signals + 1
  <2>1. CASE Monitor \/ Interrupt
    BY <2>1 DEF Monitor, MonitorStep, PostReader, WaitTest, TimedOut, Free, JoinWriter, JoinReader, Interrupt
  <2>2. CASE \E t \in Test : Reader(t)
    BY <2>2, ReaderCounts DEF Reader, monitor
  <2>3. CASE \E t \in Test : Writer(t)
    BY <2>3 DEF Writer, WriterStep, Ready, TakeFrame, Transmit, Write, Count, monitor
  <2>4. CASE UNCHANGED vars
    BY <2>4 DEF vars, monitor
  <2>5. QED
    BY <2>1, <2>2, <2>3, <2>4 DEF Next, Terminated
<1>2. UNCHANGED options
  BY DEF Next, Monitor, Reader, Writer, Terminated, vars
<1>3. signals \in 0..MaxSignals /\ MaxSignals \in Nat
  BY EnvironmentAssumption DEF TypeInv, TypeOK, MonitorTypes
<1>4. QED
  BY <1>1, <1>2, <1>3 DEF WholeWaits, options

\* As long as no wait is cut short, a signal does not move the monitor.
LEMMA WholeInterrupt ==
  ASSUME TypeInv, Interrupt, UNCHANGED options, WholeWaits'
  PROVE  UNCHANGED <<mpc, mt, iter, verdict, AllRead>>
<1>1. signals \in 0..MaxSignals /\ MaxSignals \in Nat
  BY EnvironmentAssumption DEF TypeInv, TypeOK, MonitorTypes
<1>2. signals' # 0
  BY <1>1 DEF Interrupt
<1>3. monitorLoop = "waitAndScroll"
  BY <1>2 DEF WholeWaits, options
<1>4. QED
  BY <1>3 DEF Interrupt

LEMMA SweepsStep == TypeInv /\ SweepsRun /\ [Next]_vars => SweepsRun'
<1> SUFFICES ASSUME TypeInv, SweepsRun, [Next]_vars, WholeWaits'
             PROVE  iter' <= Iterations /\ (Stopping' => iter' < Iterations)
  BY DEF SweepsRun
<1>1. iter \in Int /\ Iterations \in Nat
  BY OptionAssumption DEF TypeInv, TypeOK, MonitorTypes
<1>2. WholeWaits
  BY WholeBefore
<1>3. iter <= Iterations /\ (Stopping => iter < Iterations)
  BY <1>2 DEF SweepsRun
<1>4. CASE WaitTest
  <2>1. \/ iter' = iter - 1
        \/ iter' = iter /\ mpc' = mpc
    BY <1>4 DEF WaitTest, NextWait
  <2>2. QED
    BY <1>1, <1>3, <2>1 DEF Stopping
<1>5. ~TimedOut
  BY <1>2 DEF TimedOut, WholeWaits
<1>6. CASE Interrupt /\ UNCHANGED options
  BY <1>3, <1>6, WholeInterrupt DEF Stopping
<1>7. CASE PostReader \/ Free \/ JoinWriter \/ JoinReader
  BY <1>3, <1>7 DEF PostReader, Free, JoinWriter, JoinReader, Stopping
<1>8. CASE (\E t \in Test : Reader(t) \/ Writer(t)) \/ UNCHANGED vars
  <2>1. UNCHANGED monitor
    <3>1. CASE \E t \in Test : Reader(t)
      BY <3>1, ReaderCounts DEF Reader
    <3>2. CASE \E t \in Test : Writer(t)
      BY <3>2 DEF Writer, WriterStep, Ready, TakeFrame, Transmit, Write, Count
    <3>3. CASE UNCHANGED vars
      BY <3>3 DEF vars
    <3>4. QED
      BY <1>8, <3>1, <3>2, <3>3
  <2>2. QED
    BY <1>3, <2>1 DEF monitor, Stopping
<1>9. QED
  BY <1>4, <1>5, <1>6, <1>7, <1>8 DEF Next, Monitor, MonitorStep, Terminated

\* When the threads are stopped no reader is at work.
LEMMA StoppedRests ==
  ASSUME TypeInv, BarrierInv, WholeWaits, NEW t \in Test
  PROVE  /\ Busy(t) => ~Stopping
         /\ Stopping => mp[t] = 0
<1>1. Stopping => Owed(t) = 0
  BY DEF Stopping, Owed
<1>2. QED
  BY <1>1, PhaseOfPosts

\* A frame that was not interfered with.
LEMMA GoodReceive ==
  ASSUME TypeInv, Happy, NEW t \in Test, Receive(t), Good(t), ~ftFailed
  PROVE  Good(t)' /\ ~ftFailed'
<1>1. comSz[t] \in Nat /\ comSz[t] > 0 /\ wire[t] \in Seq(1..MaxFrame) /\ wire \in [Test -> Seq(1..MaxFrame)]
      /\ rxOK \in [Test -> Nat] /\ rpc \in [Test -> ReaderPC]
  BY SweepAssumption
     DEF Receive, TypeInv, TypeOK, EntryTypes, FrameSized, LineTypes, RxCountTypes, ReaderTypes
<1>2. rpc[t] = "receive" /\ UNCHANGED <<mp_w, spSt_w, wpc, bCnt, mpc, txOK>>
  BY DEF Receive, sems, words, writers, monitor, txCount
<1>3. RxTypeTwo(t)
  BY DEF Receive, RxTypeZero, RxTypeOne, RxTypeThree, Happy
<1>4. ~CanMiss(t)
  <2>1. Over(t) => Len(wire[t]) = comSz[t]
    BY <1>2 DEF Over, Good, Handed
  <2>2. Len(wire[t]) = comSz[t] => Arrived(t)
    BY <1>1 DEF Arrived
  <2>3. Faults \cap {"late", "rxError"} = {}
    BY DEF Happy
  <2>4. QED
    BY <2>1, <2>2, <2>3 DEF CanMiss
<1>5. Arrived(t) /\ Take(t, comSz[t]) /\ Verdict(t, Match(t), Failed(Match(t)))
  BY <1>3, <1>4 DEF RxTypeTwo
<1>6. mp_w[t] = 0 /\ wpc[t] \in {"count", "ready", "waitRx"} /\ Len(wire[t]) = comSz[t] /\ Match(t)
  <2>1. Len(<<>>) = 0
    BY EmptySeq
  <2>2. wire[t] # <<>>
    BY <1>1, <1>5, <2>1 DEF Arrived
  <2>3. QED
    BY <1>2, <2>2 DEF Good, Handed
<1>7. Verdict(t, TRUE, 0)
  <2>1. Match(t) = TRUE
    BY <1>6 DEF Match
  <2>2. QED
    BY <1>5, <2>1 DEF Failed
<1>8. wire'[t] = <<>>
  <2>1. SubSeq(wire[t], comSz[t] + 1, Len(wire[t])) = <<>>
    BY <1>1, <1>6, SubSeqEmpty
  <2>2. QED
    BY <1>1, <1>5, <2>1 DEF Take
<1>9. /\ rxOK' = [rxOK EXCEPT ![t] = @ + 1] /\ ftPassed' /\ ~ftFailed' /\ AfterFrame(t, TRUE)
  <2>1. rxOK' = [rxOK EXCEPT ![t] = @ + (IF TRUE THEN 1 ELSE 0)]
    BY <1>7 DEF Verdict
  <2>2. ftPassed' = (ftPassed \/ TRUE) /\ AfterFrame(t, TRUE)
    BY <1>7 DEF Verdict
  <2>3. ftFailed' = (ftFailed \/ 0 > 0)
    BY <1>7 DEF Verdict
  <2>4. ~(0 > 0)
    OBVIOUS
  <2>5. ~ftFailed'
    BY <2>3, <2>4
  <2>6. QED
    BY <2>1, <2>2, <2>5
<1>10. rpc'[t] \in {"complete", "frame", "rate"}
  BY <1>1, <1>9 DEF AfterFrame, GoTo
<1>11. Handed(t)'
  BY <1>2, <1>6, <1>8, <1>10 DEF Handed
<1>12. Told(t)'
  BY <1>2, <1>10 DEF Good, Told, Stopping
<1>13. Balanced(t)'
  <2>1. rxOK'[t] = rxOK[t] + 1 /\ rxOK[t] \in Nat
    BY <1>1, <1>9
  <2>2. Sending(t)' = Sending(t)
    BY <1>2 DEF Sending
  <2>3. txOK[t] + mp_w[t] + (IF Sending(t) THEN 1 ELSE 0) = rxOK[t] + 1
    BY <1>2 DEF Good, Balanced
  <2>4. QED
    BY <1>2, <1>10, <2>1, <2>2, <2>3 DEF Balanced
<1>14. QED
  BY <1>9, <1>11, <1>12, <1>13 DEF Good, Noted

\* The wires change under no reader but by its own receive: a flush finds them empty.
LEMMA WiresKept ==
  ASSUME TypeInv, GrantFindsSleeper, \A t \in Test : Good(t),
         NEW x \in Test, ReaderStep(x), NEW u \in Test, ~(Receive(x) /\ u = x)
  PROVE  wire'[u] = wire[u]
<1> USE RateTypes
<1>1. wire \in [Test -> Seq(1..MaxFrame)]
  BY DEF TypeInv, TypeOK, LineTypes
<1>2. CASE Receive(x)
  <2>1. wire' = wire \/ \E n : Take(x, n)
    BY <1>2 DEF Receive, RxTypeZero, RxTypeOne, RxTypeTwo, RxTypeThree
  <2>2. u # x
    BY <1>2
  <2>3. QED
    BY <1>1, <2>1, <2>2 DEF Take
<1>3. CASE InitAlone(x) \/ Grant(x)
  <2>1. wire' = [v \in Test |-> IF Cable(v) = Cable(x) THEN <<>> ELSE wire[v]] /\ rpc[x] \in {"init", "grant"}
    BY <1>3 DEF InitAlone, Grant, InitPorts
  <2>2. CASE Cable(u) = Cable(x)
    <3>1. u = x \/ u \in Concurrent(x)
      BY <2>2, SharedCable
    <3>2. rpc[u] # "receive"
      <4>1. CASE u = x
        BY <2>1, <4>1
      <4>2. CASE u \in Concurrent(x)
        <5>1. rpc[x] = "grant"
          BY <2>1, <4>2 DEF Good, Told
        <5>2. rpc[u] = "lock"
          BY <4>2, <5>1 DEF GrantFindsSleeper
        <5>3. QED
          BY <5>2
      <4>3. QED
        BY <3>1, <4>1, <4>2
    <3>3. wire[u] = <<>>
      BY <3>2 DEF Good, Handed
    <3>4. QED
      BY <2>1, <2>2, <3>3
  <2>3. CASE Cable(u) # Cable(x)
    BY <2>1, <2>3
  <2>4. QED
    BY <2>2, <2>3
<1>4. CASE UNCHANGED wire
  BY <1>4
<1>5. QED
  BY <1>2, <1>3, <1>4 DEF ReaderStep, Park, Begin, Open, Rate, Check, Mark, Lock, Restore,
     Frame, StartFrame, TxTimeout, Complete, PostMon, line

\* The other steps of a reader: StartFrame asks for a frame, the rest concern no frame.
LEMMA GoodWalk ==
  ASSUME TypeInv, BarrierInv, Happy, NEW t \in Test, ReaderStep(t), ~Receive(t), Good(t), ~ftFailed,
         wire'[t] = wire[t]
  PROVE  Good(t)' /\ ~ftFailed'
<1> USE RateTypes
<1>1. /\ UNCHANGED <<spSt_w, wpc, bCnt, mpc, txOK, rxOK, ftPassed>>
      /\ rpc[t] # "receive"
      /\ mp_w[t] = 0 /\ wpc[t] \in {"ready", "waitRx", "count", "cancelled"} /\ wire[t] = <<>>
  <2>1. UNCHANGED <<spSt_w, writers, ftPassed>> /\ rpc[t] # "receive"
    BY DEF ReaderStep, Park, Begin, Open, Rate, InitAlone, Check, Grant, Mark, Lock, Restore,
         Frame, StartFrame, TxTimeout, Complete, PostMon, words, result
  <2>2. UNCHANGED <<monitor, txCount, rxCount>>
    BY ReaderCounts
  <2>3. QED
    BY <2>1, <2>2 DEF writers, monitor, txCount, rxCount, Good, Handed
<1>2. ~ftFailed'
  <2>1. CASE Open(t)
    <3>1. GoTo(t, "rate") /\ (ftFailed' = (ftFailed \/ FALSE))
      BY <2>1 DEF Open, Happy
    <3>2. QED
      BY <3>1
  <2>2. ~TxTimeout(t)
    BY DEF TxTimeout, Happy
  <2>3. QED
    BY <2>1, <2>2 DEF ReaderStep, Park, Begin, Rate, InitAlone, Check, Grant, Mark, Lock, Restore,
         Frame, StartFrame, Complete, PostMon, result
<1>3. rpc'[t] = "init" => Concurrent(t) = {}
  <2>1. CASE Rate(t)
    <3>1. rpc[t] = "rate" /\ (rpc' = rpc \/ \E p : rpc' = [rpc EXCEPT ![t] = p] /\ (p = "init" => Concurrent(t) = {}))
      BY <2>1 DEF Rate, GoTo
    <3>2. QED
      BY <3>1
  <2>2. CASE ~Rate(t)
    <3>1. Kind(t) /\ rpc[t] # "rate"
      BY <2>2, ReaderKind DEF ReaderStep, Park, Begin, Open, InitAlone, Check, Grant, Mark, Lock, Restore,
         Frame, StartFrame, TxTimeout, Receive, Complete, PostMon
    <3>2. rpc'[t] # "init"
      BY <3>1 DEF Kind, Walks, Quits, Goes
    <3>3. QED
      BY <3>2
  <2>3. QED
    BY <2>1, <2>2
<1>4. Told(t)' /\ Noted(t)'
  <2>1. Stopping' = Stopping /\ Concurrent(t)' = Concurrent(t)
    BY <1>1 DEF Stopping, Concurrent
  <2>2. QED
    BY <1>1, <1>3, <2>1 DEF Good, Told, Noted
<1>5. CASE StartFrame(t)
  <2>1. /\ rpc[t] = "poll" /\ spSt_w[t] = "waitingForRx" /\ rpc'[t] = "receive"
        /\ mp_w' = [mp_w EXCEPT ![t] = @ + 1]
    BY <1>5 DEF StartFrame, GoTo, Post
  <2>2. ~Stopping
    BY <2>1, StoppedRests DEF Busy, Happy
  <2>3. wpc[t] = "waitRx"
    BY <1>1, <2>1, <2>2 DEF Good, Told
  <2>4. mp_w'[t] = 1
    BY <1>1, <2>1, CountsAreNat
  <2>5. Handed(t)'
    BY <1>1, <2>1, <2>3, <2>4 DEF Handed
  <2>6. Balanced(t)'
    <3>1. ~Sending(t) /\ ~Sending(t)'
      BY <1>1, <2>3 DEF Sending
    <3>2. txOK[t] + 0 + 0 = rxOK[t] + 0
      BY <1>1, <3>1 DEF Good, Balanced
    <3>3. txOK[t] \in Nat /\ rxOK[t] \in Nat
      BY CountsAreNat
    <3>4. txOK[t] + 1 + 0 = rxOK[t] + 1
      BY <3>2, <3>3
    <3>5. QED
      BY <1>1, <2>1, <2>4, <3>1, <3>4 DEF Balanced
  <2>7. QED
    BY <1>2, <1>4, <2>5, <2>6 DEF Good
<1>6. CASE ~StartFrame(t)
  <2>1. mp_w' = mp_w
    BY <1>6 DEF ReaderStep, Park, Begin, Open, Rate, InitAlone, Check, Grant, Mark, Lock, Restore,
         Frame, TxTimeout, Complete, PostMon, sems
  <2>2. rpc'[t] # "receive"
    <3>1. Kind(t)
      BY ReaderKind
    <3>2. rpc[t] # "poll" \/ TxTimeout(t)
      BY <1>6 DEF ReaderStep, Park, Begin, Open, Rate, InitAlone, Check, Grant, Mark, Lock, Restore,
         Frame, TxTimeout, Complete, PostMon
    <3>3. ~TxTimeout(t)
      BY DEF TxTimeout, Happy
    <3>4. QED
      BY <3>1, <3>2, <3>3 DEF Kind, Walks, Quits, Goes
  <2>3. Handed(t)'
    BY <1>1, <2>1, <2>2 DEF Handed
  <2>4. Balanced(t)'
    BY <1>1, <2>1, <2>2 DEF Good, Balanced, Sending
  <2>5. QED
    BY <1>2, <1>4, <2>3, <2>4 DEF Good
<1>7. QED
  BY <1>5, <1>6

\* What Good says of a test is about its own threads and its own entry.
LEMMA GoodKept ==
  ASSUME NEW u \in Test, Good(u), rpc'[u] = rpc[u], wpc'[u] = wpc[u], mp_w'[u] = mp_w[u],
         wire'[u] = wire[u], comSz'[u] = comSz[u], bCnt'[u] = bCnt[u], spSt_w'[u] = spSt_w[u],
         txOK'[u] = txOK[u], rxOK'[u] = rxOK[u], ftPassed => ftPassed', Stopping => Stopping'
  PROVE  Good(u)'
<1>1. Handed(u)'
  BY DEF Good, Handed, Match
<1>2. Told(u)'
  BY DEF Good, Told, Concurrent
<1>3. Balanced(u)'
  BY DEF Good, Balanced, Sending
<1>4. Noted(u)'
  BY DEF Good, Noted
<1>5. QED
  BY <1>1, <1>2, <1>3, <1>4 DEF Good

LEMMA ReaderSteers ==
  ASSUME TypeInv, NEW x \in Test, ReaderStep(x)
  PROVE  /\ UNCHANGED <<spSt_w, writers>>
         /\ ftPassed => ftPassed'
         /\ \A u \in Test \ {x} : mp_w'[u] = mp_w[u] /\ comSz'[u] = comSz[u] /\ rxOK'[u] = rxOK[u]
<1>1. mp_w \in [Test -> Nat] /\ comSz \in [Test -> 0..MaxFrame] /\ rxOK \in [Test -> Nat]
  BY CountsAreNat DEF TypeInv, TypeOK, EntryTypes
<1>2. UNCHANGED <<spSt_w, writers>>
  BY DEF ReaderStep, Park, Begin, Open, Rate, InitAlone, Check, Grant, Mark, Lock, Restore,
         Frame, StartFrame, TxTimeout, Receive, Complete, PostMon, words
<1>3. Receive(x) \/ UNCHANGED <<rxOK, ftPassed>>
  BY DEF ReaderStep, Park, Begin, Open, Rate, InitAlone, Check, Grant, Mark, Lock, Restore,
         Frame, StartFrame, TxTimeout, Complete, PostMon, rxCount, result
<1>4. mp_w' = mp_w \/ mp_w' = [mp_w EXCEPT ![x] = @ + 1]
  BY DEF ReaderStep, Park, Begin, Open, Rate, InitAlone, Check, Grant, Mark, Lock, Restore,
         Frame, StartFrame, TxTimeout, Receive, Complete, PostMon, sems, Post
<1>5. comSz' = comSz \/ \E n : comSz' = [comSz EXCEPT ![x] = n]
  BY DEF ReaderStep, Park, Begin, Open, Rate, InitAlone, Check, Grant, Mark, Lock, Restore,
         Frame, StartFrame, TxTimeout, Receive, RxTypeThree, Complete, PostMon, entry
<1>6. ASSUME Receive(x)
      PROVE  /\ rxOK' = rxOK \/ \E n : rxOK' = [rxOK EXCEPT ![x] = n]
             /\ ftPassed => ftPassed'
  <2>1. \/ UNCHANGED <<rxCount, result>>
        \/ \E ok, ng : Verdict(x, ok, ng)
    BY <1>6 DEF Receive, RxTypeZero, RxTypeOne, RxTypeTwo, RxTypeThree
  <2>2. CASE UNCHANGED <<rxCount, result>>
    BY <2>2 DEF rxCount, result
  <2>3. ASSUME NEW ok, NEW ng, Verdict(x, ok, ng)
        PROVE  \E n : rxOK' = [rxOK EXCEPT ![x] = n]
    BY <2>3 DEF Verdict
  <2>4. ASSUME NEW ok, NEW ng, Verdict(x, ok, ng)
        PROVE  ftPassed => ftPassed'
    <3>1. ftPassed' = (ftPassed \/ ok)
      BY <2>4 DEF Verdict
    <3>2. QED
      BY <3>1
  <2>5. QED
    BY <2>1, <2>2, <2>3, <2>4
<1>7. ftPassed => ftPassed'
  BY <1>3, <1>6
<1>8. \A u \in Test \ {x} : rxOK'[u] = rxOK[u]
  BY <1>1, <1>3, <1>6
<1>9. \A u \in Test \ {x} : mp_w'[u] = mp_w[u] /\ comSz'[u] = comSz[u]
  BY <1>1, <1>4, <1>5
<1>10. QED
  BY <1>2, <1>7, <1>8, <1>9

LEMMA GoodReader ==
  ASSUME TypeInv, BarrierInv, GrantFindsSleeper, GoodInv, NEW x \in Test, ReaderStep(x), UNCHANGED options
  PROVE  GoodInv'
<1>1. UNCHANGED <<monitor, txCount>> /\ UNCHANGED <<spSt_w, writers>> /\ (ftPassed => ftPassed')
  BY ReaderCounts, ReaderSteers
<1>2. Stopping' = Stopping /\ mpc' = mpc /\ verdict' = verdict /\ (WholeWaits' <=> WholeWaits)
  BY <1>1 DEF monitor, Stopping, WholeWaits, options
<1>3. SUFFICES ASSUME Happy, ~ftFailed, \A t \in Test : Good(t)
               PROVE  ~ftFailed' /\ \A t \in Test : Good(t)'
  BY <1>2 DEF GoodInv, Happy, options
<1>4. Good(x)' /\ ~ftFailed'
  <2>1. CASE Receive(x)
    BY <1>3, <2>1, GoodReceive
  <2>2. CASE ~Receive(x)
    <3>1. wire'[x] = wire[x]
      BY <1>3, <2>2, WiresKept
    <3>2. QED
      BY <1>3, <2>2, <3>1, GoodWalk
  <2>3. QED
    BY <2>1, <2>2
<1>5. ASSUME NEW u \in Test \ {x} PROVE Good(u)'
  <2>1. wire'[u] = wire[u]
    BY <1>3, WiresKept
  <2>2. rpc'[u] = rpc[u]
    BY ReaderKind DEF Apart
  <2>3. mp_w'[u] = mp_w[u] /\ comSz'[u] = comSz[u] /\ rxOK'[u] = rxOK[u]
    BY ReaderSteers
  <2>4. UNCHANGED <<wpc, bCnt, txOK, spSt_w>>
    BY <1>1 DEF writers, txCount
  <2>5. QED
    BY <1>1, <1>2, <1>3, <2>1, <2>2, <2>3, <2>4, GoodKept
<1>6. QED
  BY <1>4, <1>5

\* The steps of a writer hand the frame on and count it.
LEMMA GoodWriter ==
  ASSUME TypeInv, GoodInv, NEW x \in Test, WriterStep(x), UNCHANGED options
  PROVE  GoodInv'
<1> USE CountsAreNat
<1>1. /\ UNCHANGED <<rpc, comSz, rxOK, mpc, verdict, signals>>
      /\ ftPassed => ftPassed'
      /\ \A u \in Test \ {x} : /\ wpc'[u] = wpc[u] /\ mp_w'[u] = mp_w[u] /\ wire'[u] = wire[u]
                                /\ bCnt'[u] = bCnt[u] /\ spSt_w'[u] = spSt_w[u] /\ txOK'[u] = txOK[u]
  <2>1. /\ spSt_w \in [Test -> SpState] /\ bCnt \in [Test -> -1..MaxFrame]
        /\ wire \in [Test -> Seq(1..MaxFrame)]
    BY DEF TypeInv, TypeOK, WordTypes, WriterTypes, LineTypes
  <2>2. UNCHANGED <<rpc, comSz, rxOK, mpc, verdict, signals>>
    BY DEF WriterStep, Ready, TakeFrame, Transmit, Write, Count, readers, entry, rxCount, monitor
  <2>3. ftPassed => ftPassed'
    BY DEF WriterStep, Ready, TakeFrame, Transmit, Write, Count, result
  <2>4. CASE Ready(x)
    BY <2>1, <2>2, <2>3, <2>4 DEF Ready, WriterGoTo, sems, line, txCount
  <2>5. CASE TakeFrame(x)
    BY <2>1, <2>2, <2>3, <2>5 DEF TakeFrame, Wait, WriterGoTo, words, line, txCount
  <2>6. CASE Transmit(x)
    BY <2>1, <2>2, <2>3, <2>6 DEF Transmit, WriterGoTo, sems, line, txCount
  <2>7. CASE Write(x)
    BY <2>1, <2>2, <2>3, <2>7 DEF Write, WriterGoTo, sems, words, txCount
  <2>8. CASE Count(x)
    BY <2>1, <2>2, <2>3, <2>8 DEF Count, WriterGoTo, sems, line
  <2>9. QED
    BY <2>2, <2>3, <2>4, <2>5, <2>6, <2>7, <2>8 DEF WriterStep
<1>2. Stopping' = Stopping /\ (WholeWaits' <=> WholeWaits)
  BY <1>1 DEF Stopping, WholeWaits, options
<1>3. SUFFICES ASSUME Happy, ~ftFailed, \A t \in Test : Good(t)
               PROVE  ~ftFailed' /\ Good(x)'
  <2>1. ASSUME Happy, \A t \in Test : Good(t), NEW u \in Test \ {x} PROVE Good(u)'
    BY <1>1, <1>2, <2>1, GoodKept
  <2>2. Happy' => Happy
    BY <1>2 DEF Happy, options
  <2>3. QED
    BY <1>1, <2>1, <2>2 DEF GoodInv
<1>4. /\ Concurrent(x)' = Concurrent(x) /\ rpc'[x] = rpc[x] /\ comSz'[x] = comSz[x]
      /\ rxOK'[x] = rxOK[x] /\ Noted(x)'
  BY <1>1, <1>3 DEF Concurrent, Good, Noted
<1>5. Handed(x) /\ Told(x) /\ Balanced(x)
  BY <1>3 DEF Good
<1>6. CASE Ready(x)
  <2>1. wpc[x] = "ready" /\ wpc'[x] = "waitRx" /\ UNCHANGED <<mp_w, wire, bCnt, txOK>> /\ ftFailed' = ftFailed
    BY <1>6 DEF Ready, WriterGoTo, sems, line, txCount, result
  <2>2. Handed(x)'
    BY <1>4, <1>5, <2>1 DEF Handed, Match
  <2>3. Told(x)'
    BY <1>4, <1>5, <2>1 DEF Told
  <2>4. Balanced(x)'
    BY <1>4, <1>5, <2>1 DEF Balanced, Sending
  <2>5. QED
    BY <1>3, <1>4, <2>1, <2>2, <2>3, <2>4 DEF Good
<1>7. CASE TakeFrame(x)
  <2>1. /\ wpc[x] = "waitRx" /\ wpc'[x] = "taken" /\ mp_w[x] > 0 /\ mp_w'[x] = mp_w[x] - 1
        /\ UNCHANGED <<spSt_w, wire, bCnt, txOK>> /\ ftFailed' = ftFailed
    BY <1>7 DEF TakeFrame, Wait, WriterGoTo, words, line, txCount, result
  <2>2. rpc[x] = "receive" /\ mp_w[x] = 1 /\ wire[x] = <<>>
    BY <1>5, <2>1 DEF Handed
  <2>3. Handed(x)'
    BY <1>4, <2>1, <2>2 DEF Handed
  <2>4. Told(x)'
    BY <1>4, <1>5, <2>1 DEF Told
  <2>5. Balanced(x)'
    <3>1. ~Sending(x) /\ Sending(x)'
      BY <2>1 DEF Sending
    <3>2. mp_w'[x] = 0
      BY <2>1, <2>2
    <3>3. txOK[x] + 1 + 0 = rxOK[x] + 1
      BY <1>5, <2>2, <3>1 DEF Balanced
    <3>4. txOK[x] \in Nat /\ rxOK[x] \in Nat
      OBVIOUS
    <3>5. txOK[x] + 0 + 1 = rxOK[x] + 1
      BY <3>3, <3>4
    <3>6. QED
      BY <1>4, <2>1, <2>2, <3>1, <3>2, <3>5 DEF Balanced
  <2>6. QED
    BY <1>3, <1>4, <2>1, <2>3, <2>4, <2>5 DEF Good
<1>8. CASE Transmit(x)
  <2>1. /\ wpc[x] = "taken" /\ wpc'[x] = "write" /\ spSt_w'[x] = "transmitting"
        /\ UNCHANGED <<mp_w, wire, bCnt, txOK>> /\ ftFailed' = ftFailed
    BY <1>8 DEF Transmit, WriterGoTo, sems, line, txCount, result, TypeInv, TypeOK, WordTypes
  <2>2. Handed(x)'
    BY <1>4, <1>5, <2>1 DEF Handed
  <2>3. Told(x)'
    BY <1>4, <1>5, <2>1 DEF Told
  <2>4. Balanced(x)'
    BY <1>4, <1>5, <2>1 DEF Balanced, Sending
  <2>5. QED
    BY <1>3, <1>4, <2>1, <2>2, <2>3, <2>4 DEF Good
<1>9. CASE Write(x)
  <2>1. wpc[x] = "write" /\ wpc'[x] = "count" /\ UNCHANGED <<mp_w, spSt_w, txOK>> /\ ftFailed' = ftFailed
    BY <1>9 DEF Write, WriterGoTo, sems, words, txCount, result
  <2>2. rpc[x] = "receive" /\ mp_w[x] = 0 /\ wire[x] = <<>>
    BY <1>5, <2>1 DEF Handed
  <2>3. comSz[x] \in 1..MaxFrame /\ MaxFrame \in Nat
    BY <2>2, SweepAssumption DEF TypeInv, TypeOK, EntryTypes, FrameSized
  <2>4. bCnt'[x] = comSz[x] /\ wire'[x] = <<>> \o [i \in 1..comSz[x] |-> comSz[x]]
    <3>1. PICK n \in -1..comSz[x], lost \in BOOLEAN :
            /\ n = -1 => "txError" \in Faults
            /\ n \in 0..(comSz[x] - 1) => "txShort" \in Faults
            /\ lost => "lose" \in Faults
            /\ bCnt' = [bCnt EXCEPT ![x] = n]
            /\ wire' = [wire EXCEPT ![x] = IF lost THEN @ ELSE @ \o [i \in 1..n |-> comSz[x]]]
      BY <1>9 DEF Write
    <3>2. ~lost /\ n # -1 /\ n \notin 0..(comSz[x] - 1)
      BY <1>3, <3>1 DEF Happy
    <3>3. n = comSz[x]
      BY <2>3, <3>2
    <3>4. bCnt \in [Test -> -1..MaxFrame] /\ wire \in [Test -> Seq(1..MaxFrame)]
      BY DEF TypeInv, TypeOK, WriterTypes, LineTypes
    <3>5. QED
      BY <2>2, <3>1, <3>2, <3>3, <3>4
  <2>5. wire'[x] = [i \in 1..comSz[x] |-> comSz[x]]
    <3>1. [i \in 1..comSz[x] |-> comSz[x]] \in Seq(1..MaxFrame)
      BY <2>3
    <3>2. QED
      BY <2>4, <3>1, ConcatEmptySeq
  <2>6. Len(wire'[x]) = comSz[x] /\ \A i \in 1..comSz[x] : wire'[x][i] = comSz[x]
    BY <2>3, <2>5
  <2>7. Match(x)'
    BY <1>4, <2>6 DEF Match
  <2>8. Handed(x)'
    BY <1>4, <2>1, <2>2, <2>6, <2>7 DEF Handed
  <2>9. Told(x)'
    <3>1. bCnt'[x] # -1
      BY <2>3, <2>4
    <3>2. spSt_w[x] # "waitingForRx"
      BY <1>5, <2>1 DEF Told
    <3>3. QED
      BY <1>4, <1>5, <2>1, <3>1, <3>2 DEF Told
  <2>10. Balanced(x)'
    BY <1>4, <1>5, <2>1 DEF Balanced, Sending
  <2>11. QED
    BY <1>3, <1>4, <2>1, <2>8, <2>9, <2>10 DEF Good
<1>10. CASE Count(x)
  <2>1. /\ wpc[x] = "count" /\ wpc'[x] = "ready" /\ spSt_w'[x] = "transmitComplete"
        /\ UNCHANGED <<mp_w, wire, bCnt>>
    BY <1>10 DEF Count, WriterGoTo, sems, line, TypeInv, TypeOK, WordTypes
  <2>2. bCnt[x] # -1 /\ rxType = 2
    BY <1>3, <1>5, <2>1 DEF Happy, Told
  <2>3. txOK'[x] = txOK[x] + 1
    BY <1>10, <2>2 DEF Count
  <2>4. ~ftFailed'
    BY <1>3, <1>10, <2>2 DEF Count
  <2>5. Handed(x)'
    BY <1>4, <1>5, <2>1 DEF Handed, Match
  <2>6. Told(x)'
    BY <1>4, <1>5, <2>1 DEF Told
  <2>7. Balanced(x)'
    <3>1. Sending(x) /\ ~Sending(x)'
      BY <2>1 DEF Sending
    <3>2. /\ txOK[x] \in Nat /\ mp_w[x] \in Nat /\ mp_w'[x] = mp_w[x]
          /\ txOK[x] + mp_w[x] + 1 = rxOK[x] + (IF rpc[x] = "receive" THEN 1 ELSE 0)
      BY <1>5, <2>1, <3>1 DEF Balanced
    <3>3. txOK'[x] + mp_w'[x] + 0 = rxOK[x] + (IF rpc[x] = "receive" THEN 1 ELSE 0)
      BY <2>3, <3>2
    <3>4. QED
      BY <1>4, <3>1, <3>3 DEF Balanced
  <2>8. QED
    BY <1>4, <2>4, <2>5, <2>6, <2>7 DEF Good
<1>11. QED
  BY <1>6, <1>7, <1>8, <1>9, <1>10 DEF WriterStep

\* The monitor stops threads that have nothing under way.
LEMMA GoodMonitor ==
  ASSUME TypeInv, BarrierInv, WholeWaits, Happy, NEW u \in Test, Good(u), MonitorStep
  PROVE  Good(u)'
<1> USE CountsAreNat
<1>1. mt \in Test
  BY DEF TypeInv, TypeOK, MonitorTypes
<1>2. CASE PostReader \/ WaitTest \/ TimedOut \/ Free
  <2>1. UNCHANGED <<rpc, wpc, mp_w, wire, comSz, bCnt, spSt_w, txOK, rxOK, ftPassed>>
    BY <1>2 DEF PostReader, WaitTest, TimedOut, Free, AllRead, sems, words, readers, writers, entry,
         line, rxCount, txCount, result
  <2>2. Stopping => Stopping'
    BY <1>2 DEF PostReader, WaitTest, TimedOut, Free, Stopping
  <2>3. QED
    BY <2>1, <2>2, GoodKept
<1>3. CASE JoinWriter
  <2>1. /\ UNCHANGED <<rpc, mp_w, wire, comSz, bCnt, spSt_w, txOK, rxOK, ftPassed>>
        /\ mpc = "joinW" /\ mpc' = "joinR" /\ wpc[mt] \in {"waitRx", "write"}
        /\ wpc' = [wpc EXCEPT ![mt] = "cancelled"]
    BY <1>3 DEF JoinWriter, WriterGoTo, sems, words, readers, entry, line, rxCount, txCount, result
  <2>2. Stopping /\ Stopping' /\ ~Busy(u)
    BY <2>1, StoppedRests DEF Stopping
  <2>3. rpc[u] # "receive"
    BY <2>2 DEF Busy
  <2>4. CASE u = mt
    <3>1. wpc[u] = "waitRx" /\ wpc'[u] = "cancelled"
      BY <2>1, <2>3, <2>4 DEF Good, Handed
    <3>2. Handed(u)'
      BY <2>1, <2>3, <3>1 DEF Good, Handed
    <3>3. Told(u)'
      BY <2>1, <2>2, <3>1 DEF Good, Told, Concurrent
    <3>4. Balanced(u)'
      BY <2>1, <3>1 DEF Good, Balanced, Sending
    <3>5. Noted(u)'
      BY <2>1 DEF Good, Noted
    <3>6. QED
      BY <3>2, <3>3, <3>4, <3>5 DEF Good
  <2>5. CASE u # mt
    <3>1. wpc'[u] = wpc[u]
      BY <2>1, <2>5
    <3>2. QED
      BY <2>1, <2>2, <3>1, GoodKept
  <2>6. QED
    BY <2>4, <2>5
<1>4. CASE JoinReader
  <2>1. /\ UNCHANGED <<wpc, mp_w, wire, comSz, bCnt, spSt_w, txOK, rxOK, ftPassed>>
        /\ mpc = "joinR" /\ mpc' \in {"cancel", "done"} /\ rpc' = [rpc EXCEPT ![mt] = "cancelled"]
    BY <1>4 DEF JoinReader, GoTo, sems, words, writers, entry, line, rxCount, txCount, result
  <2>2. Stopping /\ Stopping' /\ ~Busy(u)
    BY <2>1, StoppedRests DEF Stopping
  <2>3. rpc[u] # "receive"
    BY <2>2 DEF Busy
  <2>4. CASE u = mt
    <3>1. rpc'[u] = "cancelled"
      BY <2>1, <2>4
    <3>2. Handed(u)'
      BY <2>1, <2>3, <3>1 DEF Good, Handed
    <3>3. Told(u)'
      BY <2>1, <2>2, <3>1 DEF Good, Told
    <3>4. Balanced(u)'
      BY <2>1, <2>3, <3>1 DEF Good, Balanced, Sending
    <3>5. Noted(u)'
      BY <2>1 DEF Good, Noted
    <3>6. QED
      BY <3>2, <3>3, <3>4, <3>5 DEF Good
  <2>5. CASE u # mt
    <3>1. rpc'[u] = rpc[u]
      BY <2>1, <2>5
    <3>2. QED
      BY <2>1, <2>2, <3>1, GoodKept
  <2>6. QED
    BY <2>4, <2>5
<1>5. QED
  BY <1>2, <1>3, <1>4 DEF MonitorStep

\* Some entry of some test is not skipped.
SomethingRuns == \E t \in Test : RatesRun[t] # {}

\* When the threads are stopped each test has counted the frames of all sweeps.
LEMMA AllSweepsCounted ==
  ASSUME TypeInv, BarrierInv, CountInv, GoodInv, Happy, Stopping, NEW t \in Test
  PROVE  rxOK[t] = (Iterations - iter) * PerSweep(t)
<1>1. Counted(t)
  BY DEF CountInv, GoodInv, Clean, Happy
<1>2. ~Busy(t) /\ mp[t] = 0
  BY StoppedRests DEF Happy
<1>3. InSweep(t) = 0
  BY <1>2 DEF InSweep, AtRate, AtFrame, Through, Busy, Stopping
<1>4. Iterations - iter \in Int /\ PerSweep(t) \in Nat
  <2>1. iter \in Int /\ Iterations \in Nat
    BY OptionAssumption DEF TypeInv, TypeOK, MonitorTypes
  <2>2. QED
    BY <2>1, RatesCounted
<1>5. (Iterations - iter) * PerSweep(t) \in Int
  BY <1>4
<1>6. QED
  BY <1>1, <1>3, <1>5 DEF Counted

LEMMA SomethingPassed ==
  ASSUME SomethingRuns, TypeInv, BarrierInv, CountInv, SweepsRun, GoodInv, Happy, Stopping
  PROVE  ftPassed
<1>1. PICK t \in Test : RatesRun[t] # {}
  BY DEF SomethingRuns
<1>2. RateCount(t) \in Nat \ {0}
  <2>1. NRates \in Nat /\ RatesRun[t] \in SUBSET (1..NRates)
    BY SweepAssumption
  <2>2. IsFiniteSet(RatesRun[t])
    <3>1. IsFiniteSet(1..NRates)
      BY <2>1, FS_Interval
    <3>2. QED
      BY <2>1, <3>1, FS_Subset
  <2>3. QED
    BY <1>1, <2>2, RatesCounted, FS_EmptySet DEF RateCount
<1>3. PerSweep(t) \in Nat \ {0}
  BY <1>2, SizeTypes DEF PerSweep
<1>4. Iterations - iter \in Nat \ {0}
  <2>1. iter \in Int /\ Iterations \in Nat
    BY OptionAssumption DEF TypeInv, TypeOK, MonitorTypes
  <2>2. iter < Iterations
    BY DEF Happy, SweepsRun
  <2>3. QED
    BY <2>1, <2>2
<1>5. ASSUME NEW a \in Nat \ {0}, NEW b \in Nat \ {0} PROVE a * b > 0
  BY <1>5
<1>6. rxOK[t] > 0
  BY <1>3, <1>4, <1>5, AllSweepsCounted
<1>7. QED
  BY <1>6 DEF GoodInv, Good, Noted

LEMMA GoodStep ==
  ASSUME SomethingRuns
  PROVE  TypeInv /\ BarrierInv /\ GrantFindsSleeper /\ CountInv /\ SweepsRun /\ GoodInv /\ [Next]_vars
         => GoodInv'
<1> SUFFICES ASSUME TypeInv, BarrierInv, GrantFindsSleeper, CountInv, SweepsRun, GoodInv, [Next]_vars
             PROVE  GoodInv'
  OBVIOUS
<1>1. CASE \E t \in Test : Reader(t) \/ Writer(t)
  BY <1>1, GoodReader, GoodWriter DEF Reader, Writer
<1>2. CASE Monitor \/ (Interrupt /\ UNCHANGED options) \/ UNCHANGED vars
  <2> SUFFICES ASSUME Happy' PROVE ~ftFailed' /\ (\A t \in Test : Good(t)') /\ (mpc' = "done" => verdict' = "PASSED")
    BY DEF GoodInv
  <2>1. WholeWaits
    BY WholeBefore DEF Happy
  <2>2. UNCHANGED options /\ UNCHANGED result
    BY <1>2 DEF Monitor, MonitorStep, PostReader, WaitTest, TimedOut, Free, JoinWriter, JoinReader,
         Interrupt, AllRead, vars
  <2>3. Happy
    BY <2>1, <2>2 DEF Happy, options
  <2>4. ~ftFailed' /\ \A t \in Test : Good(t)
    BY <2>2, <2>3 DEF GoodInv, result
  <2>5. CASE Monitor
    <3>1. \A t \in Test : Good(t)'
      BY <2>1, <2>3, <2>4, <2>5, GoodMonitor DEF Monitor
    <3>2. mpc' = "done" => verdict' = "PASSED"
      <4>1. SUFFICES ASSUME mpc' = "done" PROVE verdict' = "PASSED"
        OBVIOUS
      <4>2. ~PostReader /\ ~WaitTest /\ ~Free /\ ~JoinWriter
        BY <4>1 DEF PostReader, WaitTest, NextWait, Free, JoinWriter
      <4>3. ~TimedOut
        BY <2>1 DEF TimedOut, WholeWaits
      <4>4. JoinReader
        BY <2>5, <4>2, <4>3 DEF Monitor, MonitorStep
      <4>5. Stopping
        BY <4>4 DEF JoinReader, Stopping
      <4>6. ftPassed /\ ~ftFailed
        BY <2>3, <4>5, SomethingPassed DEF GoodInv
      <4>7. QED
        BY <4>1, <4>4, <4>6 DEF JoinReader
    <3>3. QED
      BY <2>4, <3>1, <3>2
  <2>6. CASE (Interrupt /\ UNCHANGED options) \/ UNCHANGED vars
    <3>1. UNCHANGED <<mpc, verdict, AllRead>>
      BY <2>6, WholeInterrupt DEF Happy, vars, monitor, AllRead
    <3>2. UNCHANGED <<rpc, wpc, mp_w, wire, comSz, bCnt, spSt_w, txOK, rxOK, ftPassed>>
      BY <3>1 DEF AllRead, sems, words, readers, writers, entry, line, rxCount, txCount, result
    <3>3. \A t \in Test : Good(t)'
      BY <2>4, <3>1, <3>2, GoodKept DEF Stopping
    <3>4. QED
      BY <2>3, <2>4, <3>1, <3>3 DEF GoodInv
  <2>7. QED
    BY <1>2, <2>5, <2>6
<1>3. QED
  BY <1>1, <1>2 DEF Next, Terminated

\* With faultless devices nothing but PASSED is possible as long as every post of a rendezvous has
\* found its sleeper, and then each frame is counted once by the reader and once by the writer, for
\* every number of tests, rates, frame sizes and sweeps and every interleaving of the threads
\* (spExtLpback, serialFit, ftComplete). The premise is one on the behaviour: where it fails, after
\* the double post of serialFit.c:2454-2470, nothing is claimed.
THEOREM FaultFreePassesHolds ==
  ASSUME SomethingRuns
  PROVE  Spec /\ []GrantFindsSleeper => []FaultFreePasses
<1>1. TypeInv /\ BarrierInv /\ CountInv /\ EndInv /\ GoodInv => FaultFreePasses
  <2> SUFFICES ASSUME TypeInv, BarrierInv, CountInv, EndInv, GoodInv, mpc = "done", Happy
               PROVE  verdict = "PASSED" /\ \A t \in Test : rxOK[t] = Frames(t) /\ txOK[t] = Frames(t)
    BY DEF FaultFreePasses, Happy
  <2>1. verdict = "PASSED" /\ Stopping
    BY DEF GoodInv, Stopping
  <2>2. ASSUME NEW t \in Test PROVE rxOK[t] = Frames(t) /\ txOK[t] = Frames(t)
    <3>1. rxOK[t] = (Iterations - iter) * PerSweep(t)
      BY <2>1, AllSweepsCounted
    <3>2. (Iterations - iter) * PerSweep(t) = Frames(t)
      <4>1. iter \in Int
        BY DEF TypeInv, TypeOK, MonitorTypes
      <4>2. Iterations - iter \in Int /\ RateCount(t) \in Nat
        BY <4>1, OptionAssumption, RatesCounted
      <4>3. ASSUME NEW d \in Int, NEW c \in Nat, NEW f \in Nat, NEW n \in Nat
            PROVE  d * (c * (f * n)) = d * c * f * n
        OBVIOUS
      <4>4. Frames(t) = (Iterations - iter) * RateCount(t) * FrameIter * Sizes
        BY DEF Frames, RateCount, Sizes
      <4>5. PerSweep(t) = RateCount(t) * (FrameIter * Sizes)
        BY DEF PerSweep, PerRate
      <4>6. QED
        BY <4>2, <4>3, <4>4, <4>5, SizeTypes
    <3>3. txOK[t] = rxOK[t]
      <4>1. Good(t) /\ ~Busy(t)
        BY <2>1, StoppedRests DEF GoodInv, Happy
      <4>2. rpc[t] # "receive"
        BY <4>1 DEF Busy
      <4>3. (mp_w[t] = 0 /\ ~Sending(t)) \/ wpc[t] = "count"
        BY <4>1, <4>2 DEF Good, Handed, Sending
      <4>4. wpc[t] # "count"
        BY DEF EndInv, Gone
      <4>5. QED
        BY <4>1, <4>2, <4>3, <4>4, CountsAreNat DEF Good, Balanced
    <3>4. QED
      BY <3>1, <3>2, <3>3
  <2>3. QED
    BY <2>1, <2>2
<1>2. Faults = {} => OpensCounted
  BY DEF OpensCounted
<1>3. CASE Faults = {}
  <2>1. TypeInv /\ BarrierInv /\ CountInv /\ [Next]_vars => CountInv'
    BY <1>2, <1>3, CountStep
  <2>2. TypeInv /\ BarrierInv /\ GrantFindsSleeper /\ CountInv /\ SweepsRun /\ GoodInv /\ [Next]_vars
        => GoodInv'
    BY GoodStep
  <2>3. QED
    BY <1>1, <2>1, <2>2, TypeInit, TypeStep, BarrierInit, BarrierStep, FrameInit, FrameStep,
       CountInit, EndInit, EndStep, SweepsInit, SweepsStep, GoodInit, PTL DEF Spec
<1>4. CASE Faults # {}
  <2>1. FaultFreePasses
    BY <1>4 DEF FaultFreePasses
  <2>2. QED
    BY <2>1, PTL
<1>5. QED
  BY <1>3, <1>4

\* Loopback plugs and cables tested in one direction have no rendezvous, so that there the verdict
\* of faultless devices is PASSED in every interleaving, with no premise on it.
THEOREM LoopbacksPassHolds ==
  ASSUME SomethingRuns, \A t \in Test : Concurrent(t) = {}
  PROVE  Spec => []FaultFreePasses
<1>1. GrantFindsSleeper
  BY DEF GrantFindsSleeper
<1>2. QED
  BY <1>1, FaultFreePassesHolds, PTL
===============================================================================
