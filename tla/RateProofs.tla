------------------------------ MODULE RateProofs ------------------------------
(****************************************************************************)
(* Proofs about the two directions of a cable, for every number of tests,   *)
(* rates, frame sizes and sweeps and all faults: the readers change rates   *)
(* together as long as every post of their lock finds a sleeper.            *)
(****************************************************************************)
EXTENDS SerialTestProofs

------------------------------------------------------------------------------
(* The cables.                                                              *)

\* The two directions of a cable are tested at the same rates (what serialFit makes of
\* the tables of two ports: RatesAlike of SerialConfig).
PairsAlike == \A t \in Test : \A c \in Concurrent(t) : RatesRun[c] = RatesRun[t]

\* Only concurrent tests share a cable.
LEMMA SharedCable ==
  ASSUME NEW t \in Test, NEW u \in Test
  PROVE  Cable(u) = Cable(t) <=> u = t \/ u \in Concurrent(t)
<1>1. u \in Concurrent(t) => Cable(u) = Cable(t)
  BY DEF Concurrent, Cable
<1>2. ASSUME Cable(u) = Cable(t), u # t PROVE u \in Concurrent(t)
  <2>1. DevR[u] # DevR[t] /\ DevW[u] # DevW[t]
    BY <1>2, TestsAssumption
  <2>2. {DevR[u], DevW[u]} = {DevR[t], DevW[t]}
    BY <1>2 DEF Cable
  <2>3. DevR[u] = DevW[t] /\ DevW[u] = DevR[t]
    BY <2>1, <2>2
  <2>4. QED
    BY <1>2, <2>3 DEF Concurrent
<1>3. QED
  BY <1>1, <1>2

------------------------------------------------------------------------------
(* Where a reader is, seen from the other end of the cable: on its way to   *)
(* the rendezvous of the rate lbrp, past it, through with the sweep, or not *)
(* yet in it.                                                               *)

Asleep(t) == rpc[t] = "lock" /\ spLock[Cable(t)] = 0
Woken(t) == rpc[t] = "lock" /\ spLock[Cable(t)] > 0
After(t) == rpc[t] \in {"restore", "frame", "poll", "receive"} \/ Woken(t)
Before(t) == rpc[t] \in {"rate", "init", "check", "grant", "mark"} \/ Asleep(t)
Through(t) == rpc[t] \in {"complete", "postMon"} \/ mp[t] > 0 \/ (mpc = "wait" /\ t < mt)

Where(t) ==
  IF After(t) THEN "after" ELSE IF Before(t) THEN "before"
  ELSE IF Through(t) THEN "through" ELSE "out"

\* Two readers of a cable: past the same rendezvous, or the one that is not is on its way
\* to the next; both on their way to the same; and who is not there yet has missed none.
PairOf(wt, lt, wc, lc, R) ==
  /\ wt = "after" => wc # "out"
  /\ wt = "after" /\ wc = "after" => lt = lc
  /\ wt = "after" /\ wc = "before" => lt < lc /\ \A r \in R : ~(lt < r /\ r < lc)
  /\ wt = "before" /\ wc = "before" => \A r \in R : ~(lt <= r /\ r < lc)
  /\ wt = "before" /\ wc = "out" => \A r \in R : lt <= r
Pair(t, c) == PairOf(Where(t), lbrp[t], Where(c), lbrp[c], RatesRun[t])
PairInv == \A t \in Test : \A c \in Concurrent(t) : Pair(t, c)

\* What a reader keeps to itself.
Own(t) ==
  /\ Where(t) \in {"before", "after"} => lbrp[t] \in 1..NRates + 1
  /\ rpc[t] \in {"init", "check", "grant", "mark", "lock"} \/ Where(t) = "after" =>
       lbrp[t] \in RatesRun[t]
  /\ rpc[t] = "init" => Concurrent(t) = {}
OwnInv == \A t \in Test : Own(t)

\* The word of a reader says that it waits while it does and only then.
WordInv ==
  \A t \in Test : /\ spSt_r[t] = "waitingForConcurrent" => rpc[t] \in {"lock", "restore"}
                  /\ rpc[t] = "lock" => spSt_r[t] = "waitingForConcurrent"
                  /\ rpc[t] \in {"lock", "restore"} => spTmp[t] # "waitingForConcurrent"

\* A post of the lock is for a reader that waits.
LockInv ==
  \A t \in Test : spLock[Cable(t)] > 0 =>
    spLock[Cable(t)] = 1 /\ \E u \in Test : Cable(u) = Cable(t) /\ rpc[u] = "lock"

\* Past the rendezvous the ports have the rate.
PortInv == \A t \in Test : Where(t) = "after" => portRate[Cable(t)] = lbrp[t]

\* Only a reader that has a partner wakes it.
GrantsInPair == \A t \in Test : rpc[t] = "grant" => Concurrent(t) # {}

\* While a reader has not yet taken its post, the other one does not go to sleep.
WokenAlone ==
  \A t \in Test : Woken(t) => \A c \in Concurrent(t) : rpc[c] \notin {"mark", "lock"}

LockedInv == WordInv /\ LockInv /\ GrantsInPair /\ WokenAlone
RateInv == OwnInv /\ PairInv /\ PortInv

LEMMA RateTypes ==
  ASSUME TypeInv
  PROVE  /\ rpc \in [Test -> ReaderPC] /\ spSt_r \in [Test -> SpState] /\ spTmp \in [Test -> SpState]
         /\ lbrp \in [Test -> 1..NRates + 3] /\ mp \in [Test -> Nat]
         /\ spLock \in [Cables -> Nat] /\ portRate \in [Cables -> 0..NRates + 3]
         /\ \A t \in Test : Cable(t) \in Cables
         /\ NRates \in Nat /\ Test \subseteq Int /\ mt \in Int
         /\ \A t \in Test : RatesRun[t] \subseteq 1..NRates
<1>1. NRates \in Nat /\ \A t \in Test : RatesRun[t] \subseteq 1..NRates
  BY SweepAssumption
<1>2. Test \subseteq Int /\ mt \in Int
  <2>1. NTests \in Nat
    BY TestsAssumption
  <2>2. Test \subseteq Int
    BY <2>1 DEF Test
  <2>3. QED
    BY <2>2 DEF TypeInv, TypeOK, MonitorTypes
<1>3. Beyond + 1 = NRates + 3
  BY <1>1 DEF Beyond
<1>4. QED
  BY <1>1, <1>2, <1>3, CableType DEF TypeInv, TypeOK, ReaderTypes, WordTypes, EntryTypes, SemTypes,
     LineTypes

------------------------------------------------------------------------------
(* What the steps of a reader are.                                          *)

Goes(t, from, to) == rpc[t] = from /\ rpc'[t] = to

\* A step that takes the reader on without another rate.
Walks(t) ==
  \/ Goes(t, "park", "waitMon") \/ Goes(t, "waitMon", "open")
  \/ Goes(t, "rate", "init") \/ Goes(t, "rate", "check")
  \/ Goes(t, "check", "grant") \/ Goes(t, "check", "mark") \/ Goes(t, "mark", "lock")
  \/ Goes(t, "lock", "restore") \/ Goes(t, "restore", "frame") \/ Goes(t, "frame", "poll")
  \/ Goes(t, "poll", "receive") \/ Goes(t, "receive", "frame")
  \/ Goes(t, "complete", "postMon")
Quits(t) ==
  \/ Goes(t, "open", "postMon") \/ Goes(t, "poll", "postMon")
  \/ Goes(t, "rate", "complete") \/ Goes(t, "receive", "complete")

Kind(t) ==
  \/ Walks(t) /\ lbrp'[t] = lbrp[t] /\ mp'[t] = mp[t]
  \/ Quits(t) /\ lbrp'[t] = lbrp[t] /\ mp'[t] = mp[t]
  \/ InitAlone(t) /\ Goes(t, "init", "frame") /\ lbrp'[t] = lbrp[t] /\ mp'[t] = mp[t]
  \/ Grant(t) /\ Goes(t, "grant", "frame") /\ lbrp'[t] = lbrp[t] /\ mp'[t] = mp[t]
  \/ Goes(t, "open", "rate") /\ lbrp'[t] = 1 /\ mp'[t] = mp[t]
  \/ /\ Goes(t, "rate", "rate") /\ lbrp[t] \notin RatesRun[t] /\ lbrp[t] <= NRates
     /\ lbrp'[t] = lbrp[t] + 1 /\ mp'[t] = mp[t]
  \/ /\ Goes(t, "receive", "rate") /\ mp'[t] = mp[t]
     /\ lbrp[t] <= NRates => lbrp'[t] = lbrp[t] + 1
  \/ Goes(t, "postMon", "park") /\ lbrp'[t] = lbrp[t] /\ mp'[t] = mp[t] + 1

\* What a step of one reader leaves alone.
Apart(t) ==
  /\ UNCHANGED <<mpc, mt>>
  /\ \A u \in Test \ {t} :
       rpc'[u] = rpc[u] /\ lbrp'[u] = lbrp[u] /\ mp'[u] = mp[u]

LEMMA ReceiveKind ==
  ASSUME TypeInv, NEW t \in Test, Receive(t)
  PROVE  Kind(t) /\ Apart(t)
<1> USE RateTypes
<1>1. PICK ok : AfterFrame(t, ok)
  BY DEF Receive, RxTypeZero, RxTypeOne, RxTypeTwo, RxTypeThree, Verdict
<1>2. rpc[t] = "receive" /\ mp' = mp /\ UNCHANGED <<mpc, mt>>
  BY DEF Receive, sems, monitor
<1>3. CASE UNCHANGED lbrp
  <2>1. rpc' = [rpc EXCEPT ![t] = "complete"] \/ rpc' = [rpc EXCEPT ![t] = "frame"]
        \/ (NextRate(t) /\ rpc' = [rpc EXCEPT ![t] = "rate"])
    BY <1>1 DEF AfterFrame, GoTo
  <2>2. NextRate(t) => ~(lbrp[t] <= NRates)
    BY <1>3 DEF NextRate, Beyond
  <2>3. QED
    BY <1>2, <1>3, <2>1, <2>2 DEF Kind, Walks, Quits, Goes, Apart
<1>4. CASE NextRate(t) /\ rpc' = [rpc EXCEPT ![t] = "rate"]
  <2>1. lbrp' = [lbrp EXCEPT ![t] = IF @ <= Beyond THEN @ + 1 ELSE @]
    BY <1>4 DEF NextRate
  <2>2. lbrp[t] <= NRates => lbrp'[t] = lbrp[t] + 1
    BY <2>1 DEF Beyond
  <2>3. QED
    BY <1>2, <1>4, <2>1, <2>2 DEF Kind, Goes, Apart
<1>5. QED
  BY <1>1, <1>3, <1>4 DEF AfterFrame, GoTo

LEMMA ReaderKind ==
  ASSUME TypeInv, NEW t \in Test, ReaderStep(t)
  PROVE  Kind(t) /\ Apart(t)
<1> USE RateTypes
<1>1. CASE Park(t) \/ Begin(t) \/ Frame(t) \/ StartFrame(t) \/ Complete(t)
  BY <1>1 DEF Park, Begin, Frame, StartFrame, Complete, GoTo, sems, entry, monitor,
     Kind, Walks, Goes, Apart
<1>2. CASE Open(t)
  <2>1. \/ rpc' = [rpc EXCEPT ![t] = "rate"] /\ lbrp' = [lbrp EXCEPT ![t] = 1]
        \/ rpc' = [rpc EXCEPT ![t] = "postMon"] /\ lbrp' = lbrp
    BY <1>2 DEF Open, GoTo
  <2>2. rpc[t] = "open" /\ mp' = mp /\ UNCHANGED <<mpc, mt>>
    BY <1>2 DEF Open, sems, monitor
  <2>3. QED
    BY <2>1, <2>2 DEF Kind, Quits, Goes, Apart
<1>3. CASE Rate(t)
  <2>1. rpc[t] = "rate" /\ mp' = mp /\ UNCHANGED <<mpc, mt>>
    BY <1>3 DEF Rate, sems, monitor
  <2>2. CASE \/ rpc' = [rpc EXCEPT ![t] = "complete"] /\ lbrp' = lbrp
             \/ rpc' = [rpc EXCEPT ![t] = "init"] /\ lbrp' = lbrp
             \/ rpc' = [rpc EXCEPT ![t] = "check"] /\ lbrp' = lbrp
    BY <2>1, <2>2 DEF Kind, Walks, Quits, Goes, Apart
  <2>3. CASE lbrp[t] <= NRates /\ lbrp[t] \notin RatesRun[t] /\ NextRate(t) /\ rpc' = rpc
    <3>1. lbrp' = [lbrp EXCEPT ![t] = IF @ <= Beyond THEN @ + 1 ELSE @]
      BY <2>3 DEF NextRate
    <3>2. lbrp'[t] = lbrp[t] + 1
      BY <2>3, <3>1 DEF Beyond
    <3>3. QED
      BY <2>1, <2>3, <3>1, <3>2 DEF Kind, Goes, Apart
  <2>4. QED
    BY <1>3, <2>2, <2>3 DEF Rate, GoTo
<1>4. CASE InitAlone(t)
  <2>1. rpc[t] = "init" /\ rpc' = [rpc EXCEPT ![t] = "frame"] /\ mp' = mp /\ lbrp' = lbrp
        /\ UNCHANGED <<mpc, mt>>
    BY <1>4 DEF InitAlone, GoTo, sems, entry, monitor
  <2>2. QED
    BY <1>4, <2>1 DEF Kind, Goes, Apart
<1>5. CASE Check(t)
  <2>1. rpc[t] = "check" /\ mp' = mp /\ lbrp' = lbrp /\ UNCHANGED <<mpc, mt>>
    BY <1>5 DEF Check, sems, entry, monitor
  <2>2. rpc' = [rpc EXCEPT ![t] = "grant"] \/ rpc' = [rpc EXCEPT ![t] = "mark"]
    BY <1>5 DEF Check, GoTo
  <2>3. QED
    BY <2>1, <2>2 DEF Kind, Walks, Goes, Apart
<1>6. CASE Grant(t)
  <2>1. rpc[t] = "grant" /\ rpc' = [rpc EXCEPT ![t] = "frame"] /\ mp' = mp /\ lbrp' = lbrp
        /\ UNCHANGED <<mpc, mt>>
    BY <1>6 DEF Grant, GoTo, entry, monitor
  <2>2. QED
    BY <1>6, <2>1 DEF Kind, Goes, Apart
<1>7. CASE Mark(t) \/ Lock(t) \/ Restore(t)
  BY <1>7 DEF Mark, Lock, Restore, GoTo, sems, entry, monitor, Kind, Walks, Goes, Apart
<1>8. CASE TxTimeout(t)
  BY <1>8 DEF TxTimeout, GoTo, sems, entry, monitor, Kind, Quits, Goes, Apart
<1>9. CASE PostMon(t)
  BY <1>9 DEF PostMon, Post, GoTo, entry, monitor, Kind, Goes, Apart
<1>10. CASE Receive(t)
  BY <1>10, ReceiveKind
<1>11. QED
  BY <1>1, <1>2, <1>3, <1>4, <1>5, <1>6, <1>7, <1>8, <1>9, <1>10 DEF ReaderStep

\* Where the step of a reader can start and end.
LEMMA ReaderPlaces ==
  ASSUME TypeInv, NEW t \in Test, ReaderStep(t)
  PROVE  /\ rpc[t] = "lock" => Lock(t)
         /\ rpc[t] = "restore" => Restore(t)
         /\ rpc[t] = "grant" => Grant(t)
         /\ rpc'[t] = "grant" => Check(t)
         /\ rpc'[t] = "lock" => Mark(t)
         /\ rpc'[t] = "restore" => Lock(t)
<1>1. Kind(t)
  BY ReaderKind
<1>2. /\ rpc[t] = "lock" => Lock(t)
      /\ rpc[t] = "restore" => Restore(t)
      /\ rpc[t] = "grant" => Grant(t)
      /\ rpc[t] = "check" => Check(t)
      /\ rpc[t] = "mark" => Mark(t)
  BY DEF ReaderStep, Park, Begin, Open, Rate, InitAlone, Check, Grant, Mark, Lock, Restore,
         Frame, StartFrame, TxTimeout, Receive, Complete, PostMon
<1>3. /\ rpc'[t] = "grant" => rpc[t] = "check"
      /\ rpc'[t] = "lock" => rpc[t] = "mark"
      /\ rpc'[t] = "restore" => rpc[t] = "lock"
  BY <1>1 DEF Kind, Walks, Quits, Goes
<1>4. QED
  BY <1>2, <1>3

\* Which steps touch the lock, the rate of the ports and the word.
LEMMA ReaderTouches ==
  ASSUME TypeInv, NEW t \in Test, ReaderStep(t)
  PROVE  /\ Grant(t) \/ Lock(t) \/ spLock' = spLock
         /\ Grant(t) \/ InitAlone(t) \/ portRate' = portRate
         /\ Mark(t) \/ spTmp' = spTmp
         /\ \/ Mark(t) \/ Restore(t)
            \/ spSt_r'[t] \in {spSt_r[t], "waitingForMon", "receiving", "receiveComplete"}
<1> USE RateTypes
<1>1. CASE Park(t) \/ Begin(t) \/ Open(t) \/ Rate(t) \/ InitAlone(t)
  BY <1>1 DEF Park, Begin, Open, Rate, InitAlone, sems, words, line
<1>2. CASE Check(t) \/ Grant(t) \/ Mark(t) \/ Lock(t) \/ Restore(t)
  BY <1>2 DEF Check, Grant, Mark, Lock, Restore, sems, words, line
<1>3. CASE Frame(t) \/ StartFrame(t) \/ TxTimeout(t) \/ Complete(t) \/ PostMon(t)
  BY <1>3 DEF Frame, StartFrame, TxTimeout, Complete, PostMon, sems, words, line
<1>4. CASE Receive(t)
  BY <1>4 DEF Receive, RxTypeZero, RxTypeOne, RxTypeTwo, RxTypeThree, sems, words, line
<1>5. QED
  BY <1>1, <1>2, <1>3, <1>4 DEF ReaderStep

------------------------------------------------------------------------------
(* The lock: a post of it is for a reader that waits.                       *)

LEMMA WordReader ==
  ASSUME TypeInv, WordInv, NEW x \in Test, ReaderStep(x)
  PROVE  WordInv'
<1> USE RateTypes, ReaderPlaces, ReaderTouches
<1>1. \A u \in Test \ {x} : rpc'[u] = rpc[u] /\ spSt_r'[u] = spSt_r[u]
  BY ReaderMoves
<1>2. CASE Mark(x)
  <2>1. /\ rpc[x] = "mark" /\ rpc'[x] = "lock"
        /\ spTmp'[x] = spSt_r[x] /\ spSt_r'[x] = "waitingForConcurrent"
        /\ \A u \in Test \ {x} : spTmp'[u] = spTmp[u]
    BY <1>2 DEF Mark, GoTo
  <2>2. QED
    BY <1>1, <2>1 DEF WordInv
<1>3. CASE Restore(x)
  <2>1. rpc[x] = "restore" /\ rpc'[x] = "frame" /\ spSt_r'[x] = spTmp[x] /\ spTmp' = spTmp
    BY <1>3 DEF Restore, GoTo
  <2>2. QED
    BY <1>1, <2>1 DEF WordInv
<1>4. CASE Lock(x)
  <2>1. rpc[x] = "lock" /\ rpc'[x] = "restore" /\ spSt_r' = spSt_r /\ spTmp' = spTmp
    BY <1>4 DEF Lock, GoTo, words
  <2>2. QED
    BY <1>1, <2>1 DEF WordInv
<1>5. CASE ~Mark(x) /\ ~Restore(x) /\ ~Lock(x)
  <2>1. rpc[x] \notin {"lock", "restore"} /\ rpc'[x] \notin {"lock", "restore"} /\ spTmp' = spTmp
    BY <1>5
  <2>2. spSt_r[x] # "waitingForConcurrent"
    BY <2>1 DEF WordInv
  <2>3. spSt_r'[x] # "waitingForConcurrent"
    BY <1>5, <2>2
  <2>4. QED
    BY <1>1, <2>1, <2>3 DEF WordInv
<1>6. QED
  BY <1>2, <1>3, <1>4, <1>5

\* What a step makes of the lock of a cable.
LEMMA LockPosts ==
  ASSUME TypeInv, NEW x \in Test, ReaderStep(x), NEW t \in Test
  PROVE  /\ Grant(x) /\ Cable(x) = Cable(t) => spLock'[Cable(t)] = spLock[Cable(t)] + 1
         /\ Lock(x) /\ Cable(x) = Cable(t) =>
              spLock[Cable(t)] > 0 /\ spLock'[Cable(t)] = spLock[Cable(t)] - 1
         /\ (~Grant(x) /\ ~Lock(x)) \/ Cable(x) # Cable(t) => spLock'[Cable(t)] = spLock[Cable(t)]
<1> USE RateTypes
<1>1. CASE Grant(x)
  <2>1. spLock' = [spLock EXCEPT ![Cable(x)] = @ + 1] /\ rpc[x] = "grant"
    BY <1>1 DEF Grant, Post
  <2>2. ~Lock(x)
    BY <2>1 DEF Lock
  <2>3. QED
    BY <1>1, <2>1, <2>2
<1>2. CASE Lock(x)
  <2>1. spLock[Cable(x)] > 0 /\ spLock' = [spLock EXCEPT ![Cable(x)] = @ - 1] /\ rpc[x] = "lock"
    BY <1>2 DEF Lock, Wait
  <2>2. ~Grant(x)
    BY <2>1 DEF Grant
  <2>3. QED
    BY <1>2, <2>1, <2>2
<1>3. CASE ~Grant(x) /\ ~Lock(x)
  BY <1>3, ReaderTouches
<1>4. QED
  BY <1>1, <1>2, <1>3

LEMMA LockReader ==
  ASSUME TypeInv, LockedInv, GrantFindsSleeper, NEW x \in Test, ReaderStep(x)
  PROVE  LockInv'
<1> USE RateTypes
<1>1. \A u \in Test \ {x} : rpc'[u] = rpc[u]
  BY ReaderMoves
<1>2. SUFFICES ASSUME NEW t \in Test, spLock'[Cable(t)] > 0
               PROVE  /\ spLock'[Cable(t)] = 1
                      /\ \E u \in Test : Cable(u) = Cable(t) /\ rpc'[u] = "lock"
  BY DEF LockInv
<1>3. spLock[Cable(t)] > 0 =>
        spLock[Cable(t)] = 1 /\ \E u \in Test : Cable(u) = Cable(t) /\ rpc[u] = "lock"
  BY DEF LockedInv, LockInv
<1>4. CASE Grant(x) /\ Cable(x) = Cable(t)
  <2>1. rpc[x] = "grant"
    BY <1>4 DEF Grant
  <2>2. PICK c \in Concurrent(x) : rpc[c] = "lock" /\ spLock[Cable(x)] = 0
    BY <2>1 DEF LockedInv, GrantsInPair, GrantFindsSleeper
  <2>3. c \in Test \ {x} /\ Cable(c) = Cable(x)
    BY OnePartner, SharedCable
  <2>4. rpc'[c] = "lock" /\ spLock'[Cable(t)] = 1
    BY <1>1, <1>4, <2>2, <2>3, LockPosts
  <2>5. QED
    BY <1>4, <2>3, <2>4
<1>5. CASE Lock(x) /\ Cable(x) = Cable(t)
  BY <1>2, <1>3, <1>5, LockPosts
<1>6. CASE (~Grant(x) /\ ~Lock(x)) \/ Cable(x) # Cable(t)
  <2>1. spLock'[Cable(t)] = spLock[Cable(t)]
    BY <1>6, LockPosts
  <2>2. PICK u \in Test : Cable(u) = Cable(t) /\ rpc[u] = "lock"
    BY <1>2, <1>3, <2>1
  <2>3. u # x
    BY <1>6, <2>2, ReaderPlaces
  <2>4. QED
    BY <1>1, <1>2, <1>3, <2>1, <2>2, <2>3
<1>7. QED
  BY <1>4, <1>5, <1>6

\* Check has found the word of a partner.
LEMMA GrantReader ==
  ASSUME TypeInv, LockedInv, NEW x \in Test, ReaderStep(x)
  PROVE  GrantsInPair'
<1>1. \A u \in Test \ {x} : rpc'[u] = rpc[u]
  BY ReaderMoves
<1>2. rpc'[x] = "grant" => Concurrent(x) # {}
  BY ReaderPlaces DEF Check
<1>3. QED
  BY <1>1, <1>2 DEF LockedInv, GrantsInPair, Concurrent

\* A reader that checks while the other one sleeps or has been posted to sees its word.
LEMMA WokenReader ==
  ASSUME TypeInv, LockedInv, NEW x \in Test, ReaderStep(x)
  PROVE  WokenAlone'
<1> USE RateTypes
<1>1. \A u \in Test \ {x} : rpc'[u] = rpc[u]
  BY ReaderMoves
<1>2. SUFFICES ASSUME NEW t \in Test, NEW c \in Concurrent(t), rpc'[t] = "lock", spLock'[Cable(t)] > 0
               PROVE  rpc'[c] \notin {"mark", "lock"}
  BY DEF WokenAlone, Woken, Concurrent, Cable
<1>3. c \in Test /\ c # t /\ Cable(c) = Cable(t) /\ t \in Concurrent(c) /\ Concurrent(t) = {c}
  BY OnePartner, SharedCable
<1>4. CASE x = t
  <2>1. Mark(x) /\ rpc[x] = "mark"
    BY <1>2, <1>4, ReaderPlaces DEF Mark
  <2>2. spLock[Cable(t)] > 0
    BY <1>2, <2>1, LockPosts DEF Grant, Lock
  <2>3. PICK u \in Test : Cable(u) = Cable(t) /\ rpc[u] = "lock"
    BY <2>2 DEF LockedInv, LockInv
  <2>4. x \in Concurrent(u) /\ Woken(u)
    BY <1>4, <2>1, <2>2, <2>3, SharedCable, OnePartner DEF Woken
  <2>5. QED
    BY <2>1, <2>3, <2>4 DEF LockedInv, WokenAlone
<1>5. CASE x = c
  <2>1. rpc[t] = "lock" /\ spSt_r[t] = "waitingForConcurrent"
    BY <1>1, <1>2, <1>3, <1>5 DEF LockedInv, WordInv
  <2>2. rpc'[c] # "mark"
    <3>1. SUFFICES ASSUME Check(c) PROVE rpc'[c] = "grant"
      BY <1>3, <1>5, ReaderMoves
    <3>2. \E d \in Concurrent(c) :
            rpc' = [rpc EXCEPT ![c] = IF spSt_r[d] = "waitingForConcurrent" THEN "grant" ELSE "mark"]
      BY <3>1 DEF Check, GoTo
    <3>3. QED
      BY <1>3, <2>1, <3>2, OnePartner
  <2>3. rpc'[c] # "lock"
    <3>1. SUFFICES ASSUME Mark(c) PROVE FALSE
      BY <1>3, <1>5, ReaderPlaces
    <3>2. rpc[c] = "mark" /\ spLock[Cable(t)] > 0
      BY <1>2, <1>5, <3>1, LockPosts DEF Mark, Grant, Lock
    <3>3. QED
      BY <2>1, <3>2 DEF LockedInv, WokenAlone, Woken
  <2>4. QED
    BY <2>2, <2>3
<1>6. CASE x # t /\ x # c
  <2>1. Cable(x) # Cable(t)
    BY <1>3, <1>6, SharedCable
  <2>2. rpc[t] = "lock" /\ rpc'[c] = rpc[c] /\ spLock[Cable(t)] > 0
    BY <1>1, <1>2, <1>3, <1>6, <2>1, LockPosts
  <2>3. QED
    BY <2>2 DEF LockedInv, WokenAlone, Woken
<1>7. QED
  BY <1>4, <1>5, <1>6

------------------------------------------------------------------------------
(* What the other threads do, as long as nobody is being cancelled.         *)

\* Nobody is at work: all readers are between two sweeps.
Resting == \A t \in Test : ~Busy(t)

\* Where the readers are does not change, or all of them rest.
LEMMA OthersKeep ==
  ASSUME TypeInv, BarrierInv, WholeWaits, WholeWaits', ~Stopping',
         Monitor \/ (Interrupt /\ UNCHANGED options) \/ (\E t \in Test : Writer(t)) \/ UNCHANGED vars
  PROVE  /\ ~Stopping
         /\ UNCHANGED <<rpc, spTmp, spSt_r, spLock, lbrp, portRate>>
         /\ Resting \/ \A t \in Test : Through(t)' = Through(t)
<1>1. CASE UNCHANGED vars
  BY <1>1 DEF vars, sems, words, readers, entry, line, monitor, Stopping, Through
<1>2. CASE \E t \in Test : Writer(t)
  <2>2. UNCHANGED <<rpc, spTmp, spSt_r, spLock, lbrp, portRate, mp, mpc, mt>>
    BY <1>2 DEF Writer, WriterStep, Ready, TakeFrame, Transmit, Write, Count, sems, words, readers,
         entry, line, monitor
  <2>3. QED
    BY <2>2 DEF Stopping, Through
<1>3. CASE Interrupt /\ UNCHANGED options
  <2>1. UNCHANGED <<mpc, mt, iter, spd>>
    <3>1. signals \in 0..MaxSignals
      BY DEF TypeInv, TypeOK, MonitorTypes
    <3>2. signals' # 0
      <4>1. signals' = signals + 1
        BY <1>3 DEF Interrupt
      <4>2. QED
        BY <3>1, <4>1, EnvironmentAssumption
    <3>3. monitorLoop = "waitAndScroll"
      BY <1>3, <3>2 DEF WholeWaits, options
    <3>4. QED
      BY <1>3, <3>3 DEF Interrupt
  <2>2. UNCHANGED <<rpc, spTmp, spSt_r, spLock, lbrp, portRate, mp, mpc, mt>>
    BY <1>3, <2>1 DEF Interrupt, AllRead, sems, words, readers, entry, line
  <2>3. QED
    BY <2>2 DEF Stopping, Through
<1>4. CASE Monitor
  <2>1. PostReader \/ WaitTest
    BY <1>4 DEF Monitor, MonitorStep, TimedOut, Free, JoinWriter, JoinReader, WholeWaits, Stopping
  <2>2. UNCHANGED <<rpc, spTmp, spSt_r, spLock, lbrp, portRate>>
    BY <2>1 DEF PostReader, WaitTest, words, readers, entry, line
  <2>3. NTests \in Nat /\ mt \in 1..NTests /\ Test = 1..NTests
    BY TestsAssumption DEF TypeInv, TypeOK, MonitorTypes, Test
  <2>4. CASE PostReader
    <3>1. mpc = "post" /\ mp' = mp /\ (mpc' = "post" \/ (mpc' = "wait" /\ mt' = 1))
      BY <2>4 DEF PostReader, Last
    <3>2. \A t \in Test : Through(t)' = Through(t)
      BY <2>2, <2>3, <3>1 DEF Through
    <3>3. QED
      BY <2>2, <3>1, <3>2 DEF Stopping
  <2>5. CASE WaitTest
    <3>1. mpc = "wait" /\ mp[mt] > 0 /\ mp' = [mp EXCEPT ![mt] = @ - 1] /\ mp \in [Test -> Nat]
      BY <2>5 DEF WaitTest, Wait, TypeInv, TypeOK, SemTypes
    <3>2. CASE ~Last
      <4>1. mt' = mt + 1 /\ mpc' = mpc
        BY <2>5, <3>2 DEF WaitTest, NextWait
      <4>2. \A t \in Test : Through(t)' = Through(t)
        BY <2>2, <2>3, <3>1, <4>1 DEF Through
      <4>3. QED
        BY <2>2, <3>1, <4>2 DEF Stopping
    <3>3. CASE Last
      <4>1. \A t \in Test : t # mt => Owed(t) = 0
        BY <2>3, <3>1, <3>3 DEF Owed, Last
      <4>2. Resting
        BY <2>3, <3>1, <4>1, PhaseOfPosts DEF Resting
      <4>3. QED
        BY <2>2, <3>1, <4>2 DEF Stopping
    <3>4. QED
      BY <3>2, <3>3
  <2>6. QED
    BY <2>1, <2>4, <2>5
<1>5. QED
  BY <1>1, <1>2, <1>3, <1>4

LEMMA RestingPlaces ==
  ASSUME TypeInv, Resting, NEW t \in Test
  PROVE  rpc[t] \in {"park", "waitMon", "cancelled"} /\ ~After(t) /\ ~Before(t)
BY RateTypes DEF Resting, Busy, After, Before, Asleep, Woken

LEMMA LockedReader ==
  ASSUME TypeInv, LockedInv, GrantFindsSleeper, NEW x \in Test, ReaderStep(x)
  PROVE  LockedInv'
BY WordReader, LockReader, GrantReader, WokenReader DEF LockedInv

LEMMA LockedInit == Init => LockedInv
<1> SUFFICES ASSUME Init PROVE LockedInv
  OBVIOUS
<1>1. \A t \in Test : rpc[t] = "park" /\ spSt_r[t] = "scheduled" /\ spTmp[t] = "scheduled"
  BY DEF Init
<1>2. \A t \in Test : spLock[Cable(t)] = 0
  BY CableType DEF Init
<1>3. QED
  BY <1>1, <1>2 DEF LockedInv, WordInv, LockInv, GrantsInPair, WokenAlone, Woken

------------------------------------------------------------------------------
(* The rates.  A reader goes through the rates of its table and meets its   *)
(* partner at those that are run; Moved is what one step can make of where  *)
(* it is (w) and of its rate (l).                                           *)

Moved(w, l, w2, l2, R) ==
  \/ w2 = w /\ l2 = l
  \/ w2 = "through"
  \/ w = "out" /\ w2 = "before" /\ l2 = 1
  \/ w = "before" /\ w2 = "before" /\ l \notin R /\ l2 = l + 1
  \/ w = "after" /\ w2 = "before" /\ l2 = l + 1

LEMMA PairMoves ==
  ASSUME NEW R \in SUBSET (Nat \ {0}), NEW w, NEW l \in Int, NEW w2, NEW l2 \in Int, NEW v, NEW k \in Int,
         PairOf(w, l, v, k, R), PairOf(v, k, w, l, R), Moved(w, l, w2, l2, R)
  PROVE  PairOf(w2, l2, v, k, R) /\ PairOf(v, k, w2, l2, R)
<1>1. CASE w2 = w /\ l2 = l
  BY <1>1
<1>2. CASE w2 = "through"
  BY <1>2 DEF PairOf
<1>3. CASE w = "out" /\ w2 = "before" /\ l2 = 1
  <2>1. v # "after" /\ (v = "before" => \A r \in R : k <= r)
    BY <1>3 DEF PairOf
  <2>2. QED
    BY <1>3, <2>1 DEF PairOf
<1>4. CASE w = "before" /\ w2 = "before" /\ l \notin R /\ l2 = l + 1
  <2>1. CASE v = "before"
    <3>1. \A r \in R : ~(l <= r /\ r < k) /\ ~(k <= r /\ r < l)
      BY <1>4, <2>1 DEF PairOf
    <3>2. \A r \in R : r \in Int /\ r # l
      BY <1>4
    <3>3. \A r \in R : ~(l2 <= r /\ r < k) /\ ~(k <= r /\ r < l2)
      BY <1>4, <3>1, <3>2
    <3>4. QED
      BY <1>4, <2>1, <3>3 DEF PairOf
  <2>2. CASE v = "after"
    <3>1. k < l /\ \A r \in R : ~(k < r /\ r < l)
      BY <1>4, <2>2 DEF PairOf
    <3>2. \A r \in R : r \in Int /\ r # l
      BY <1>4
    <3>3. k < l2 /\ \A r \in R : ~(k < r /\ r < l2)
      BY <1>4, <3>1, <3>2
    <3>4. QED
      BY <1>4, <2>2, <3>3 DEF PairOf
  <2>3. CASE v = "out"
    <3>1. \A r \in R : l <= r
      BY <1>4, <2>3 DEF PairOf
    <3>2. \A r \in R : r \in Int /\ r # l
      BY <1>4
    <3>3. \A r \in R : l2 <= r
      BY <1>4, <3>1, <3>2
    <3>4. QED
      BY <1>4, <2>3, <3>3 DEF PairOf
  <2>4. CASE v \notin {"before", "after", "out"}
    BY <1>4, <2>4 DEF PairOf
  <2>5. QED
    BY <2>1, <2>2, <2>3, <2>4
<1>5. CASE w = "after" /\ w2 = "before" /\ l2 = l + 1
  <2>1. v # "out"
    BY <1>5 DEF PairOf
  <2>2. CASE v = "before"
    <3>1. l < k /\ \A r \in R : ~(l < r /\ r < k)
      BY <1>5, <2>2 DEF PairOf
    <3>2. \A r \in R : r \in Int
      OBVIOUS
    <3>3. \A r \in R : ~(l2 <= r /\ r < k) /\ ~(k <= r /\ r < l2)
      BY <1>5, <3>1, <3>2
    <3>4. QED
      BY <1>5, <2>2, <3>3 DEF PairOf
  <2>3. CASE v = "after"
    <3>1. l = k
      BY <1>5, <2>3 DEF PairOf
    <3>2. \A r \in R : r \in Int
      OBVIOUS
    <3>3. k < l2 /\ \A r \in R : ~(k < r /\ r < l2)
      BY <1>5, <3>1, <3>2
    <3>4. QED
      BY <1>5, <2>3, <3>3 DEF PairOf
  <2>4. QED
    BY <1>5, <2>1, <2>2, <2>3 DEF PairOf
<1>6. QED
  BY <1>1, <1>2, <1>3, <1>4, <1>5 DEF Moved

\* A step of a reader other than Grant leaves the others where they are.
LEMMA OthersStay ==
  ASSUME TypeInv, LockedInv, NEW x \in Test, ReaderStep(x), NEW u \in Test \ {x},
         ~Grant(x) \/ u \notin Concurrent(x)
  PROVE  Where(u)' = Where(u) /\ lbrp'[u] = lbrp[u] /\ rpc'[u] = rpc[u]
<1>1. rpc'[u] = rpc[u] /\ lbrp'[u] = lbrp[u] /\ mp'[u] = mp[u] /\ UNCHANGED <<mpc, mt>>
  BY ReaderKind DEF Apart
<1>2. ASSUME rpc[u] = "lock" PROVE spLock'[Cable(u)] = spLock[Cable(u)]
  <2>1. CASE u \in Concurrent(x)
    <3>1. u \in Test /\ x \in Concurrent(u) /\ Cable(u) = Cable(x)
      BY <2>1, OnePartner, SharedCable
    <3>2. ~Lock(x) /\ ~Grant(x)
      <4>1. ASSUME Lock(x) PROVE FALSE
        <5>1. rpc[x] = "lock" /\ spLock[Cable(u)] > 0
          BY <3>1, <4>1, LockPosts DEF Lock
        <5>2. QED
          BY <1>2, <3>1, <5>1 DEF LockedInv, WokenAlone, Woken
      <4>2. QED
        BY <2>1, <4>1
    <3>3. QED
      BY <3>2, LockPosts
  <2>2. CASE u \notin Concurrent(x)
    <3>1. Cable(x) # Cable(u)
      BY <2>2, SharedCable
    <3>2. QED
      BY <3>1, LockPosts
  <2>3. QED
    BY <2>1, <2>2
<1>3. QED
  BY <1>1, <1>2 DEF Where, After, Before, Through, Asleep, Woken, Cable

\* A reader that has work to do is neither through with the sweep nor waited for in vain.
LEMMA AtWorkPlaces ==
  ASSUME TypeInv, BarrierInv, NEW t \in Test, Busy(t) \/ mp_r[t] > 0, WholeWaits
  PROVE  mp[t] = 0 /\ ~(mpc = "wait" /\ t < mt)
<1>1. mp[t] \in Nat /\ mp_r[t] \in Nat /\ OnItsWay(t)
  BY DEF TypeInv, TypeOK, SemTypes, BarrierInv
<1>2. Owed(t) # 0
  BY <1>1 DEF OnItsWay, AtWork
<1>3. ~(mpc = "wait" /\ t < mt)
  <2>1. mt \in Int /\ t \in Int
    BY RateTypes
  <2>2. QED
    BY <1>2, <2>1 DEF Owed
<1>4. QED
  BY <1>3, PhaseOfPosts

\* Who goes to sleep finds nothing posted, and who wakes up has been posted to.
LEMMA SleepPlaces ==
  ASSUME TypeInv, LockedInv, NEW x \in Test, ReaderStep(x)
  PROVE  /\ rpc[x] = "lock" => spLock[Cable(x)] > 0
         /\ rpc'[x] = "lock" => spLock'[Cable(x)] = 0
<1>1. rpc[x] = "lock" => spLock[Cable(x)] > 0
  BY ReaderPlaces, LockPosts
<1>2. ASSUME rpc'[x] = "lock" PROVE spLock'[Cable(x)] = 0
  <2>1. Mark(x) /\ rpc[x] = "mark"
    BY <1>2, ReaderPlaces DEF Mark
  <2>2. spLock'[Cable(x)] = spLock[Cable(x)]
    BY <2>1, LockPosts DEF Grant, Lock
  <2>3. ~(spLock[Cable(x)] > 0)
    <3>1. SUFFICES ASSUME NEW u \in Test, Cable(u) = Cable(x), rpc[u] = "lock", spLock[Cable(x)] > 0
                   PROVE  FALSE
      BY DEF LockedInv, LockInv
    <3>2. x \in Concurrent(u)
      BY <2>1, <3>1, SharedCable
    <3>3. QED
      BY <2>1, <3>1, <3>2 DEF LockedInv, WokenAlone, Woken
  <2>4. spLock[Cable(x)] \in Nat
    BY RateTypes
  <2>5. QED
    BY <2>2, <2>3, <2>4
<1>3. QED
  BY <1>1, <1>2

\* Where a reader is that has work to do.
Places(t) ==
  /\ rpc[t] \in {"restore", "frame", "poll", "receive"} => Where(t) = "after"
  /\ rpc[t] = "lock" /\ spLock[Cable(t)] > 0 => Where(t) = "after"
  /\ rpc[t] = "lock" /\ spLock[Cable(t)] = 0 => Where(t) = "before"
  /\ rpc[t] \in {"rate", "init", "check", "grant", "mark"} => Where(t) = "before"
  /\ rpc[t] \in {"complete", "postMon"} => Where(t) = "through"
  /\ rpc[t] \in {"park", "waitMon"} /\ mp[t] > 0 => Where(t) = "through"
  /\ rpc[t] \in {"park", "waitMon", "open"} /\ mp[t] = 0 /\ ~(mpc = "wait" /\ t < mt) =>
       Where(t) = "out"

LEMMA WherePlaces ==
  ASSUME NEW t \in Test
  PROVE  Places(t) /\ Places(t)'
<1>1. Places(t)
  BY DEF Places, Where, After, Before, Through, Asleep, Woken
<1>2. Places(t)'
  BY DEF Places, Where, After, Before, Through, Asleep, Woken
<1>3. QED
  BY <1>1, <1>2

\* How a step moves a reader other than over the rendezvous.
LEMMA ReaderMoved ==
  ASSUME TypeInv, TypeInv', BarrierInv, WholeWaits, LockedInv, NEW x \in Test, Own(x),
         ReaderStep(x), ~Grant(x), ~InitAlone(x)
  PROVE  Moved(Where(x), lbrp[x], Where(x)', lbrp'[x], RatesRun[x])
<1> USE RateTypes
<1>1. Kind(x) /\ UNCHANGED <<mpc, mt>> /\ UNCHANGED Cable(x)
  BY ReaderKind DEF Apart, Cable
<1>2. CASE Goes(x, "park", "waitMon") /\ lbrp'[x] = lbrp[x] /\ mp'[x] = mp[x]
  BY <1>1, <1>2 DEF Goes, Moved, Where, After, Before, Through, Asleep, Woken
<1>3. CASE rpc[x] # "park"
  <2>1. mp[x] = 0 /\ ~(mpc = "wait" /\ x < mt)
    <3>1. CASE Begin(x)
      BY <3>1, AtWorkPlaces DEF Begin, Wait
    <3>2. CASE ~Begin(x)
      <4>1. Busy(x)
        BY <1>3, <3>2 DEF ReaderStep, Park, Open, Rate, InitAlone, Check, Grant, Mark, Lock, Restore,
           Frame, StartFrame, TxTimeout, Receive, Complete, PostMon, Busy
      <4>2. QED
        BY <4>1, AtWorkPlaces
    <3>3. QED
      BY <3>1, <3>2
  <2>2. ~(mpc = "wait" /\ x < mt)'
    BY <1>1, <2>1
  <2>3. CASE Walks(x) /\ lbrp'[x] = lbrp[x] /\ mp'[x] = mp[x]
    <3>1. Where(x)' = Where(x)
      BY <1>1, <1>3, <2>1, <2>2, <2>3, SleepPlaces, WherePlaces
         DEF Walks, Goes, Places
    <3>2. QED
      BY <2>3, <3>1 DEF Moved
  <2>4. CASE Quits(x) /\ lbrp'[x] = lbrp[x] /\ mp'[x] = mp[x]
    BY <2>4, WherePlaces DEF Quits, Goes, Moved, Places
  <2>5. CASE Goes(x, "open", "rate") /\ lbrp'[x] = 1
    BY <2>1, <2>5, WherePlaces DEF Goes, Moved, Places
  <2>6. CASE Goes(x, "rate", "rate") /\ lbrp[x] \notin RatesRun[x] /\ lbrp'[x] = lbrp[x] + 1
    BY <2>6, WherePlaces DEF Goes, Moved, Places
  <2>7. CASE Goes(x, "receive", "rate") /\ (lbrp[x] <= NRates => lbrp'[x] = lbrp[x] + 1)
    <3>1. Where(x) = "after" /\ Where(x)' = "before"
      BY <2>7, WherePlaces DEF Goes, Places
    <3>2. lbrp[x] \in RatesRun[x]
      BY <3>1 DEF Own
    <3>3. lbrp[x] \in 1..NRates
      BY <3>2
    <3>4. QED
      BY <2>7, <3>1, <3>3 DEF Moved
  <2>8. CASE Goes(x, "postMon", "park") /\ mp'[x] = mp[x] + 1
    <3>1. mp'[x] > 0
      BY <2>1, <2>8
    <3>2. QED
      BY <2>8, <3>1, WherePlaces DEF Goes, Moved, Places
  <2>9. QED
    BY <1>1, <2>3, <2>4, <2>5, <2>6, <2>7, <2>8 DEF Kind
<1>4. QED
  BY <1>1, <1>2, <1>3 DEF Kind, Walks, Quits, Goes

\* What a reader keeps to itself, whichever step it takes.
LEMMA OwnReader ==
  ASSUME TypeInv, BarrierInv, WholeWaits, LockedInv, NEW x \in Test, Own(x), ReaderStep(x)
  PROVE  Own(x)'
<1> USE RateTypes
<1>1. Kind(x) /\ Places(x) /\ Places(x)'
  BY ReaderKind, WherePlaces
<1>2. Concurrent(x)' = Concurrent(x)
  BY DEF Concurrent
<1>3. CASE Rate(x)
  <2>1. rpc[x] = "rate" /\ lbrp[x] \in 1..NRates + 1
    BY <1>1, <1>3 DEF Rate, Own, Places
  <2>2. CASE rpc' = [rpc EXCEPT ![x] = "complete"]
    BY <1>1, <2>2 DEF Own, Places
  <2>3. CASE lbrp[x] <= NRates /\ lbrp[x] \notin RatesRun[x] /\ NextRate(x) /\ UNCHANGED rpc
    <3>1. rpc'[x] = "rate" /\ lbrp'[x] = lbrp[x] + 1
      BY <2>1, <2>3 DEF NextRate, Beyond
    <3>2. QED
      BY <1>1, <2>1, <2>3, <3>1 DEF Own, Places
  <2>4. CASE /\ lbrp[x] \in RatesRun[x] \cup {Beyond} /\ UNCHANGED lbrp
             /\ rpc' = [rpc EXCEPT ![x] = IF Concurrent(x) = {} THEN "init" ELSE "check"]
    <3>1. lbrp'[x] \in RatesRun[x]
      BY <2>1, <2>4 DEF Beyond
    <3>2. rpc'[x] \in {"init", "check"} /\ (rpc'[x] = "init" => Concurrent(x) = {})
      BY <2>4
    <3>3. QED
      BY <1>2, <2>1, <2>4, <3>1, <3>2 DEF Own
  <2>5. QED
    BY <1>3, <2>2, <2>3, <2>4 DEF Rate, GoTo
<1>4. CASE ~Rate(x)
  <2>1. rpc[x] # "rate" /\ rpc'[x] # "init"
    <3>1. rpc[x] # "rate"
      BY <1>4 DEF ReaderStep, Park, Begin, Open, InitAlone, Check, Grant, Mark, Lock, Restore,
         Frame, StartFrame, TxTimeout, Receive, Complete, PostMon
    <3>2. QED
      BY <1>1, <3>1 DEF Kind, Walks, Quits, Goes
  <2>2. CASE InitAlone(x) \/ Grant(x)
    <3>1. /\ rpc[x] \in {"init", "grant"} /\ rpc'[x] = "frame" /\ lbrp'[x] = lbrp[x]
      BY <2>2 DEF InitAlone, Grant, GoTo, entry
    <3>2. QED
      BY <1>1, <3>1 DEF Own, Places
  <2>3. CASE Walks(x) /\ lbrp'[x] = lbrp[x]
    <3>1. CASE rpc[x] \in {"check", "mark", "lock", "restore", "frame", "poll", "receive"}
      <4>1. lbrp[x] \in RatesRun[x]
        BY <1>1, <3>1 DEF Own, Places
      <4>2. lbrp'[x] \in 1..NRates + 1 /\ lbrp'[x] \in RatesRun[x]
        BY <2>3, <4>1
      <4>3. QED
        BY <2>1, <4>2 DEF Own
    <3>2. CASE rpc'[x] \in {"waitMon", "open", "postMon"}
      BY <3>2 DEF Own, Where, After, Before, Asleep, Woken
    <3>3. QED
      BY <2>1, <2>3, <3>1, <3>2 DEF Walks, Goes
  <2>4. CASE Quits(x) \/ Goes(x, "postMon", "park")
    <3>1. rpc'[x] \in {"postMon", "complete", "park"}
      BY <2>4 DEF Quits, Goes
    <3>2. QED
      BY <3>1 DEF Own, Where, After, Before, Asleep, Woken
  <2>5. CASE Goes(x, "open", "rate") /\ lbrp'[x] = 1
    BY <1>1, <2>5 DEF Goes, Own, Places
  <2>6. CASE Goes(x, "receive", "rate") /\ (lbrp[x] <= NRates => lbrp'[x] = lbrp[x] + 1)
    <3>1. lbrp[x] \in RatesRun[x]
      BY <1>1, <2>6 DEF Goes, Own, Places
    <3>2. lbrp'[x] \in 1..NRates + 1
      BY <2>6, <3>1
    <3>3. QED
      BY <1>1, <2>6, <3>2 DEF Goes, Own, Places
  <2>7. QED
    BY <1>1, <2>1, <2>2, <2>3, <2>4, <2>5, <2>6 DEF Kind, Goes
<1>5. QED
  BY <1>3, <1>4

\* Who wakes its partner wakes it at its own rate.
LEMMA GrantWakes ==
  ASSUME TypeInv, LockedInv, GrantFindsSleeper, OwnInv, PairInv, PairsAlike,
         NEW x \in Test, ReaderStep(x), Grant(x), NEW c \in Concurrent(x)
  PROVE  /\ Where(x)' = "after" /\ Where(c)' = "after"
         /\ lbrp'[x] = lbrp[x] /\ lbrp'[c] = lbrp[x] /\ portRate'[Cable(x)] = lbrp[x]
         /\ lbrp[c] = lbrp[x] /\ rpc'[c] = "lock" /\ Own(c)'
<1> USE RateTypes
<1>1. c \in Test \ {x} /\ x \in Concurrent(c) /\ Cable(c) = Cable(x)
  BY OnePartner, SharedCable
<1>2. rpc[x] = "grant" /\ rpc'[x] = "frame"
  BY DEF Grant, GoTo
<1>3. rpc[c] = "lock" /\ spLock[Cable(c)] = 0
  BY <1>1, <1>2 DEF GrantFindsSleeper
<1>4. Where(x) = "before" /\ Where(c) = "before"
  BY <1>1, <1>2, <1>3, WherePlaces DEF Places
<1>5. lbrp' = lbrp /\ portRate' = [portRate EXCEPT ![Cable(x)] = lbrp[x]]
  BY DEF Grant, InitPorts, entry
<1>6. lbrp[x] \in RatesRun[x] /\ lbrp[c] \in RatesRun[x]
  BY <1>1, <1>2, <1>3 DEF OwnInv, Own, PairsAlike
<1>7. lbrp[x] = lbrp[c]
  <2>1. /\ \A r \in RatesRun[x] : ~(lbrp[x] <= r /\ r < lbrp[c])
        /\ \A r \in RatesRun[x] : ~(lbrp[c] <= r /\ r < lbrp[x])
    BY <1>1, <1>4 DEF PairInv, Pair, PairOf, PairsAlike
  <2>2. lbrp[x] \in Int /\ lbrp[c] \in Int
    BY <1>1
  <2>3. QED
    BY <1>6, <2>1, <2>2
<1>8. rpc'[c] = "lock" /\ Cable(c)' = Cable(c)
  BY <1>1, <1>3, ReaderMoves DEF Cable
<1>9. spLock'[Cable(c)] > 0
  BY <1>1, <1>3, LockPosts
<1>10. Where(x)' = "after" /\ Where(c)' = "after"
  BY <1>1, <1>2, <1>8, <1>9, WherePlaces DEF Places
<1>11. Own(c)'
  <2>1. lbrp'[c] \in RatesRun[c] /\ lbrp'[c] \in 1..NRates + 1
    BY <1>1, <1>5, <1>6, <1>7 DEF PairsAlike
  <2>2. QED
    BY <1>8, <2>1 DEF Own
<1>12. QED
  BY <1>1, <1>5, <1>7, <1>8, <1>10, <1>11

\* What a pair makes of a step of one of its readers.
LEMMA PairReader ==
  ASSUME TypeInv, TypeInv', BarrierInv, WholeWaits, LockedInv, GrantFindsSleeper, OwnInv, PairInv,
         PairsAlike, NEW x \in Test, ReaderStep(x), NEW c \in Concurrent(x)
  PROVE  Pair(x, c)' /\ Pair(c, x)'
<1> USE RateTypes
<1>1. c \in Test \ {x} /\ x \in Concurrent(c) /\ RatesRun[c] = RatesRun[x]
  BY OnePartner DEF PairsAlike
<1>2. CASE Grant(x)
  BY <1>1, <1>2, GrantWakes DEF Pair, PairOf
<1>3. CASE ~Grant(x)
  <2>1. ~InitAlone(x)
    <3>1. InitAlone(x) => rpc[x] = "init"
      BY DEF InitAlone
    <3>2. QED
      BY <3>1 DEF OwnInv, Own
  <2>2. Own(x)
    BY DEF OwnInv
  <2>3. Moved(Where(x), lbrp[x], Where(x)', lbrp'[x], RatesRun[x])
    BY <1>3, <2>1, <2>2, ReaderMoved
  <2>4. Where(c)' = Where(c) /\ lbrp'[c] = lbrp[c]
    BY <1>1, <1>3, OthersStay
  <2>5. /\ PairOf(Where(x), lbrp[x], Where(c), lbrp[c], RatesRun[x])
        /\ PairOf(Where(c), lbrp[c], Where(x), lbrp[x], RatesRun[x])
    BY <1>1 DEF PairInv, Pair
  <2>6. lbrp'[x] \in Int
    BY DEF TypeInv, TypeOK, EntryTypes, Beyond
  <2>7. lbrp[x] \in Int /\ lbrp[c] \in Int /\ RatesRun[x] \in SUBSET (Nat \ {0})
    BY <1>1
  <2>8. /\ PairOf(Where(x)', lbrp'[x], Where(c), lbrp[c], RatesRun[x])
        /\ PairOf(Where(c), lbrp[c], Where(x)', lbrp'[x], RatesRun[x])
    BY <2>3, <2>5, <2>6, <2>7, PairMoves
  <2>9. QED
    BY <1>1, <2>4, <2>8 DEF Pair, PairOf
<1>4. QED
  BY <1>2, <1>3

LEMMA RateReader ==
  ASSUME TypeInv, TypeInv', BarrierInv, WholeWaits, LockedInv, GrantFindsSleeper, RateInv,
         PairsAlike, NEW x \in Test, ReaderStep(x)
  PROVE  RateInv'
<1> USE RateTypes
<1>1. OwnInv /\ PairInv /\ PortInv
  BY DEF RateInv
<1>2. \A c \in Concurrent(x) : c \in Test \ {x} /\ x \in Concurrent(c)
  BY OnePartner
<1>3. ASSUME NEW u \in Test \ {x}, ~Grant(x) \/ u \notin Concurrent(x)
      PROVE  Where(u)' = Where(u) /\ lbrp'[u] = lbrp[u] /\ rpc'[u] = rpc[u]
  BY <1>3, OthersStay
<1>4. OwnInv'
  <2>1. SUFFICES ASSUME NEW u \in Test PROVE Own(u)'
    BY DEF OwnInv
  <2>2. CASE u = x
    BY <1>1, <2>2, OwnReader DEF OwnInv
  <2>3. CASE Grant(x) /\ u \in Concurrent(x)
    BY <1>1, <2>3, GrantWakes
  <2>4. CASE u # x /\ ~(Grant(x) /\ u \in Concurrent(x))
    BY <1>1, <1>3, <2>4 DEF OwnInv, Own, Concurrent
  <2>5. QED
    BY <2>2, <2>3, <2>4
<1>5. PairInv'
  <2>1. SUFFICES ASSUME NEW t \in Test, NEW c \in Concurrent(t) PROVE Pair(t, c)'
    BY DEF PairInv, Concurrent
  <2>2. c \in Test /\ t \in Concurrent(c)
    BY OnePartner
  <2>3. CASE t = x
    BY <1>1, <2>3, PairReader
  <2>4. CASE c = x
    BY <1>1, <2>2, <2>4, PairReader
  <2>5. CASE t # x /\ c # x
    <3>1. t \notin Concurrent(x) /\ c \notin Concurrent(x)
      BY <2>2, <2>5, OnePartner
    <3>2. /\ Where(t)' = Where(t) /\ lbrp'[t] = lbrp[t]
          /\ Where(c)' = Where(c) /\ lbrp'[c] = lbrp[c]
      BY <1>3, <2>2, <2>5, <3>1
    <3>3. Pair(t, c)
      BY <1>1 DEF PairInv
    <3>4. QED
      BY <3>2, <3>3 DEF Pair, PairOf
  <2>6. QED
    BY <2>3, <2>4, <2>5
<1>6. PortInv'
  <2>1. SUFFICES ASSUME NEW t \in Test, Where(t)' = "after" PROVE portRate'[Cable(t)] = lbrp'[t]
    BY DEF PortInv, Cable
  <2>2. CASE Grant(x)
    <3>1. portRate' = [portRate EXCEPT ![Cable(x)] = lbrp[x]] /\ lbrp' = lbrp
      BY <2>2 DEF Grant, InitPorts, entry
    <3>2. CASE t = x
      BY <3>1, <3>2
    <3>3. CASE t \in Concurrent(x)
      BY <1>1, <2>2, <3>3, GrantWakes, SharedCable
    <3>4. CASE t # x /\ t \notin Concurrent(x)
      <4>1. Cable(t) # Cable(x)
        BY <3>4, SharedCable
      <4>2. QED
        BY <1>1, <1>3, <2>1, <3>1, <3>4, <4>1 DEF PortInv
    <3>5. QED
      BY <3>2, <3>3, <3>4
  <2>3. CASE InitAlone(x)
    <3>1. portRate' = [portRate EXCEPT ![Cable(x)] = lbrp[x]] /\ lbrp' = lbrp /\ rpc[x] = "init"
      BY <2>3 DEF InitAlone, InitPorts, entry
    <3>2. CASE t = x
      BY <3>1, <3>2
    <3>3. CASE t # x
      <4>1. t \notin Concurrent(x)
        BY <1>1, <3>1 DEF OwnInv, Own
      <4>2. Cable(t) # Cable(x)
        BY <3>3, <4>1, SharedCable
      <4>3. QED
        BY <1>1, <1>3, <2>1, <3>1, <3>3, <4>1, <4>2 DEF PortInv
    <3>4. QED
      BY <3>2, <3>3
  <2>4. CASE ~Grant(x) /\ ~InitAlone(x)
    <3>1. portRate' = portRate
      BY <2>4, ReaderTouches
    <3>2. Where(t)' = Where(t) /\ lbrp'[t] = lbrp[t]
      <4>1. CASE t # x
        BY <1>3, <2>4, <4>1
      <4>2. CASE t = x
        <5>1. Own(x)
          BY <1>1 DEF OwnInv
        <5>2. Moved(Where(x), lbrp[x], Where(x)', lbrp'[x], RatesRun[x])
          BY <1>1, <2>4, <5>1, ReaderMoved
        <5>3. QED
          BY <2>1, <4>2, <5>2 DEF Moved
      <4>3. QED
        BY <4>1, <4>2
    <3>3. QED
      BY <1>1, <2>1, <3>1, <3>2 DEF PortInv
  <2>5. QED
    BY <2>2, <2>3, <2>4
<1>7. QED
  BY <1>4, <1>5, <1>6 DEF RateInv

------------------------------------------------------------------------------
(* The theorem.                                                             *)

LEMMA RateStep ==
  ASSUME PairsAlike
  PROVE  TypeInv /\ TypeInv' /\ BarrierInv /\ WholeWaits /\ WholeWaits' /\ GrantFindsSleeper
           /\ (~Stopping => LockedInv /\ RateInv) /\ [Next]_vars => (~Stopping' => LockedInv' /\ RateInv')
<1> SUFFICES ASSUME TypeInv, TypeInv', BarrierInv, WholeWaits, WholeWaits', GrantFindsSleeper,
                    ~Stopping => LockedInv /\ RateInv, [Next]_vars, ~Stopping'
             PROVE  LockedInv' /\ RateInv'
  OBVIOUS
<1>1. CASE \E t \in Test : Reader(t)
  <2>1. PICK t \in Test : ReaderStep(t)
    BY <1>1 DEF Reader
  <2>2. UNCHANGED mpc
    BY <2>1, ReaderKind DEF Apart
  <2>3. LockedInv /\ RateInv
    BY <2>2 DEF Stopping
  <2>4. QED
    BY <2>1, <2>3, LockedReader, RateReader
<1>2. CASE Monitor \/ (Interrupt /\ UNCHANGED options) \/ (\E t \in Test : Writer(t)) \/ UNCHANGED vars
  <2>1. /\ UNCHANGED <<rpc, spTmp, spSt_r, spLock, lbrp, portRate>>
        /\ Resting \/ \A t \in Test : Through(t)' = Through(t)
    BY <1>2, OthersKeep
  <2>2. LockedInv /\ OwnInv /\ PairInv /\ PortInv
    BY <1>2, OthersKeep DEF RateInv
  <2>3. LockedInv'
    BY <2>1, <2>2 DEF LockedInv, WordInv, LockInv, GrantsInPair, WokenAlone, Woken, Cable, Concurrent
  <2>4. CASE \A t \in Test : Through(t)' = Through(t)
    <3>1. \A t \in Test : Where(t)' = Where(t)
      BY <2>1, <2>4 DEF Where, After, Before, Asleep, Woken, Cable
    <3>2. OwnInv'
      BY <2>1, <2>2, <3>1 DEF OwnInv, Own, Concurrent
    <3>3. PairInv'
      <4>1. SUFFICES ASSUME NEW t \in Test, NEW c \in Concurrent(t) PROVE Pair(t, c)'
        BY DEF PairInv, Concurrent
      <4>2. Pair(t, c) /\ c \in Test
        BY <2>2, OnePartner DEF PairInv
      <4>3. QED
        BY <2>1, <3>1, <4>2 DEF Pair, PairOf
    <3>4. PortInv'
      BY <2>1, <2>2, <3>1 DEF PortInv, Cable
    <3>5. QED
      BY <2>3, <3>2, <3>3, <3>4 DEF RateInv
  <2>5. CASE Resting
    <3>1. \A t \in Test : Where(t)' \notin {"after", "before"}
                          /\ rpc'[t] \notin {"init", "check", "grant", "mark", "lock"}
      <4>1. SUFFICES ASSUME NEW t \in Test
                     PROVE  Where(t)' \notin {"after", "before"}
                            /\ rpc'[t] \notin {"init", "check", "grant", "mark", "lock"}
        OBVIOUS
      <4>2. rpc'[t] \in {"park", "waitMon", "cancelled"}
        BY <2>1, <2>5, RestingPlaces
      <4>3. QED
        BY <4>2 DEF Where, After, Before, Asleep, Woken
    <3>2. OwnInv' /\ PortInv'
      BY <3>1 DEF OwnInv, Own, PortInv
    <3>3. PairInv'
      BY <3>1, OnePartner DEF PairInv, Pair, PairOf, Concurrent
    <3>4. QED
      BY <2>3, <3>2, <3>3 DEF RateInv
  <2>6. QED
    BY <2>1, <2>4, <2>5
<1>3. QED
  BY <1>1, <1>2 DEF Next, Terminated

LEMMA RateInit == Init => RateInv
<1> SUFFICES ASSUME Init PROVE RateInv
  OBVIOUS
<1>1. \A t \in Test : rpc[t] = "park"
  BY DEF Init
<1>2. \A t \in Test : Where(t) \notin {"after", "before"}
  BY <1>1 DEF Where, After, Before, Asleep, Woken
<1>3. QED
  BY <1>1, <1>2, OnePartner DEF RateInv, OwnInv, Own, PairInv, Pair, PairOf, PortInv

\* While a reader is at work on frames, the ports of its cable are at the rate it
\* believes it is testing, for every number of tests and table of rates and wherever a
\* reader is preempted, up to the first post of a lock that finds nobody asleep on it, where
\* no wait of the monitor is cut short and the two directions of a cable have the same
\* rates: nothing else lets the two ends get out of step (spExtLpback, cfgConcurrentTest).
THEOREM RateAgreementHolds ==
  ASSUME AlwaysWhole, PairsAlike
  PROVE  Spec /\ []GrantFindsSleeper => []RateAgreement
<1> DEFINE All == ~Stopping => LockedInv /\ RateInv
<1>1. Init => All
  BY LockedInit, RateInit
<1>2. TypeInv /\ TypeInv' /\ BarrierInv /\ WholeWaits /\ WholeWaits' /\ GrantFindsSleeper /\ All
        /\ [Next]_vars => All'
  BY RateStep
<1>3. All => RateAgreement
  BY WherePlaces DEF Places, RateInv, PortInv, RateAgreement
<1>4. TypeInv => WholeWaits
  BY WholeAlways
<1> HIDE DEF All
<1>5. QED
  BY <1>1, <1>2, <1>3, <1>4, TypeInit, TypeStep, BarrierInit, BarrierStep, PTL DEF Spec
===============================================================================
