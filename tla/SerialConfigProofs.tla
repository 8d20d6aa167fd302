-------------------------- MODULE SerialConfigProofs --------------------------
(****************************************************************************)
(* Proofs about the arguments and the schedule of serialFit, for every      *)
(* command line and every configuration file.                               *)
(****************************************************************************)
EXTENDS SerialConfig, SequenceTheorems, WellFoundedInduction, TLAPS

------------------------------------------------------------------------------
(* The table.                                                               *)

AsyncPorts == {"sp1", "sp2", "sp3", "sp8"}
SyncPorts == {"sp1s", "sp2s", "sp3s", "sp5s", "sp8s"}

\* The ports of the table, and the two of an entry: of a cable, both are of one kind.
LEMMA Ports ==
  /\ DOMAIN Async = 1..4 /\ DOMAIN Sync = 1..5
  /\ ToSet(Async) = AsyncPorts /\ ToSet(Sync) = SyncPorts
<1>1. DOMAIN Async = 1..4 /\ DOMAIN Sync = 1..5
  BY DEF Async, Sync
<1>2. ToSet(Async) = {Async[i] : i \in 1..4}
  BY <1>1 DEF ToSet
<1>3. {Async[i] : i \in 1..4} = AsyncPorts
  BY DEF Async, AsyncPorts
<1>4. ToSet(Sync) = {Sync[i] : i \in 1..5}
  BY <1>1 DEF ToSet
<1>5. {Sync[i] : i \in 1..5} = SyncPorts
  BY DEF Sync, SyncPorts
<1>6. QED
  BY <1>1, <1>2, <1>3, <1>4, <1>5

LEMMA EntryShape ==
  ASSUME NEW e \in Entries
  PROVE  /\ e = <<e[1], e[2]>> /\ ToSet(e) = {e[1], e[2]}
         /\ \/ e[1] = e[2]
            \/ e[1] \in AsyncPorts /\ e[2] \in AsyncPorts /\ ~protSync(e)
            \/ e[1] \in SyncPorts /\ e[2] \in SyncPorts /\ protSync(e)
<1>1. AsyncPorts \cap SyncPorts = {}
  BY DEF AsyncPorts, SyncPorts
<1>2. ASSUME e = <<e[1], e[2]>> PROVE ToSet(e) = {e[1], e[2]}
  <2>1. DOMAIN e = 1..2
    BY <1>2
  <2>2. QED
    BY <2>1 DEF ToSet
<1>3. CASE e \in {<<p, p>> : p \in Looped}
  BY <1>2, <1>3
<1>4. CASE e \in Crossed(Async)
  <2>1. PICK i \in DOMAIN Async, j \in DOMAIN Async : e = <<Async[i], Async[j]>>
    BY <1>4 DEF Crossed
  <2>2. e[1] \in AsyncPorts /\ e[2] \in AsyncPorts /\ e = <<e[1], e[2]>>
    BY <2>1, Ports DEF ToSet
  <2>3. QED
    BY <1>1, <1>2, <2>2, Ports DEF protSync
<1>5. CASE e \in Crossed(Sync)
  <2>1. PICK i \in DOMAIN Sync, j \in DOMAIN Sync : e = <<Sync[i], Sync[j]>>
    BY <1>5 DEF Crossed
  <2>2. e[1] \in SyncPorts /\ e[2] \in SyncPorts /\ e = <<e[1], e[2]>>
    BY <2>1, Ports DEF ToSet
  <2>3. QED
    BY <1>2, <2>2, Ports DEF protSync
<1>6. QED
  BY <1>3, <1>4, <1>5 DEF Entries

\* The lock of an entry is that of one of its ports, ...
LEMMA LockOfOwnPort ==
  ASSUME NEW e \in Entries
  PROVE  spLockOf(e) \in ToSet(e)
<1>1. CASE e[1] = e[2]
  BY <1>1, EntryShape DEF spLockOf
<1>2. CASE e[1] # e[2]
  <2> DEFINE ports == IF protSync(e) THEN Sync ELSE Async
             Named == {i \in DOMAIN ports : ports[i] \in ToSet(e)}
             IsFirst(i) == ports[i] \in ToSet(e) /\ \A j \in 1..i - 1 : ports[j] \notin ToSet(e)
  <2>1. e[1] \in ToSet(ports)
    BY <1>2, EntryShape, Ports
  <2>2. PICK k \in DOMAIN ports : ports[k] = e[1]
    BY <2>1 DEF ToSet
  <2>3. DOMAIN ports \subseteq 1..5 /\ \A i \in DOMAIN ports : 1..i \subseteq DOMAIN ports
    BY Ports
  <2>4. ports[k] \in ToSet(e)
    BY <2>2, EntryShape
  <2> HIDE DEF ports
  <2>5. \E i \in DOMAIN ports : IsFirst(i)
    <3>1. 1 \in DOMAIN ports /\ k \in 1..5
      BY <2>3
    <3>2. CASE ports[1] \in ToSet(e)
      BY <2>3, <3>1, <3>2
    <3>3. CASE ports[1] \notin ToSet(e) /\ 2 \in DOMAIN ports /\ ports[2] \in ToSet(e)
      BY <2>3, <3>1, <3>3
    <3>4. CASE /\ ports[1] \notin ToSet(e) /\ ports[2] \notin ToSet(e)
               /\ 3 \in DOMAIN ports /\ ports[3] \in ToSet(e)
      BY <2>3, <3>1, <3>4
    <3>5. CASE /\ ports[1] \notin ToSet(e) /\ ports[2] \notin ToSet(e)
               /\ ports[3] \notin ToSet(e)
               /\ 4 \in DOMAIN ports /\ ports[4] \in ToSet(e)
      BY <2>3, <3>1, <3>5
    <3>6. CASE /\ ports[1] \notin ToSet(e) /\ ports[2] \notin ToSet(e)
               /\ ports[3] \notin ToSet(e) /\ ports[4] \notin ToSet(e)
               /\ 5 \in DOMAIN ports /\ ports[5] \in ToSet(e)
      BY <2>3, <3>1, <3>6
    <3>7. QED
      BY <2>2, <2>3, <2>4, <3>1, <3>2, <3>3, <3>4, <3>5, <3>6
  <2>6. spLockOf(e) = ports[CHOOSE i \in DOMAIN ports : IsFirst(i)]
    BY <1>2 DEF spLockOf, ports
  <2>7. QED
    BY <2>5, <2>6
<1>3. QED
  BY <1>1, <1>2

\* ... and the other direction of a cable has the same.
LEMMA LockOfBothWays ==
  ASSUME NEW e \in Entries, NEW f \in Entries, f = <<e[2], e[1]>>
  PROVE  spLockOf(e) = spLockOf(f)
<1>1. CASE e[1] = e[2]
  BY <1>1, EntryShape
<1>2. CASE e[1] # e[2]
  <2>1. f[1] = e[2] /\ f[2] = e[1] /\ ToSet(f) = ToSet(e)
    BY EntryShape
  <2>2. protSync(e) <=> protSync(f)
    <3>1. AsyncPorts \cap SyncPorts = {}
      BY DEF AsyncPorts, SyncPorts
    <3>2. QED
      BY <1>2, <2>1, <3>1, EntryShape, Ports DEF protSync
  <2> DEFINE ports(x) == IF protSync(x) THEN Sync ELSE Async
             first(x) == CHOOSE i \in DOMAIN ports(x) :
                           ports(x)[i] \in ToSet(x) /\ \A j \in 1..i - 1 : ports(x)[j] \notin ToSet(x)
  <2>3. spLockOf(e) = ports(e)[first(e)] /\ spLockOf(f) = ports(f)[first(f)]
    BY <1>2, <2>1 DEF spLockOf
  <2>4. ports(e) = ports(f)
    BY <2>2
  <2> HIDE DEF ports
  <2>5. first(e) = first(f)
    BY <2>1, <2>4
  <2>6. QED
    BY <2>3, <2>4, <2>5
<1>3. QED
  BY <1>1, <1>2

------------------------------------------------------------------------------
(* The schedule.                                                            *)

\* Whatever the files say, only entries of the table are scheduled.
TableInv == DOMAIN table \subseteq Entries

LEMMA TableInit == Init => TableInv
BY DEF Init, ConfigInit, TableInv

LEMMA TableNext == TableInv /\ [Next]_vars => TableInv'
<1> SUFFICES ASSUME TableInv, [Next]_vars PROVE TableInv'
  OBVIOUS
<1>1. CASE ReadRecord
  <2>1. PICK named \in SUBSET Entries : DOMAIN table' = DOMAIN table \cup named
    BY <1>1 DEF ReadRecord
  <2>2. QED
    BY <2>1 DEF TableInv
<1>2. CASE UNCHANGED table
  BY <1>2 DEF TableInv
<1>3. QED
  BY <1>1, <1>2 DEF Next, config, Options, EndOfFile, vars

\* Both directions of a cable meet at one semaphore, and cables that share no port at
\* different ones (serialFit.c, spDatDat), for every command line and every file.
THEOREM LockSharedHolds == Spec => []LockShared
<1>1. TableInv => LockShared
  BY LockOfOwnPort, LockOfBothWays DEF TableInv, LockShared
<1>2. QED
  BY <1>1, TableInit, TableNext, PTL DEF Spec

------------------------------------------------------------------------------
(* The rates of a cable.                                                    *)

SlowPorts == {"sp3s", "sp5s"}

LEMMA RatesOfPorts ==
  ASSUME NEW p
  PROVE  /\ p \in AsyncPorts => ToSet(RatesOf(p)) = {1200, 2400, 4800, 9600, 19200, 38400, 57600, 115200}
         /\ (p \in SyncPorts /\ Slow(p)) => ToSet(RatesOf(p)) = {153600, 614400}
         /\ (p \in SyncPorts /\ ~Slow(p)) => ToSet(RatesOf(p)) = {19200, 38400, 57600, 76800, 153600}
<1>1. p \in AsyncPorts => p \notin ToSet(Sync)
  BY Ports DEF AsyncPorts, SyncPorts
<1>2. CASE p \in AsyncPorts
  <2> DEFINE s == RatesOf(p)
  <2>1. s = <<1200, 2400, 4800, 9600, 19200, 38400, 57600, 115200>> /\ p \notin SyncPorts
    BY <1>1, <1>2, Ports DEF RatesOf
  <2>2. DOMAIN s = 1..8
    BY <2>1
  <2>3. ToSet(s) = {s[1], s[2], s[3], s[4], s[5], s[6], s[7], s[8]}
    BY <2>2 DEF ToSet
  <2>4. QED
    BY <2>1, <2>3
<1>3. CASE p \in SyncPorts /\ Slow(p)
  <2> DEFINE s == RatesOf(p)
  <2>1. s = <<153600, 614400>> /\ p \notin AsyncPorts
    BY <1>1, <1>3, Ports DEF RatesOf
  <2>2. DOMAIN s = 1..2
    BY <2>1
  <2>3. ToSet(s) = {s[1], s[2]}
    BY <2>2 DEF ToSet
  <2>4. QED
    BY <1>3, <2>1, <2>3
<1>4. CASE p \in SyncPorts /\ ~Slow(p)
  <2> DEFINE s == RatesOf(p)
  <2>1. s = <<19200, 38400, 57600, 76800, 153600>> /\ p \notin AsyncPorts
    BY <1>1, <1>4, Ports DEF RatesOf
  <2>2. DOMAIN s = 1..5
    BY <2>1
  <2>3. ToSet(s) = {s[1], s[2], s[3], s[4], s[5]}
    BY <2>2 DEF ToSet
  <2>4. QED
    BY <1>4, <2>1, <2>3
<1>5. QED
  BY <1>2, <1>3, <1>4

LEMMA RatesAscend ==
  ASSUME NEW p
  PROVE  Ascending(RatesOf(p))
<1>1. /\ Ascending(<<1200, 2400, 4800, 9600, 19200, 38400, 57600, 115200>>)
      /\ Ascending(<<153600, 614400>>)
      /\ Ascending(<<19200, 38400, 57600, 76800, 153600>>)
  BY DEF Ascending
<1>2. QED
  BY <1>1 DEF RatesOf

\* The two ends of a cable come to the same rates.
LEMMA RatesOfBothWays ==
  ASSUME NEW e \in Entries, NEW f \in Entries, f = <<e[2], e[1]>>, NEW override
  PROVE  RatesRunOf(e, override) = RatesRunOf(f, override)
<1>1. f[1] = e[2] /\ f[2] = e[1]
  OBVIOUS
<1>2. CASE e[1] = e[2]
  BY <1>2, EntryShape
<1>3. CASE e[1] \in AsyncPorts /\ e[2] \in AsyncPorts /\ ~protSync(e)
  <2>1. ~protSync(f)
    <3>1. AsyncPorts \cap SyncPorts = {}
      BY DEF AsyncPorts, SyncPorts
    <3>2. QED
      BY <1>1, <1>3, <3>1, Ports DEF protSync
  <2>2. ToSet(RatesOf(e[1])) = ToSet(RatesOf(f[1]))
    BY <1>1, <1>3, RatesOfPorts
  <2>3. \A r : Skipped(e, r, override) <=> Skipped(f, r, override)
    BY <1>3, <2>1 DEF Skipped
  <2>4. QED
    BY <2>2, <2>3 DEF RatesRunOf
<1>4. CASE e[1] # e[2] /\ e[1] \in SyncPorts /\ e[2] \in SyncPorts /\ protSync(e)
  <2>1. protSync(f)
    BY <1>1, <1>4, Ports DEF protSync
  <2>2. \A r : Skipped(e, r, override) <=> Skipped(f, r, override)
    BY <1>1, <1>4, <2>1 DEF Skipped
  <2>3. CASE Slow(e[1]) <=> Slow(e[2])
    <3>1. ToSet(RatesOf(e[1])) = ToSet(RatesOf(f[1]))
      BY <1>1, <1>4, <2>3, RatesOfPorts
    <3>2. QED
      BY <2>2, <3>1 DEF RatesRunOf
  <2>4. CASE ~(Slow(e[1]) <=> Slow(e[2]))
    <3>1. 153600 \in ToSet(RatesOf(e[1])) /\ 153600 \in ToSet(RatesOf(f[1]))
      BY <1>1, <1>4, RatesOfPorts
    <3>2. \A r : ~Skipped(e, r, override) => r = 153600
      BY <1>4, <2>4 DEF Skipped
    <3>3. QED
      BY <2>2, <3>1, <3>2 DEF RatesRunOf
  <2>5. QED
    BY <2>3, <2>4
<1>5. QED
  BY <1>2, <1>3, <1>4, EntryShape

\* Both directions of a cable go through the same rates in the same order, with every value
\* of option -b, so that their readers meet as often (serialFit.c, spExtLpback).
THEOREM RatesAlikeHolds == Spec => []RatesAlike
<1>1. TableInv => RatesAlike
  BY RatesOfBothWays, RatesAscend DEF TableInv, RatesAlike
<1>2. QED
  BY <1>1, TableInit, TableNext, PTL DEF Spec

------------------------------------------------------------------------------
(* The time-outs.                                                           *)

LEMMA Distributes ==
  ASSUME NEW h \in Nat, NEW l \in Nat, NEW b \in Nat
  PROVE  (65536 * h + l) * b = 65536 * (h * b) + l * b /\ h * b \in Nat /\ l * b \in Nat
BY SMT

LEMMA Halves ==
  ASSUME NEW a \in Nat
  PROVE  \E q \in Nat, r \in Nat :
           q = a \div 65536 /\ r = a % 65536 /\ r < 65536 /\ a = 65536 * q + r
<1>1. PICK q \in Nat : q = a \div 65536
  BY SMT
<1>2. PICK r \in Nat : r = a % 65536 /\ r < 65536
  BY SMT
<1>3. a = 65536 * q + r
  BY <1>1, <1>2, SMT
<1>4. QED
  BY <1>1, <1>2, <1>3, SMT

\* A product that an int32 can hold is what the machine computes.
LEMMA ProductFits ==
  ASSUME NEW a \in Nat, NEW b \in Nat, a * b < 2147483648
  PROVE  Times32(a, b) = a * b
<1>1. PICK h \in Nat, l \in Nat : h = a \div 65536 /\ l = a % 65536 /\ a = 65536 * h + l
  BY Halves, SMT
<1>2. PICK p \in Nat, q \in Nat : p = h * b /\ q = l * b /\ a * b = 65536 * p + q
  BY <1>1, Distributes, SMT
<1>3. PICK c \in Nat, r \in Nat :
        c = q \div 65536 /\ r = q % 65536 /\ r < 65536 /\ q = 65536 * c + r
  BY Halves, SMT
<1>4. PICK high \in Nat : high = p + c /\ a * b = 65536 * high + r
  BY <1>2, <1>3, SMT
<1>5. high < 32768
  BY <1>4, SMT
<1>6. PICK turned \in Nat : turned = high + 32768 /\ turned % 65536 = turned
  BY <1>5, SMT
<1>7. Times32(a, b) = ((turned % 65536) - 32768) * 65536 + r
  <2>1. Times32(a, b) = ((((h * b + (l * b) \div 65536) + 32768) % 65536) - 32768) * 65536 + ((l * b) % 65536)
    BY <1>1, SMT DEF Times32
  <2>2. h * b + (l * b) \div 65536 = high /\ (l * b) % 65536 = r
    BY <1>2, <1>3, <1>4, SMT
  <2>3. QED
    BY <1>6, <2>1, <2>2, SMT
<1>8. QED
  BY <1>4, <1>6, <1>7, SMT

AllRates == {1200, 2400, 4800, 9600, 19200, 38400, 57600, 76800, 115200, 153600, 614400}

LEMMA RatesAreKnown ==
  ASSUME NEW e \in Entries, NEW override
  PROVE  RatesRunOf(e, override) \subseteq AllRates
<1>1. e[1] \in AsyncPorts \/ e[1] \in SyncPorts \/ e[1] \notin ToSet(Sync)
  BY Ports
<1>2. ToSet(RatesOf(e[1])) \subseteq AllRates
  <2>1. CASE e[1] \in SyncPorts
    BY <2>1, RatesOfPorts DEF AllRates
  <2>2. CASE e[1] \notin SyncPorts
    <3>1. RatesOf(e[1]) = RatesOf("sp1") /\ "sp1" \in AsyncPorts
      <4>1. "sp1" \notin SyncPorts
        BY DEF SyncPorts
      <4>2. QED
        BY <2>2, <4>1, Ports DEF RatesOf, AsyncPorts
    <3>2. QED
      BY <3>1, RatesOfPorts DEF AllRates
  <2>3. QED
    BY <2>1, <2>2
<1>3. QED
  BY <1>2 DEF RatesRunOf

\* The time a frame takes, in hundredths of a rate and in the rate itself.
LEMMA TimeAtRate ==
  ASSUME NEW n \in Nat, n <= 214, NEW r \in AllRates
  PROVE  /\ Times32(1000000, n * 10) = 10000000 * n
         /\ Quotient(10000000 * n, r) = Transmission(n, r)
         /\ Transmission(n, r) \in Nat /\ Transmission(n, r) <= 1783333
<1>1. 1000000 * (n * 10) = 10000000 * n /\ 10000000 * n < 2147483648 /\ n * 10 \in Nat
  BY SMT
<1>2. Times32(1000000, n * 10) = 10000000 * n
  BY <1>1, ProductFits, SMT
<1>3. Quotient(10000000 * n, r) = (10000000 * n) \div r
  BY <1>1, SMT DEF Quotient
<1>4. Transmission(n, r) = (n * 100000) \div (r \div 100)
  BY SMT DEF Transmission
<1>5. /\ (10000000 * n) \div r = (n * 100000) \div (r \div 100)
      /\ (10000000 * n) \div r \in Nat /\ (10000000 * n) \div r <= 1783333
  BY SMT DEF AllRates
<1>6. QED
  BY <1>2, <1>3, <1>4, <1>5, SMT

LEMMA TimesMany ==
  ASSUME NEW t \in Nat, t <= 1783333, NEW m \in Nat, m >= 1, m <= 1000
  PROVE  t * m \in Nat /\ t * m < 2147483648 /\ t * m >= t
BY SMT

LEMMA TimeoutLongEnough ==
  ASSUME NEW n \in Nat, n <= 214, NEW r \in AllRates, NEW m \in Nat, m >= 1, m <= 1000
  PROVE  timeoutUsecs(n, r, m) >= Transmission(n, r)
<1>1. PICK t \in Nat : t = Transmission(n, r) /\ t <= 1783333
  BY TimeAtRate, SMT
<1>2. timeoutUsecs(n, r, m) = Times32(t, m)
  BY <1>1, TimeAtRate, SMT DEF timeoutUsecs
<1>3. t * m \in Nat /\ t * m < 2147483648 /\ t * m >= t
  BY <1>1, TimesMany, SMT
<1>4. Times32(t, m) = t * m
  BY <1>3, ProductFits, SMT
<1>5. QED
  BY <1>1, <1>2, <1>3, <1>4, SMT

\* With a multiplier that is not above the default, calculateTimeout gives every frame of up
\* to 214 bytes the time that the line takes for it, at all rates of the table, although it
\* computes in 32 bits (serialFit.c).
THEOREM SmallTimeoutsEnoughHolds == Spec => []SmallTimeoutsEnough
<1>1. TableInv => SmallTimeoutsEnough
  <2>1. SUFFICES ASSUME TableInv, tmoMultiplier \in 1..1000, NEW e \in DOMAIN table,
                        NEW r \in RatesRunOf(e, baudRateOveride),
                        NEW n \in table[e].min..table[e].max, n \in 1..214
                 PROVE  timeoutUsecs(n, r, tmoMultiplier) >= Transmission(n, r)
    BY DEF SmallTimeoutsEnough, LongEnough
  <2>2. r \in AllRates
    BY <2>1, RatesAreKnown DEF TableInv
  <2>3. PICK m \in Nat : m = tmoMultiplier /\ m >= 1 /\ m <= 1000
    BY <2>1
  <2>4. n \in Nat /\ n <= 214
    BY <2>1
  <2>5. QED
    BY <2>2, <2>3, <2>4, TimeoutLongEnough
<1>2. QED
  BY <1>1, TableInit, TableNext, PTL DEF Spec

------------------------------------------------------------------------------
(* Sequences, and sequences of sequences one behind the other.              *)

\* A set of numbers has a least one.
LEMMA LeastOf ==
  ASSUME NEW S \in SUBSET Nat, S # {}
  PROVE  \E x \in S : \A y \in S : x <= y
<1>1. \E x \in S : \A y \in S : ~ (<<y, x>> \in OpToRel(<, Nat))
  BY NatLessThanWellFounded, WFMin
<1>2. PICK x \in S : \A y \in S : ~ (y < x)
  BY <1>1 DEF OpToRel
<1>3. QED
  BY <1>2

\* Induction up to a number.
LEMMA Upward ==
  ASSUME NEW n \in Nat, NEW G, 0 \in G, \A m \in 1..n : m - 1 \in G => m \in G
  PROVE  \A m \in 0..n : m \in G
<1> DEFINE Bad == {m \in 0..n : m \notin G}
<1>1. SUFFICES ASSUME Bad # {} PROVE FALSE
  OBVIOUS
<1>2. PICK m \in Bad : \A j \in Bad : m <= j
  <2>1. Bad \in SUBSET Nat
    OBVIOUS
  <2>2. QED
    BY <1>1, <2>1, LeastOf
<1>3. m \in 1..n /\ m - 1 \in 0..n /\ m - 1 < m
  BY <1>2
<1>4. m - 1 \in G
  BY <1>2, <1>3
<1>5. QED
  BY <1>2, <1>3, <1>4

\* A set of numbers up to n has a greatest one.
LEMMA GreatestOf ==
  ASSUME NEW n \in Nat, NEW S \in SUBSET (1..n), S # {}
  PROVE  \E x \in S : \A y \in S : y <= x
<1> DEFINE T == {y \in Nat : \E x \in S : y = n - x}
<1>1. T \in SUBSET Nat /\ T # {}
  <2>1. PICK x \in S : TRUE
    OBVIOUS
  <2>2. n - x \in T
    BY <2>1
  <2>3. QED
    BY <2>2
<1>2. PICK t \in T : \A u \in T : t <= u
  <2> HIDE DEF T
  <2>1. QED
    BY <1>1, LeastOf
<1>3. PICK x \in S : t = n - x
  BY <1>2
<1>4. ASSUME NEW y \in S PROVE y <= x
  <2>1. n - y \in T
    OBVIOUS
  <2>2. t <= n - y
    BY <1>2, <2>1
  <2>3. QED
    BY <1>3, <2>2
<1>5. QED
  BY <1>4

Flattens(s, n, g) == g = [i \in 1..n |-> IF i = 1 THEN s[i] ELSE g[i - 1] \o s[i]]

LEMMA FlatteningExists ==
  ASSUME NEW s, NEW n \in Nat
  PROVE  \E g : Flattens(s, n, g)
<1> DEFINE Bad == {k \in Nat : ~\E g : Flattens(s, k, g)}
<1>1. SUFFICES ASSUME Bad # {} PROVE FALSE
  OBVIOUS
<1>2. PICK k \in Bad : \A j \in Bad : k <= j
  BY <1>1, LeastOf
<1>3. k # 0
  <2>1. Flattens(s, 0, [i \in 1..0 |-> 0])
    BY DEF Flattens
  <2>2. QED
    BY <2>1
<1>4. PICK g : Flattens(s, k - 1, g)
  BY <1>2, <1>3
<1> DEFINE h == [i \in 1..k |-> IF i = k THEN (IF k = 1 THEN s[1] ELSE g[k - 1] \o s[k]) ELSE g[i]]
<1>5. Flattens(s, k, h)
  <2>1. \A i \in 1..k - 1 : g[i] = IF i = 1 THEN s[i] ELSE g[i - 1] \o s[i]
    BY <1>4 DEF Flattens
  <2>2. \A i \in 1..k : h[i] = IF i = 1 THEN s[i] ELSE h[i - 1] \o s[i]
    BY <2>1
  <2>3. QED
    BY <2>2 DEF Flattens
<1>6. QED
  BY <1>2, <1>5

LEMMA FlatteningUnique ==
  ASSUME NEW s, NEW t, NEW n \in Nat, NEW m \in Nat, n <= m, NEW g, NEW h,
         Flattens(s, n, g), Flattens(t, m, h), \A i \in 1..n : s[i] = t[i]
  PROVE  \A i \in 1..n : g[i] = h[i]
<1> DEFINE Bad == {i \in 1..n : g[i] # h[i]}
<1>1. SUFFICES ASSUME Bad # {} PROVE FALSE
  OBVIOUS
<1>2. PICK i \in Bad : \A j \in Bad : i <= j
  <2>1. Bad \in SUBSET Nat
    OBVIOUS
  <2>2. QED
    BY <1>1, <2>1, LeastOf
<1>3. /\ g[i] = IF i = 1 THEN s[i] ELSE g[i - 1] \o s[i]
      /\ h[i] = IF i = 1 THEN t[i] ELSE h[i - 1] \o t[i]
  <2>1. i \in 1..n /\ i \in 1..m
    BY <1>2
  <2>2. QED
    BY <2>1 DEF Flattens
<1>4. i # 1 => g[i - 1] = h[i - 1]
  BY <1>2
<1>5. QED
  BY <1>3, <1>4

LEMMA FlatDef ==
  ASSUME NEW s, Len(s) \in Nat, Len(s) # 0
  PROVE  \E g : Flattens(s, Len(s), g) /\ FlattenSeq(s) = g[Len(s)]
<1>1. FlattenSeq(s) = (CHOOSE g : Flattens(s, Len(s), g))[Len(s)]
  BY DEF FlattenSeq, Flattens
<1>2. QED
  BY <1>1, FlatteningExists

LEMMA FlatEmpty == FlattenSeq(<<>>) = <<>>
BY DEF FlattenSeq

LEMMA FlatTypes ==
  ASSUME NEW S, NEW s \in Seq(Seq(S))
  PROVE  FlattenSeq(s) \in Seq(S)
<1>1. CASE s = <<>>
  <2>1. <<>> \in Seq(S)
    OBVIOUS
  <2>2. QED
    BY <1>1, <2>1, FlatEmpty
<1>2. CASE s # <<>>
  <2>1. Len(s) \in Nat \ {0} /\ \A i \in 1..Len(s) : s[i] \in Seq(S)
    BY <1>2
  <2>2. PICK g : Flattens(s, Len(s), g) /\ FlattenSeq(s) = g[Len(s)]
    BY <2>1, FlatDef
  <2> DEFINE Bad == {i \in 1..Len(s) : g[i] \notin Seq(S)}
  <2>3. ASSUME Bad # {} PROVE FALSE
    <3>1. PICK i \in Bad : \A j \in Bad : i <= j
      <4>1. Bad \in SUBSET Nat
        OBVIOUS
      <4>2. QED
        BY <2>3, <4>1, LeastOf
    <3>2. g[i] = IF i = 1 THEN s[i] ELSE g[i - 1] \o s[i]
      BY <2>2 DEF Flattens
    <3>3. i # 1 => g[i - 1] \in Seq(S)
      BY <2>1, <3>1
    <3>4. \A u, v \in Seq(S) : u \o v \in Seq(S)
      OBVIOUS
    <3>5. QED
      BY <2>1, <3>2, <3>3, <3>4
  <2>4. QED
    BY <2>1, <2>2, <2>3
<1>3. QED
  BY <1>1, <1>2

LEMMA FlatMore ==
  ASSUME NEW s, NEW t, NEW n \in Nat \ {0}, Len(s) = n, Len(t) = n + 1, \A i \in 1..n : s[i] = t[i]
  PROVE  FlattenSeq(t) = FlattenSeq(s) \o t[n + 1]
<1>1. PICK g : Flattens(s, n, g) /\ FlattenSeq(s) = g[n]
  BY FlatDef
<1>2. PICK h : Flattens(t, n + 1, h) /\ FlattenSeq(t) = h[n + 1]
  BY FlatDef
<1>3. \A i \in 1..n : g[i] = h[i]
  <2>1. \A m \in Nat : n <= m /\ Flattens(t, m, h) => \A i \in 1..n : g[i] = h[i]
    BY <1>1, FlatteningUnique
  <2>2. n + 1 \in Nat /\ n <= n + 1
    OBVIOUS
  <2>3. QED
    BY <1>2, <2>1, <2>2
<1>4. h[n + 1] = h[n] \o t[n + 1]
  <2>1. \A i \in 1..n + 1 : h[i] = IF i = 1 THEN t[i] ELSE h[i - 1] \o t[i]
    BY <1>2 DEF Flattens
  <2>2. n + 1 \in 1..n + 1 /\ n + 1 # 1 /\ (n + 1) - 1 = n
    OBVIOUS
  <2>3. QED
    BY <2>1, <2>2
<1>5. g[n] = h[n]
  BY <1>3
<1>6. QED
  BY <1>1, <1>2, <1>4, <1>5

LEMMA FlatAppend ==
  ASSUME NEW S, NEW s \in Seq(Seq(S)), NEW x \in Seq(S)
  PROVE  FlattenSeq(Append(s, x)) = FlattenSeq(s) \o x
<1>1. PICK n \in Nat : n = Len(s)
  OBVIOUS
<1>2. PICK t : t = Append(s, x)
  OBVIOUS
<1>3. Len(t) = n + 1 /\ t[n + 1] = x /\ \A i \in 1..n : s[i] = t[i]
  BY <1>1, <1>2
<1>4. CASE n = 0
  <2>1. s = <<>> /\ <<>> \o x = x
    <3>1. s = <<>>
      BY <1>1, <1>4, EmptySeq
    <3>2. <<>> \o x = x
      BY ConcatEmptySeq
    <3>3. QED
      BY <3>1, <3>2
  <2>2. PICK h : Flattens(t, 1, h) /\ FlattenSeq(t) = h[1]
    <3>1. Len(t) \in Nat /\ Len(t) # 0 /\ Len(t) = 1
      BY <1>3, <1>4
    <3>2. \E h : Flattens(t, Len(t), h) /\ FlattenSeq(t) = h[Len(t)]
      BY <3>1, FlatDef
    <3>3. QED
      BY <3>1, <3>2
  <2>3. h[1] = t[1]
    BY <2>2 DEF Flattens
  <2>4. QED
    BY <1>2, <1>3, <1>4, <2>1, <2>2, <2>3, FlatEmpty
<1>5. CASE n # 0
  <2>1. FlattenSeq(t) = FlattenSeq(s) \o t[n + 1]
    BY <1>1, <1>3, <1>5, FlatMore
  <2>2. QED
    BY <1>2, <1>3, <2>1
<1>6. QED
  BY <1>4, <1>5

LEMMA Prefix ==
  ASSUME NEW S, NEW t \in Seq(S), NEW m \in 1..Len(t)
  PROVE  /\ SubSeq(t, 1, m) = Append(SubSeq(t, 1, m - 1), t[m])
         /\ SubSeq(t, 1, m - 1) \in Seq(S) /\ t[m] \in S /\ SubSeq(t, 1, m) \in Seq(S)
OBVIOUS

LEMMA ConcatAppend ==
  ASSUME NEW S, NEW s \in Seq(S), NEW u \in Seq(S), NEW x \in S
  PROVE  s \o Append(u, x) = Append(s \o u, x)
OBVIOUS

LEMMA FlatConcat ==
  ASSUME NEW S, NEW s \in Seq(Seq(S)), NEW t \in Seq(Seq(S))
  PROVE  FlattenSeq(s \o t) = FlattenSeq(s) \o FlattenSeq(t)
<1> DEFINE Bad == {m \in 0..Len(t) :
                    FlattenSeq(s \o SubSeq(t, 1, m)) # FlattenSeq(s) \o FlattenSeq(SubSeq(t, 1, m))}
<1>1. ASSUME Bad # {} PROVE FALSE
  <2>1. PICK m \in Bad : \A j \in Bad : m <= j
    <3>1. Bad \in SUBSET Nat
      OBVIOUS
    <3>2. QED
      BY <1>1, <3>1, LeastOf
  <2>2. CASE m = 0
    <3>1. SubSeq(t, 1, m) = <<>> /\ s \o <<>> = s
      BY <2>2
    <3>2. FlattenSeq(s) \o <<>> = FlattenSeq(s)
      BY FlatTypes
    <3>3. QED
      BY <3>1, <3>2, FlatEmpty
  <2>3. CASE m # 0
    <3> DEFINE u == SubSeq(t, 1, m - 1)
               x == t[m]
    <3>1. m \in 1..Len(t)
      BY <2>3
    <3>2. SubSeq(t, 1, m) = Append(u, x) /\ u \in Seq(Seq(S)) /\ x \in Seq(S)
      BY <3>1, Prefix
    <3>3. FlattenSeq(s \o u) = FlattenSeq(s) \o FlattenSeq(u)
      BY <2>1, <3>1
    <3> HIDE DEF u, x
    <3>4. s \o Append(u, x) = Append(s \o u, x) /\ s \o u \in Seq(Seq(S))
      BY <3>2, ConcatAppend
    <3>5. FlattenSeq(Append(s \o u, x)) = FlattenSeq(s \o u) \o x
      BY <3>2, <3>4, FlatAppend
    <3>6. FlattenSeq(Append(u, x)) = FlattenSeq(u) \o x
      BY <3>2, FlatAppend
    <3>7. (FlattenSeq(s) \o FlattenSeq(u)) \o x = FlattenSeq(s) \o (FlattenSeq(u) \o x)
      <4>1. FlattenSeq(s) \in Seq(S) /\ FlattenSeq(u) \in Seq(S)
        BY <3>2, FlatTypes
      <4>2. \A a, b, c \in Seq(S) : (a \o b) \o c = a \o (b \o c)
        BY ConcatAssociative, SMTT(20)
      <4>3. QED
        BY <3>2, <4>1, <4>2
    <3>8. QED
      BY <2>1, <3>2, <3>3, <3>4, <3>5, <3>6, <3>7
  <2>4. QED
    BY <2>2, <2>3
<1>2. Len(t) \in 0..Len(t) /\ SubSeq(t, 1, Len(t)) = t
  BY SubSeqFull
<1>3. QED
  BY <1>1, <1>2

LEMMA FlatOne ==
  ASSUME NEW S, NEW x \in Seq(S)
  PROVE  FlattenSeq(<<x>>) = x
<1>1. <<x>> = Append(<<>>, x) /\ <<>> \in Seq(Seq(S)) /\ <<>> \o x = x
  OBVIOUS
<1>2. QED
  BY <1>1, FlatAppend, FlatEmpty

\* What is before an element, the element, and what is behind it.
Before(s, k) == FlattenSeq(SubSeq(s, 1, k - 1))
Behind(s, k) == FlattenSeq(SubSeq(s, k + 1, Len(s)))

LEMMA FlatSplit ==
  ASSUME NEW S, NEW s \in Seq(Seq(S)), NEW k \in 1..Len(s)
  PROVE  /\ FlattenSeq(s) = Before(s, k) \o (s[k] \o Behind(s, k))
         /\ Before(s, k) \in Seq(S) /\ s[k] \in Seq(S) /\ Behind(s, k) \in Seq(S)
         /\ Before(s, k + 1) = Before(s, k) \o s[k]
<1> DEFINE u == SubSeq(s, 1, k - 1)
           v == SubSeq(s, k + 1, Len(s))
<1>1. /\ u \in Seq(Seq(S)) /\ v \in Seq(Seq(S)) /\ s[k] \in Seq(S) /\ <<s[k]>> \in Seq(Seq(S))
      /\ SubSeq(s, 1, k) = Append(u, s[k]) /\ s = u \o (<<s[k]>> \o v)
  <2>1. u \in Seq(Seq(S)) /\ SubSeq(s, 1, k) = Append(u, s[k])
    BY Prefix
  <2>2. s[k] \in Seq(S) /\ <<s[k]>> \in Seq(Seq(S))
    OBVIOUS
  <2>3. v \in Seq(Seq(S))
    OBVIOUS
  <2>4. SubSeq(s, k, Len(s)) = <<s[k]>> \o v
    <3>1. Len(s) \in k..Len(s)
      OBVIOUS
    <3>2. QED
      BY <3>1, SubSeqRecursiveFirst
  <2>5. u \o SubSeq(s, k, Len(s)) = SubSeq(s, 1, Len(s))
    <3>1. /\ 1 \in 1..Len(s) + 1 /\ k - 1 \in 1 - 1..Len(s) /\ Len(s) \in k - 1..Len(s)
          /\ (k - 1) + 1 = k
      OBVIOUS
    <3>2. \A m \in 1..Len(s) + 1 : \A j \in m - 1..Len(s) : \A n \in j..Len(s) :
            SubSeq(s, m, j) \o SubSeq(s, j + 1, n) = SubSeq(s, m, n)
      BY ConcatAdjacentSubSeq
    <3>3. SubSeq(s, 1, k - 1) \o SubSeq(s, (k - 1) + 1, Len(s)) = SubSeq(s, 1, Len(s))
      BY <3>1, <3>2
    <3>4. QED
      BY <3>1, <3>3
  <2>6. SubSeq(s, 1, Len(s)) = s
    BY SubSeqFull
  <2>7. QED
    BY <2>1, <2>2, <2>3, <2>4, <2>5, <2>6
<1> HIDE DEF u, v
<1>2. <<s[k]>> \o v \in Seq(Seq(S))
  BY <1>1
<1>3. FlattenSeq(s) = FlattenSeq(u) \o (s[k] \o FlattenSeq(v))
  <2>1. FlattenSeq(s) = FlattenSeq(u) \o FlattenSeq(<<s[k]>> \o v)
    BY <1>1, <1>2, FlatConcat
  <2>2. FlattenSeq(<<s[k]>> \o v) = FlattenSeq(<<s[k]>>) \o FlattenSeq(v)
    BY <1>1, FlatConcat
  <2>3. QED
    BY <1>1, <2>1, <2>2, FlatOne
<1>4. FlattenSeq(SubSeq(s, 1, k)) = FlattenSeq(u) \o s[k]
  BY <1>1, FlatAppend
<1>5. FlattenSeq(u) \in Seq(S) /\ FlattenSeq(v) \in Seq(S)
  BY <1>1, FlatTypes
<1>6. (k + 1) - 1 = k
  OBVIOUS
<1>7. QED
  BY <1>1, <1>3, <1>4, <1>5, <1>6 DEF Before, Behind, u, v

\* Where the words of an element are.
LEMMA FlatAt ==
  ASSUME NEW S, NEW s \in Seq(Seq(S)), NEW k \in 1..Len(s)
  PROVE  /\ Len(Before(s, k)) \in Nat /\ Len(s[k]) \in Nat /\ Len(FlattenSeq(s)) \in Nat
         /\ Len(Before(s, k)) + Len(s[k]) <= Len(FlattenSeq(s))
         /\ Len(Before(s, k + 1)) = Len(Before(s, k)) + Len(s[k])
         /\ \A j \in 1..Len(s[k]) : FlattenSeq(s)[Len(Before(s, k)) + j] = s[k][j]
<1>1. PICK a \in Seq(S), x \in Seq(S), b \in Seq(S) :
        a = Before(s, k) /\ x = s[k] /\ FlattenSeq(s) = a \o (x \o b) /\ Before(s, k + 1) = a \o x
  BY FlatSplit
<1>2. x \o b \in Seq(S) /\ Len(x \o b) = Len(x) + Len(b) /\ \A j \in 1..Len(x) : (x \o b)[j] = x[j]
  BY <1>1
<1>3. PICK y \in Seq(S) : y = x \o b
  BY <1>2
<1>4. /\ Len(a \o y) = Len(a) + Len(y) /\ a \o y \in Seq(S)
      /\ \A j \in 1..Len(y) : (a \o y)[Len(a) + j] = y[j]
  OBVIOUS
<1>5. Len(a \o x) = Len(a) + Len(x)
  OBVIOUS
<1>6. \A j \in 1..Len(x) : j \in 1..Len(y)
  BY <1>2, <1>3
<1>7. QED
  BY <1>1, <1>2, <1>3, <1>4, <1>5, <1>6

LEMMA BeforeEnds ==
  ASSUME NEW S, NEW s \in Seq(Seq(S))
  PROVE  Before(s, 1) = <<>> /\ Before(s, Len(s) + 1) = FlattenSeq(s)
<1>1. SubSeq(s, 1, 0) = <<>>
  BY SubSeqEmpty
<1>2. SubSeq(s, 1, Len(s)) = s
  BY SubSeqFull
<1>3. 1 - 1 = 0 /\ (Len(s) + 1) - 1 = Len(s)
  OBVIOUS
<1>4. QED
  BY <1>1, <1>2, <1>3, FlatEmpty DEF Before

\* Elements of the same length are at the same places.
LEMMA FlatLens ==
  ASSUME NEW S, NEW s \in Seq(Seq(S)), NEW t \in Seq(Seq(S)), Len(s) = Len(t),
         \A i \in 1..Len(s) : Len(s[i]) = Len(t[i])
  PROVE  \A k \in 1..Len(s) + 1 : Len(Before(s, k)) = Len(Before(t, k)) /\ Len(Before(s, k)) \in Nat
<1> DEFINE G == {m \in 0..Len(s) : Len(Before(s, m + 1)) = Len(Before(t, m + 1))
                                   /\ Len(Before(s, m + 1)) \in Nat}
<1>1. 0 \in G
  <2>1. Before(s, 0 + 1) = <<>> /\ Before(t, 0 + 1) = <<>>
    BY BeforeEnds
  <2>2. QED
    BY <2>1
<1>2. ASSUME NEW m \in 1..Len(s), m - 1 \in G PROVE m \in G
  <2>1. (m - 1) + 1 = m
    OBVIOUS
  <2>2. Len(Before(s, m)) = Len(Before(t, m)) /\ Len(Before(s, m)) \in Nat
    BY <1>2, <2>1
  <2>3. Len(Before(s, m + 1)) = Len(Before(s, m)) + Len(s[m]) /\ Len(s[m]) \in Nat
    BY FlatAt
  <2>4. Len(Before(t, m + 1)) = Len(Before(t, m)) + Len(t[m])
    BY FlatAt
  <2>5. Len(Before(s, m + 1)) = Len(Before(t, m + 1)) /\ Len(Before(s, m + 1)) \in Nat
    BY <2>2, <2>3, <2>4
  <2>6. QED
    BY <2>5
<1>3. \A m \in 0..Len(s) : m \in G
  <2> HIDE DEF G
  <2>1. Len(s) \in Nat
    OBVIOUS
  <2>2. QED
    BY <1>1, <1>2, <2>1, Upward
<1>4. ASSUME NEW k \in 1..Len(s) + 1 PROVE k - 1 \in G /\ (k - 1) + 1 = k
  <2>1. k - 1 \in 0..Len(s) /\ (k - 1) + 1 = k
    OBVIOUS
  <2> HIDE DEF G
  <2>2. QED
    BY <1>3, <2>1
<1>5. QED
  BY <1>4

LEMMA FunctionIsSeq ==
  ASSUME NEW S, NEW n \in Nat, NEW f \in [1..n -> S]
  PROVE  f \in Seq(S) /\ Len(f) = n
OBVIOUS

LEMMA HeadAndTail ==
  ASSUME NEW S, NEW s \in Seq(S), s # <<>>
  PROVE  /\ Head(s) = s[1] /\ Head(s) \in S /\ Head(s) \in ToSet(s)
         /\ Tail(s) \in Seq(S) /\ ToSet(Tail(s)) \subseteq ToSet(s)
         /\ Len(s) \in Nat \ {0} /\ Len(Tail(s)) = Len(s) - 1 /\ (Tail(s) = <<>> <=> Len(s) = 1)
<1>1. /\ Head(s) = s[1] /\ Head(s) \in S /\ Tail(s) \in Seq(S) /\ Len(Tail(s)) = Len(s) - 1
      /\ \A i \in 1..Len(Tail(s)) : Tail(s)[i] = s[i + 1]
      /\ Len(s) \in Nat \ {0} /\ DOMAIN s = 1..Len(s) /\ DOMAIN Tail(s) = 1..Len(Tail(s))
  BY HeadTailProperties, EmptySeq, LenProperties
<1>2. Head(s) \in ToSet(s)
  <2>1. 1 \in DOMAIN s
    BY <1>1
  <2>2. QED
    BY <1>1, <2>1 DEF ToSet
<1>3. ToSet(Tail(s)) \subseteq ToSet(s)
  <2>1. \A i \in DOMAIN Tail(s) : i + 1 \in DOMAIN s /\ Tail(s)[i] = s[i + 1]
    BY <1>1
  <2>2. QED
    BY <2>1 DEF ToSet
<1>4. Tail(s) = <<>> <=> Len(s) = 1
  <2>1. Tail(s) = <<>> <=> Len(Tail(s)) = 0
    BY <1>1, EmptySeq
  <2>2. QED
    BY <1>1, <2>1
<1>5. QED
  BY <1>1, <1>2, <1>3, <1>4

LEMMA Concat ==
  ASSUME NEW S, NEW a \in Seq(S), NEW b \in Seq(S)
  PROVE  /\ a \o b \in Seq(S) /\ Len(a) \in Nat /\ Len(b) \in Nat /\ Len(a \o b) = Len(a) + Len(b)
         /\ \A j \in 1..Len(a) : (a \o b)[j] = a[j]
         /\ \A j \in 1..Len(b) : (a \o b)[Len(a) + j] = b[j]
         /\ \A j \in Nat : (j > Len(a) /\ j <= Len(a) + Len(b)) => (a \o b)[j] = b[j - Len(a)]
OBVIOUS

\* One element replaced by another of its length.
LEMMA FlatReplaced ==
  ASSUME NEW S, NEW s \in Seq(Seq(S)), NEW k \in 1..Len(s), NEW t \in Seq(Seq(S)),
         Len(t) = Len(s), Len(t[k]) = Len(s[k]), \A i \in 1..Len(s) : i # k => t[i] = s[i],
         NEW p \in 1..Len(FlattenSeq(s)),
         p <= Len(Before(s, k)) \/ p > Len(Before(s, k)) + Len(s[k])
  PROVE  FlattenSeq(t)[p] = FlattenSeq(s)[p]
<1>1. SubSeq(t, 1, k - 1) = SubSeq(s, 1, k - 1) /\ SubSeq(t, k + 1, Len(t)) = SubSeq(s, k + 1, Len(s))
  OBVIOUS
<1>2. Before(t, k) = Before(s, k) /\ Behind(t, k) = Behind(s, k)
  BY <1>1 DEF Before, Behind
<1>3. PICK a \in Seq(S), b \in Seq(S), x \in Seq(S), y \in Seq(S) :
        /\ a = Before(s, k) /\ x = s[k] /\ y = t[k]
        /\ FlattenSeq(s) = a \o (x \o b) /\ FlattenSeq(t) = a \o (y \o b)
  <2>1. k \in 1..Len(t)
    OBVIOUS
  <2>2. FlattenSeq(t) = Before(t, k) \o (t[k] \o Behind(t, k)) /\ t[k] \in Seq(S)
    BY <2>1, FlatSplit
  <2>3. FlattenSeq(s) = Before(s, k) \o (s[k] \o Behind(s, k)) /\ s[k] \in Seq(S)
        /\ Before(s, k) \in Seq(S) /\ Behind(s, k) \in Seq(S)
    BY FlatSplit
  <2>4. QED
    BY <1>2, <2>2, <2>3
<1>4. Len(x) = Len(y)
  BY <1>3
<1>5. PICK u : u = x \o b
  OBVIOUS
<1>6. PICK v : v = y \o b
  OBVIOUS
<1>7. /\ u \in Seq(S) /\ Len(u) = Len(x) + Len(b) /\ Len(x) \in Nat /\ Len(b) \in Nat
       /\ \A j \in Nat : (j > Len(x) /\ j <= Len(x) + Len(b)) => u[j] = b[j - Len(x)]
  BY <1>5, Concat, SMTT(20)
<1>8. /\ v \in Seq(S) /\ Len(v) = Len(y) + Len(b)
       /\ \A j \in Nat : (j > Len(y) /\ j <= Len(y) + Len(b)) => v[j] = b[j - Len(y)]
  BY <1>6, Concat, SMTT(20)
<1>9. Len(u) = Len(v) /\ \A j \in Nat : (j > Len(x) /\ j <= Len(u)) => u[j] = v[j]
  BY <1>4, <1>7, <1>8
<1>10. /\ Len(a \o u) = Len(a) + Len(u) /\ Len(u) \in Nat /\ Len(a) \in Nat /\ Len(x) \in Nat
       /\ \A j \in 1..Len(a) : (a \o u)[j] = a[j] /\ (a \o v)[j] = a[j]
       /\ \A j \in Nat : (j > Len(a) /\ j <= Len(a) + Len(u)) =>
            (a \o u)[j] = u[j - Len(a)] /\ (a \o v)[j] = v[j - Len(a)]
  <2>1. /\ Len(a \o u) = Len(a) + Len(u) /\ Len(u) \in Nat /\ Len(a) \in Nat
        /\ \A j \in 1..Len(a) : (a \o u)[j] = a[j]
        /\ \A j \in Nat : (j > Len(a) /\ j <= Len(a) + Len(u)) => (a \o u)[j] = u[j - Len(a)]
    BY Concat, SMTT(20)
  <2>2. /\ \A j \in 1..Len(a) : (a \o v)[j] = a[j]
        /\ \A j \in Nat : (j > Len(a) /\ j <= Len(a) + Len(v)) => (a \o v)[j] = v[j - Len(a)]
    BY Concat, SMTT(20)
  <2>3. Len(x) \in Nat
    OBVIOUS
  <2>4. QED
    BY <1>9, <2>1, <2>2, <2>3
<1>11. p \in Nat /\ p >= 1 /\ p <= Len(a) + Len(u)
  BY <1>3, <1>5, <1>10
<1>12. CASE p <= Len(a)
  <2>1. p \in 1..Len(a)
    BY <1>10, <1>11, <1>12
  <2>2. QED
    BY <1>3, <1>5, <1>6, <1>10, <2>1
<1>13. CASE p > Len(a)
  <2>1. PICK j : j = p - Len(a)
    OBVIOUS
  <2>2. j \in Nat /\ p = Len(a) + j
    BY <1>10, <1>11, <1>13, <2>1
  <2>3. j > Len(x) /\ j <= Len(u)
    <3>1. p > Len(a) + Len(x)
      BY <1>3, <1>10, <1>11, <1>13
    <3>2. QED
      BY <1>10, <1>11, <2>2, <3>1
  <2>4. u[j] = v[j]
    BY <1>9, <2>2, <2>3
  <2>5. (a \o u)[p] = u[p - Len(a)] /\ (a \o v)[p] = v[p - Len(a)]
    BY <1>10, <1>11, <1>13
  <2>6. QED
    BY <1>3, <1>5, <1>6, <2>1, <2>4, <2>5
<1>14. QED
  BY <1>10, <1>11, <1>12, <1>13

------------------------------------------------------------------------------
(* The arguments: main finds its own and puts NULL over them, ...           *)

Words == STRING \cup {"fit", "serial"}
Cells == Words \cup {Null}

All(s) == <<"fit", "serial">> \o FlattenSeq(s)

\* The phrases when main has dealt with those before k, and the options it has found.
Nulls(p) == [j \in DOMAIN p |-> Null]
ScannedTo(ph, k) == [i \in DOMAIN ph |-> IF i < k /\ ph[i] \in FitPhrases THEN Nulls(ph[i]) ELSE ph[i]]
FoundTo(ph, k) == {Letters[ph[i][1]][1] : i \in {x \in DOMAIN ph : x < k /\ ph[x] \in FitPhrases}}

LEMMA AllAt ==
  ASSUME NEW s \in Seq(Seq(Cells))
  PROVE  /\ FlattenSeq(s) \in Seq(Cells) /\ Len(FlattenSeq(s)) \in Nat
         /\ All(s) \in Seq(Cells) /\ Len(All(s)) = 2 + Len(FlattenSeq(s))
         /\ All(s)[1] = "fit" /\ All(s)[2] = "serial"
         /\ \A q \in 1..Len(FlattenSeq(s)) : All(s)[2 + q] = FlattenSeq(s)[q]
<1>1. FlattenSeq(s) \in Seq(Cells)
  BY FlatTypes
<1>2. <<"fit", "serial">> \in Seq(Cells) /\ Len(<<"fit", "serial">>) = 2
  <2>1. "fit" \in Cells /\ "serial" \in Cells
    BY DEF Cells, Words
  <2>2. QED
    BY <2>1
<1>3. /\ All(s) \in Seq(Cells) /\ Len(FlattenSeq(s)) \in Nat /\ Len(All(s)) = 2 + Len(FlattenSeq(s))
      /\ \A j \in 1..2 : All(s)[j] = <<"fit", "serial">>[j]
      /\ \A j \in 1..Len(FlattenSeq(s)) : All(s)[2 + j] = FlattenSeq(s)[j]
  BY <1>1, <1>2, Concat DEF All
<1>4. QED
  BY <1>1, <1>3

LEMMA TypedWords ==
  ASSUME NEW ph \in CommandLines
  PROVE  /\ ph \in Seq(Seq(Cells)) /\ DOMAIN ph = 1..Len(ph) /\ Len(ph) \in Nat
         /\ \A i \in 1..Len(ph) : /\ ph[i] \in Seq(STRING) /\ DOMAIN ph[i] = 1..Len(ph[i])
                                  /\ Len(ph[i]) \in Nat /\ Len(ph[i]) >= 1
                                  /\ \A j \in 1..Len(ph[i]) : ph[i][j] \in STRING
<1>1. ph \in Seq(Seq(STRING) \ {<<>>})
  BY ArgsAssumption
<1>2. Seq(STRING) \ {<<>>} \subseteq Seq(Cells)
  <2>1. STRING \subseteq Cells
    BY DEF Cells, Words
  <2>2. QED
    BY <2>1, SeqMonotonic
<1>3. ph \in Seq(Seq(Cells))
  BY <1>1, <1>2, SeqMonotonic
<1>4. \A i \in 1..Len(ph) : ph[i] \in Seq(STRING) \ {<<>>}
  BY <1>1
<1>5. QED
  BY <1>1, <1>3, <1>4

LEMMA ScannedWords ==
  ASSUME NEW ph \in CommandLines, NEW k \in Nat
  PROVE  /\ ScannedTo(ph, k) \in Seq(Seq(Cells)) /\ Len(ScannedTo(ph, k)) = Len(ph)
         /\ \A i \in 1..Len(ph) : /\ Len(ScannedTo(ph, k)[i]) = Len(ph[i])
                                  /\ DOMAIN ScannedTo(ph, k)[i] = 1..Len(ph[i])
         /\ \A i \in 1..Len(ph) + 1 : /\ Len(Before(ScannedTo(ph, k), i)) = Len(Before(ph, i))
                                      /\ Len(Before(ph, i)) \in Nat
         /\ Len(FlattenSeq(ScannedTo(ph, k))) = Len(FlattenSeq(ph)) /\ Len(FlattenSeq(ph)) \in Nat
<1>1. \A i \in 1..Len(ph) : Nulls(ph[i]) \in Seq(Cells) /\ Len(Nulls(ph[i])) = Len(ph[i])
  <2>1. TAKE i \in 1..Len(ph)
  <2>2. DOMAIN ph[i] = 1..Len(ph[i]) /\ Len(ph[i]) \in Nat
    BY TypedWords
  <2>3. Null \in Cells
    BY DEF Cells
  <2>4. QED
    BY <2>2, <2>3 DEF Nulls
<1>2. ScannedTo(ph, k) \in Seq(Seq(Cells)) /\ Len(ScannedTo(ph, k)) = Len(ph)
  <2>1. \A i \in 1..Len(ph) : ph[i] \in Seq(Cells)
    BY TypedWords
  <2>2. /\ ScannedTo(ph, k) = [i \in 1..Len(ph) |-> ScannedTo(ph, k)[i]]
        /\ \A i \in 1..Len(ph) : ScannedTo(ph, k)[i] \in {Nulls(ph[i]), ph[i]}
    BY TypedWords DEF ScannedTo
  <2>3. \A i \in 1..Len(ph) : ScannedTo(ph, k)[i] \in Seq(Cells)
    BY <1>1, <2>1, <2>2
  <2>4. ScannedTo(ph, k) \in [1..Len(ph) -> Seq(Cells)]
    BY <2>2, <2>3
  <2>5. Len(ph) \in Nat
    BY TypedWords
  <2>6. QED
    BY <2>4, <2>5, FunctionIsSeq
<1>3. \A i \in 1..Len(ph) : Len(ScannedTo(ph, k)[i]) = Len(ph[i]) /\ ScannedTo(ph, k)[i] \in Seq(Cells)
  BY <1>1, <1>2, TypedWords DEF ScannedTo
<1>4. \A i \in 1..Len(ph) : DOMAIN ScannedTo(ph, k)[i] = 1..Len(ph[i])
  BY <1>3
<1>5. \A i \in 1..Len(ph) + 1 : /\ Len(Before(ScannedTo(ph, k), i)) = Len(Before(ph, i))
                                /\ Len(Before(ph, i)) \in Nat
  <2>1. PICK s \in Seq(Seq(Cells)) : s = ScannedTo(ph, k)
    BY <1>2
  <2>2. \A i \in 1..Len(s) + 1 : Len(Before(s, i)) = Len(Before(ph, i)) /\ Len(Before(s, i)) \in Nat
    <3>1. ph \in Seq(Seq(Cells)) /\ Len(s) = Len(ph) /\ \A i \in 1..Len(s) : Len(s[i]) = Len(ph[i])
      BY <1>2, <1>3, <2>1, TypedWords
    <3>2. QED
      BY <3>1, FlatLens
  <2>3. QED
    BY <1>2, <2>1, <2>2
<1>6. Len(FlattenSeq(ScannedTo(ph, k))) = Len(FlattenSeq(ph)) /\ Len(FlattenSeq(ph)) \in Nat
  <2>1. Len(ph) + 1 \in 1..Len(ph) + 1
    BY TypedWords
  <2>2. Before(ph, Len(ph) + 1) = FlattenSeq(ph)
    BY TypedWords, BeforeEnds
  <2>3. Before(ScannedTo(ph, k), Len(ph) + 1) = FlattenSeq(ScannedTo(ph, k))
    BY <1>2, BeforeEnds
  <2>4. QED
    BY <1>5, <2>1, <2>2, <2>3
<1>7. QED
  BY <1>2, <1>3, <1>4, <1>5, <1>6

\* The argument where getopt is in a phrase.
LEMMA ScannedAt ==
  ASSUME NEW ph \in CommandLines, NEW k \in 1..Len(ph), NEW j \in Nat, j < Len(ph[k]),
         NEW v, v = CArray(All(ScannedTo(ph, k)))
  PROVE  /\ 2 + Len(Before(ph, k)) + j < Len(All(ph))
         /\ v[2 + Len(Before(ph, k)) + j] = ph[k][j + 1]
         /\ Len(Before(ph, k + 1)) = Len(Before(ph, k)) + Len(ph[k])
<1> DEFINE s == ScannedTo(ph, k)
           b == Len(Before(ph, k))
<1>1. /\ s \in Seq(Seq(Cells)) /\ k \in 1..Len(s) /\ Len(s[k]) = Len(ph[k]) /\ s[k] = ph[k]
      /\ Len(Before(s, k)) = b /\ b \in Nat /\ Len(ph[k]) \in Nat
      /\ Len(FlattenSeq(s)) = Len(FlattenSeq(ph)) /\ Len(FlattenSeq(ph)) \in Nat
  <2>1. s[k] = ph[k]
    BY TypedWords DEF ScannedTo
  <2>2. QED
    BY <2>1, ScannedWords, TypedWords
<1>2. /\ b + Len(ph[k]) <= Len(FlattenSeq(ph)) /\ FlattenSeq(s)[b + (j + 1)] = ph[k][j + 1]
  <2>1. /\ Len(Before(s, k)) + Len(s[k]) <= Len(FlattenSeq(s))
        /\ \A i \in 1..Len(s[k]) : FlattenSeq(s)[Len(Before(s, k)) + i] = s[k][i]
    BY <1>1, FlatAt
  <2>2. j + 1 \in 1..Len(ph[k])
    BY <1>1
  <2>3. QED
    BY <1>1, <2>1, <2>2
<1>3. Len(Before(ph, k + 1)) = b + Len(ph[k])
  BY TypedWords, FlatAt
<1>4. Len(All(ph)) = 2 + Len(FlattenSeq(ph)) /\ Len(All(s)) = 2 + Len(FlattenSeq(s))
  BY <1>1, TypedWords, AllAt
<1>5. All(s)[2 + (b + (j + 1))] = FlattenSeq(s)[b + (j + 1)]
  <2>1. b + (j + 1) \in 1..Len(FlattenSeq(s))
    <3>1. j + 1 \in 1..Len(ph[k])
      BY <1>1
    <3>2. QED
      BY <1>1, <1>2, <3>1, SMTT(20)
  <2>2. QED
    BY <1>1, <2>1, AllAt
<1> HIDE DEF s, b
<1>6. v = [i \in 0..Len(All(s)) |-> IF i < Len(All(s)) THEN All(s)[i + 1] ELSE Null]
  BY DEF CArray, s
<1>7. 2 + b + j \in 0..Len(All(s)) /\ 2 + b + j < Len(All(s)) /\ (2 + b + j) + 1 = 2 + (b + (j + 1))
  <2>1. b \in Nat /\ b + j < Len(FlattenSeq(s)) /\ Len(FlattenSeq(s)) \in Nat
    BY <1>1, <1>2
  <2>2. QED
    BY <1>4, <2>1
<1>8. v[2 + b + j] = ph[k][j + 1]
  BY <1>2, <1>5, <1>6, <1>7
<1>9. QED
  BY <1>1, <1>3, <1>4, <1>7, <1>8 DEF b

\* What getopt finds when main has dealt with the phrases before k and j words of that.
ScanAt(ph, v, ind, letters, found, k, j) ==
  /\ k \in 1..Len(ph) + 1 /\ j \in Nat
  /\ v = CArray(All(ScannedTo(ph, k))) /\ found = FoundTo(ph, k)
  /\ ind = 2 + Len(Before(ph, k)) + j
  /\ letters \in Seq(STRING) /\ ToSet(letters) \cap Own = {}
  /\ (j # 0 \/ letters # <<>>) => k <= Len(ph) /\ ph[k] \notin FitPhrases /\ j < Len(ph[k])

MainGetOpt(v, n, ind, letters) == GetOpt(v, n, ind, letters, {"L", "F", "V"}, {"I"})
GoneWith(o) == {o.ind - i : i \in Taken(o.c)}
Cleared(v, o) == [i \in DOMAIN v |-> IF i \in GoneWith(o) THEN Null ELSE v[i]]
FoundWith(found, o) == IF GoneWith(o) = {} THEN found ELSE found \cup {o.c}

LEMMA LettersOf ==
  ASSUME NEW w \in DOMAIN Letters
  PROVE  /\ Letters[w] \in Seq(STRING) /\ Letters[w] # <<>> /\ Len(Letters[w]) \in Nat \ {0}
BY ArgsAssumption

\* A word of the test gives main nothing.
LEMMA ScanTest ==
  ASSUME NEW ph \in CommandLines, NEW v, NEW ind, NEW letters, NEW found, NEW k, NEW j,
         ScanAt(ph, v, ind, letters, found, k, j), k <= Len(ph), ph[k] \notin FitPhrases, j < Len(ph[k]),
         NEW o, o = MainGetOpt(v, Len(All(ph)), ind, letters)
  PROVE  /\ o.c \in {"word", "?"} /\ Cleared(v, o) = v /\ FoundWith(found, o) = found
         /\ \E kk, jj : ScanAt(ph, v, o.ind, o.next, found, kk, jj)
<1> DEFINE n == Len(All(ph))
           w == ph[k][j + 1]
           s == IF letters # <<>> THEN letters ELSE Letters[v[ind]]
<1>1. /\ k \in 1..Len(ph) /\ j \in Nat /\ v = CArray(All(ScannedTo(ph, k))) /\ found = FoundTo(ph, k)
      /\ ind = 2 + Len(Before(ph, k)) + j /\ letters \in Seq(STRING) /\ ToSet(letters) \cap Own = {}
  BY TypedWords DEF ScanAt
<1>2. ind < n /\ v[ind] = w /\ Len(Before(ph, k + 1)) = Len(Before(ph, k)) + Len(ph[k])
  BY <1>1, ScannedAt
<1>3. /\ Len(Before(ph, k)) \in Nat /\ Len(ph[k]) \in Nat /\ Len(ph) \in Nat
      /\ n \in Nat /\ ind \in Nat
  <2>1. Len(Before(ph, k)) \in Nat /\ Len(ph[k]) \in Nat /\ Len(ph) \in Nat
    BY <1>1, TypedWords, FlatAt
  <2>2. n \in Nat
    BY TypedWords, AllAt
  <2>3. QED
    BY <1>1, <2>1, <2>2
<1>4. w \in DOMAIN Letters => Letters[w] \in Seq(STRING) /\ Letters[w] # <<>> /\ ToSet(Letters[w]) \cap Own = {}
  <2>1. k \in DOMAIN ph /\ j + 1 \in DOMAIN ph[k]
    BY <1>1, <1>3, TypedWords
  <2>2. QED
    BY <1>1, <2>1, PhrasesAssumption, LettersOf
<1>5. ASSUME NEW r, r \in Seq(STRING), ToSet(r) \cap Own = {}
      PROVE  /\ r # <<>> => ScanAt(ph, v, ind, r, found, k, j)
             /\ r = <<>> => \E kk, jj : ScanAt(ph, v, ind + 1, r, found, kk, jj)
  <2>1. r # <<>> => ScanAt(ph, v, ind, r, found, k, j)
    BY <1>1, <1>3, <1>5 DEF ScanAt
  <2>2. CASE r = <<>> /\ j + 1 < Len(ph[k])
    <3>1. ind + 1 = 2 + Len(Before(ph, k)) + (j + 1)
      BY <1>1, <1>3
    <3>2. ScanAt(ph, v, ind + 1, r, found, k, j + 1)
      BY <1>1, <1>3, <1>5, <2>2, <3>1 DEF ScanAt
    <3>3. QED
      BY <2>1, <2>2, <3>2
  <2>3. CASE r = <<>> /\ j + 1 = Len(ph[k])
    <3>1. ind + 1 = 2 + Len(Before(ph, k + 1)) + 0
      <4>1. ind = 2 + Len(Before(ph, k)) + j /\ j \in Nat /\ j + 1 = Len(ph[k])
        BY <1>1, <2>3
      <4>2. QED
        BY <1>2, <1>3, <4>1
    <3>2. ScannedTo(ph, k + 1) = ScannedTo(ph, k) /\ FoundTo(ph, k + 1) = FoundTo(ph, k)
      <4>1. \A i \in DOMAIN ph : i < k + 1 /\ ph[i] \in FitPhrases <=> i < k /\ ph[i] \in FitPhrases
        BY <1>1, TypedWords
      <4>2. QED
        BY <4>1 DEF ScannedTo, FoundTo
    <3>3. ScanAt(ph, v, ind + 1, r, found, k + 1, 0)
      BY <1>1, <1>3, <1>5, <2>3, <3>1, <3>2 DEF ScanAt
    <3>4. QED
      BY <2>1, <2>3, <3>3
  <2>4. j + 1 < Len(ph[k]) \/ j + 1 = Len(ph[k])
    BY <1>1, <1>3
  <2>5. QED
    BY <2>1, <2>2, <2>3, <2>4
<1>6. \A c : Taken(c) = {} => \A q : q.c = c => Cleared(v, q) = v /\ FoundWith(found, q) = found
  <2>1. DOMAIN v = 0..Len(All(ScannedTo(ph, k))) /\ v = [i \in DOMAIN v |-> v[i]]
    BY <1>1 DEF CArray
  <2>2. QED
    BY <2>1 DEF Cleared, FoundWith, GoneWith
<1>7. Taken("word") = {} /\ Taken("?") = {}
  BY DEF Taken
<1>8. CASE letters = <<>> /\ w \notin DOMAIN Letters
  <2>1. o = [c |-> "word", optarg |-> v[ind], ind |-> ind + 1, next |-> <<>>]
    BY <1>2, <1>3, <1>8 DEF MainGetOpt, GetOpt
  <2>2. o.c = "word" /\ o.ind = ind + 1 /\ o.next = <<>>
    BY <2>1
  <2>3. <<>> \in Seq(STRING) /\ ToSet(<<>>) \cap Own = {}
    BY DEF ToSet
  <2>4. QED
    BY <1>5, <1>6, <1>7, <2>2, <2>3
<1>9. CASE letters # <<>> \/ w \in DOMAIN Letters
  <2>1. s \in Seq(STRING) /\ s # <<>> /\ ToSet(s) \cap Own = {}
    BY <1>1, <1>2, <1>4, <1>9
  <2>2. Head(s) \notin Own /\ Tail(s) \in Seq(STRING) /\ ToSet(Tail(s)) \cap Own = {}
    BY <2>1, HeadAndTail
  <2>3. o = [c |-> "?", optarg |-> Null, ind |-> IF Len(s) = 1 THEN ind + 1 ELSE ind, next |-> Tail(s)]
    <3>1. Head(s) \notin {"I"} /\ Head(s) \notin {"L", "F", "V"}
      BY <2>2 DEF Own
    <3>2. ~(letters = <<>> /\ ind >= n) /\ ~(letters = <<>> /\ v[ind] \notin DOMAIN Letters)
      BY <1>2, <1>3, <1>9
    <3>3. QED
      BY <3>1, <3>2 DEF MainGetOpt, GetOpt
  <2>4. Len(s) = 1 <=> Tail(s) = <<>>
    BY <2>1, HeadAndTail
  <2>5. o.c = "?" /\ o.ind = (IF Len(s) = 1 THEN ind + 1 ELSE ind) /\ o.next = Tail(s)
    BY <2>3
  <2>6. \E kk, jj : ScanAt(ph, v, o.ind, o.next, found, kk, jj)
    <3> HIDE DEF s
    <3>1. CASE Tail(s) = <<>>
      BY <1>5, <2>2, <2>4, <2>5, <3>1
    <3>2. CASE Tail(s) # <<>>
      BY <1>5, <2>2, <2>4, <2>5, <3>2
    <3>3. QED
      BY <3>1, <3>2
  <2>7. QED
    BY <1>6, <1>7, <2>5, <2>6
<1>10. QED
  BY <1>8, <1>9

\* The words of a list of phrases as main sees them.
LEMMA ArrayAt ==
  ASSUME NEW s \in Seq(Seq(Cells)), NEW n \in Nat, n = Len(FlattenSeq(s))
  PROVE  /\ CArray(All(s)) \in [0..n + 2 -> Cells]
         /\ CArray(All(s))[0] = "fit" /\ CArray(All(s))[1] = "serial" /\ CArray(All(s))[n + 2] = Null
         /\ \A q \in 1..n : CArray(All(s))[q + 1] = FlattenSeq(s)[q]
<1>1. PICK w \in Seq(Cells) :
        /\ w = All(s) /\ Len(w) = n + 2 /\ w[1] = "fit" /\ w[2] = "serial"
        /\ \A q \in 1..n : w[2 + q] = FlattenSeq(s)[q]
  BY AllAt
<1>2. CArray(w) = [i \in 0..n + 2 |-> IF i < n + 2 THEN w[i + 1] ELSE Null]
  BY <1>1 DEF CArray
<1>3. \A i \in 0..n + 2 : i < n + 2 => w[i + 1] \in Cells
  BY <1>1
<1>4. CArray(w) \in [0..n + 2 -> Cells]
  BY <1>2, <1>3 DEF Cells
<1>5. 0 \in 0..n + 2 /\ 1 \in 0..n + 2 /\ n + 2 \in 0..n + 2 /\ 0 < n + 2 /\ 1 < n + 2 /\ 0 + 1 = 1 /\ 1 + 1 = 2
  OBVIOUS
<1>6. \A q \in 1..n : q + 1 \in 0..n + 2 /\ q + 1 < n + 2 /\ (q + 1) + 1 = 2 + q
  OBVIOUS
<1>7. QED
  BY <1>1, <1>2, <1>4, <1>5, <1>6

ClearedFrom(v, first, many) == [i \in DOMAIN v |-> IF i \in first..first + many - 1 THEN Null ELSE v[i]]

LEMMA OutsideGap ==
  ASSUME NEW b \in Nat, NEW l \in Nat, NEW n \in Nat, b + l <= n, NEW i \in {0, 1, n + 2}
  PROVE  i \notin 2 + b..1 + b + l
OBVIOUS

\* Putting NULL over an option of fit and its value is the step from a phrase to the next.
LEMMA Clearing ==
  ASSUME NEW ph \in CommandLines, NEW k \in 1..Len(ph), ph[k] \in FitPhrases,
         NEW b, b = Len(Before(ph, k)), NEW v, v = CArray(All(ScannedTo(ph, k)))
  PROVE  ClearedFrom(v, 2 + b, Len(ph[k])) = CArray(All(ScannedTo(ph, k + 1)))
<1>1. PICK s, t : s = ScannedTo(ph, k) /\ t = ScannedTo(ph, k + 1)
  OBVIOUS
<1>2. PICK n \in Nat : n = Len(FlattenSeq(ph))
  BY ScannedWords
<1>3. /\ s \in Seq(Seq(Cells)) /\ Len(s) = Len(ph) /\ n = Len(FlattenSeq(s)) /\ k \in 1..Len(s)
      /\ Len(s[k]) = Len(ph[k]) /\ Len(Before(s, k)) = b /\ b \in Nat /\ Len(ph[k]) \in Nat
  <2>1. k \in 1..Len(ph) + 1 /\ k \in Nat
    BY TypedWords
  <2>2. QED
    BY <1>1, <1>2, <2>1, ScannedWords, TypedWords, SMTT(20)
<1>4. /\ t \in Seq(Seq(Cells)) /\ Len(t) = Len(ph) /\ n = Len(FlattenSeq(t)) /\ k \in 1..Len(t)
      /\ Len(t[k]) = Len(ph[k]) /\ Len(Before(t, k)) = b
  <2>1. k \in 1..Len(ph) + 1 /\ k + 1 \in Nat
    BY TypedWords
  <2>2. QED
    BY <1>1, <1>2, <2>1, ScannedWords
<1>5. b + Len(ph[k]) <= n /\ \A j \in 1..Len(ph[k]) : FlattenSeq(t)[b + j] = t[k][j]
  <2>1. /\ Len(Before(t, k)) + Len(t[k]) <= Len(FlattenSeq(t))
        /\ \A j \in 1..Len(t[k]) : FlattenSeq(t)[Len(Before(t, k)) + j] = t[k][j]
    BY <1>4, FlatAt
  <2>2. QED
    BY <1>4, <2>1
<1>6. /\ \A j \in 1..Len(ph[k]) : t[k][j] = Null
      /\ \A i \in 1..Len(s) : i # k => t[i] = s[i]
  <2>1. t[k] = Nulls(ph[k]) /\ DOMAIN ph[k] = 1..Len(ph[k])
    BY <1>1, TypedWords DEF ScannedTo
  <2>2. \A i \in DOMAIN ph : i # k => (i < k + 1 <=> i < k)
    BY TypedWords
  <2>3. \A i \in DOMAIN ph : i # k => t[i] = s[i]
    BY <1>1, <2>2 DEF ScannedTo
  <2>4. QED
    BY <1>3, <2>1, <2>3, TypedWords DEF Nulls
<1>7. \A q \in 1..n : FlattenSeq(t)[q] = IF q > b /\ q <= b + Len(ph[k]) THEN Null ELSE FlattenSeq(s)[q]
  <2>1. TAKE q \in 1..n
  <2>2. CASE q > b /\ q <= b + Len(ph[k])
    <3>1. q - b \in 1..Len(ph[k]) /\ b + (q - b) = q
      BY <1>3, <2>2
    <3>2. QED
      BY <1>5, <1>6, <2>2, <3>1
  <2>3. CASE q <= b \/ q > b + Len(ph[k])
    <3>1. q \in 1..Len(FlattenSeq(s)) /\ (q <= Len(Before(s, k)) \/ q > Len(Before(s, k)) + Len(s[k]))
      BY <1>3, <2>3
    <3>2. /\ Len(t) = Len(s) /\ Len(t[k]) = Len(s[k])
          /\ \A i \in 1..Len(s) : i # k => t[i] = s[i]
      BY <1>3, <1>4, <1>6
    <3>3. FlattenSeq(t)[q] = FlattenSeq(s)[q]
      BY <1>3, <1>4, <3>1, <3>2, FlatReplaced
    <3>4. ~(q > b /\ q <= b + Len(ph[k]))
      BY <1>3, <2>3
    <3>5. QED
      BY <3>3, <3>4
  <2>4. QED
    BY <1>3, <2>2, <2>3
<1>8. PICK f \in [0..n + 2 -> Cells] :
        /\ f = v /\ f[0] = "fit" /\ f[1] = "serial" /\ f[n + 2] = Null
        /\ \A q \in 1..n : f[q + 1] = FlattenSeq(s)[q]
  BY <1>1, <1>3, ArrayAt
<1>9. PICK g \in [0..n + 2 -> Cells] :
        /\ g = CArray(All(t)) /\ g[0] = "fit" /\ g[1] = "serial" /\ g[n + 2] = Null
        /\ \A q \in 1..n : g[q + 1] = FlattenSeq(t)[q]
  BY <1>4, ArrayAt
<1>10. PICK l \in Nat : l = Len(ph[k]) /\ b + l <= n
  BY <1>3, <1>5
<1>11. ASSUME NEW i \in 0..n + 2
       PROVE  g[i] = IF i \in 2 + b..1 + b + l THEN Null ELSE f[i]
  <2>1. b \in Nat /\ b + l <= n
    BY <1>3, <1>10
  <2>2. CASE i \in {0, 1, n + 2}
    <3>1. i \notin 2 + b..1 + b + l
      BY <2>1, <2>2, OutsideGap
    <3>2. QED
      BY <1>8, <1>9, <2>2, <3>1
  <2>3. CASE i - 1 \in 1..n
    <3>1. (i - 1) + 1 = i /\ (i \in 2 + b..1 + b + l <=> i - 1 > b /\ i - 1 <= b + l)
      BY <2>1, <1>10
    <3>2. g[i] = FlattenSeq(t)[i - 1] /\ f[i] = FlattenSeq(s)[i - 1]
      BY <1>8, <1>9, <2>3, <3>1
    <3>3. QED
      BY <1>7, <1>10, <2>3, <3>1, <3>2
  <2>4. QED
    BY <2>2, <2>3
<1>12. g = [i \in 0..n + 2 |-> IF i \in 2 + b..1 + b + l THEN Null ELSE f[i]]
  BY <1>11
<1>13. 2 + b + l - 1 = 1 + b + l
  BY <1>3
<1>14. QED
  BY <1>1, <1>8, <1>9, <1>10, <1>12, <1>13 DEF ClearedFrom

\* main takes an option of fit with its value, ...
LEMMA ScanFit ==
  ASSUME NEW ph \in CommandLines, NEW v, NEW ind, NEW letters, NEW found, NEW k, NEW j,
         ScanAt(ph, v, ind, letters, found, k, j), k <= Len(ph), ph[k] \in FitPhrases, OneLetter(ph[k]),
         NEW o, o = MainGetOpt(v, Len(All(ph)), ind, letters)
  PROVE  /\ o.c # "end"
         /\ ScanAt(ph, Cleared(v, o), o.ind, o.next, FoundWith(found, o), k + 1, 0)
<1>1. PICK w, x : w = ph[k][1] /\ x = Letters[w][1]
  OBVIOUS
<1>2. /\ k \in 1..Len(ph) /\ j = 0 /\ letters = <<>> /\ v = CArray(All(ScannedTo(ph, k)))
      /\ found = FoundTo(ph, k) /\ ind = 2 + Len(Before(ph, k)) + 0
  BY TypedWords DEF ScanAt
<1>3. PICK b \in Nat, l \in Nat, n \in Nat :
        b = Len(Before(ph, k)) /\ l = Len(ph[k]) /\ l > 0 /\ n = Len(All(ph))
  BY <1>2, TypedWords, FlatAt, AllAt
<1>4. w \in DOMAIN Letters /\ Len(Letters[w]) = 1 /\ x \in Own /\ l = IF x = "I" THEN 2 ELSE 1
  <2>1. k \in DOMAIN ph
    BY <1>2, TypedWords
  <2>2. QED
    BY <1>1, <1>3, <2>1, PhrasesAssumption DEF OneLetter
<1>5. Head(Letters[w]) = x /\ Tail(Letters[w]) = <<>>
  BY <1>1, <1>4, LettersOf, HeadAndTail
<1>6. ind < n /\ v[ind] = w /\ Len(Before(ph, k + 1)) = b + l /\ ind = 2 + b
  <2>1. 2 + Len(Before(ph, k)) + 0 < Len(All(ph)) /\ v[2 + Len(Before(ph, k)) + 0] = ph[k][0 + 1]
        /\ Len(Before(ph, k + 1)) = Len(Before(ph, k)) + Len(ph[k])
    BY <1>2, <1>3, ScannedAt
  <2>2. QED
    BY <1>1, <1>2, <1>3, <2>1
<1>7. x = "I" => ind + 1 < n
  <2>1. SUFFICES ASSUME x = "I" PROVE ind + 1 < n
    OBVIOUS
  <2>2. 1 < Len(ph[k])
    BY <1>3, <1>4, <2>1
  <2>3. 2 + Len(Before(ph, k)) + 1 < Len(All(ph))
    BY <1>2, <2>2, ScannedAt
  <2>4. QED
    BY <1>3, <1>6, <2>3
<1>8. o.c = x /\ o.ind = ind + l /\ o.next = <<>>
  <2>1. ~(letters = <<>> /\ ind >= n) /\ ~(letters = <<>> /\ v[ind] \notin DOMAIN Letters)
    BY <1>4, <1>6
  <2>2. o = GetOpt(v, n, ind, <<>>, {"L", "F", "V"}, {"I"})
    BY <1>2, <1>3 DEF MainGetOpt
  <2>3. /\ Len(Letters[v[ind]]) = 1 /\ Head(Letters[v[ind]]) = x /\ Tail(Letters[v[ind]]) = <<>>
        /\ v[ind] \in DOMAIN Letters /\ ind \in Nat /\ n \in Nat /\ ~(ind >= n)
    BY <1>3, <1>4, <1>5, <1>6
  <2>4. CASE x = "I"
    <3>1. o = [c |-> x, optarg |-> v[ind + 1], ind |-> ind + 1 + 1, next |-> <<>>]
      BY <1>7, <2>1, <2>2, <2>4, <2>3 DEF GetOpt
    <3>2. ind + 1 + 1 = ind + l
      BY <1>4, <1>6, <2>4
    <3>3. QED
      BY <3>1, <3>2
  <2>5. CASE x # "I"
    <3>1. x \in {"L", "F", "V"} /\ x \notin {"I"}
      BY <1>4, <2>5 DEF Own
    <3>2. o = [c |-> x, optarg |-> Null, ind |-> ind + 1, next |-> <<>>]
      BY <2>1, <2>2, <2>3, <3>1 DEF GetOpt
    <3>3. ind + 1 = ind + l
      BY <1>4, <2>5
    <3>4. QED
      BY <3>2, <3>3
  <2>6. QED
    BY <2>4, <2>5
<1>9. GoneWith(o) = 2 + b..1 + b + l /\ GoneWith(o) # {}
  <2>1. CASE x = "I"
    <3>1. GoneWith(o) = {o.ind - 1, o.ind - 2}
      BY <1>8, <2>1 DEF GoneWith, Taken
    <3>2. l = 2 /\ o.ind = 2 + b + 2
      BY <1>4, <1>6, <1>8, <2>1
    <3>3. {o.ind - 1, o.ind - 2} = 2 + b..1 + b + l
      BY <1>6, <3>2
    <3>4. QED
      BY <3>1, <3>3
  <2>2. CASE x # "I"
    <3>1. x \in {"L", "F", "V"}
      BY <1>4, <2>2 DEF Own
    <3>2. Taken(x) = {1}
      BY <3>1 DEF Taken
    <3>3. GoneWith(o) = {o.ind - 1}
      BY <1>8, <3>2 DEF GoneWith
    <3>4. l = 1 /\ o.ind = 2 + b + 1
      BY <1>4, <1>6, <1>8, <2>2
    <3>5. {o.ind - 1} = 2 + b..1 + b + l
      BY <1>6, <3>4
    <3>6. QED
      BY <3>3, <3>5
  <2>3. QED
    BY <2>1, <2>2
<1>10. Cleared(v, o) = CArray(All(ScannedTo(ph, k + 1)))
  <2>1. ClearedFrom(v, 2 + b, Len(ph[k])) = CArray(All(ScannedTo(ph, k + 1)))
    BY <1>2, <1>3, Clearing
  <2>2. 2 + b + l - 1 = 1 + b + l
    OBVIOUS
  <2>3. QED
    BY <1>3, <1>9, <2>1, <2>2 DEF Cleared, ClearedFrom
<1>11. FoundWith(found, o) = FoundTo(ph, k + 1)
  <2>1. \A i \in DOMAIN ph : i < k + 1 /\ ph[i] \in FitPhrases <=> (i < k /\ ph[i] \in FitPhrases) \/ i = k
    BY <1>2, TypedWords
  <2>2. k \in DOMAIN ph
    BY <1>2, TypedWords
  <2>3. FoundTo(ph, k + 1) = FoundTo(ph, k) \cup {x}
    BY <1>1, <2>1, <2>2 DEF FoundTo
  <2>4. QED
    BY <1>2, <1>8, <1>9, <2>3 DEF FoundWith
<1>12. o.c # "end"
  BY <1>4, <1>8 DEF Own
<1>13. k + 1 \in 1..Len(ph) + 1 /\ <<>> \in Seq(STRING) /\ ToSet(<<>>) \cap Own = {}
  BY <1>2, TypedWords DEF ToSet
<1>14. o.ind = 2 + Len(Before(ph, k + 1)) + 0
  BY <1>6, <1>8
<1>15. QED
  BY <1>8, <1>10, <1>11, <1>12, <1>13, <1>14 DEF ScanAt

\* ... and is at the end when all phrases are dealt with.
LEMMA ScanEnd ==
  ASSUME NEW ph \in CommandLines, NEW v, NEW ind, NEW letters, NEW found, NEW k, NEW j,
         ScanAt(ph, v, ind, letters, found, k, j), ~(k <= Len(ph)),
         NEW o, o = MainGetOpt(v, Len(All(ph)), ind, letters)
  PROVE  /\ o.c = "end" /\ Cleared(v, o) = v /\ FoundWith(found, o) = found
         /\ v = CArray(All(ScannedTo(ph, Len(ph) + 1))) /\ found = FoundTo(ph, Len(ph) + 1)
<1>1. k = Len(ph) + 1 /\ j = 0 /\ letters = <<>> /\ ind = 2 + Len(Before(ph, k)) + j
  BY TypedWords DEF ScanAt
<1>2. ind = Len(All(ph)) /\ ind \in Nat
  <2>1. Before(ph, k) = FlattenSeq(ph)
    BY <1>1, TypedWords, BeforeEnds
  <2>2. Len(All(ph)) = 2 + Len(FlattenSeq(ph)) /\ Len(FlattenSeq(ph)) \in Nat
    BY TypedWords, AllAt
  <2>3. QED
    BY <1>1, <2>1, <2>2
<1>3. o = [c |-> "end", optarg |-> Null, ind |-> ind, next |-> <<>>]
  BY <1>1, <1>2 DEF MainGetOpt, GetOpt
<1>4. o.c = "end" /\ GoneWith(o) = {}
  BY <1>3 DEF GoneWith, Taken
<1>5. v = CArray(All(ScannedTo(ph, k))) /\ found = FoundTo(ph, k)
  BY DEF ScanAt
<1>6. Cleared(v, o) = v
  <2>1. v = [i \in DOMAIN v |-> v[i]]
    BY <1>5 DEF CArray
  <2>2. QED
    BY <1>4, <2>1 DEF Cleared
<1>7. QED
  BY <1>1, <1>4, <1>5, <1>6 DEF FoundWith

------------------------------------------------------------------------------
(* ... compactArgv closes the gaps, ...                                     *)

\* A list without its NULLs.
Gaps(w) == [i \in 1..Len(w) |-> IF w[i] = Null THEN <<>> ELSE <<w[i]>>]
Dense(w) == FlattenSeq(Gaps(w))

LEMMA GapsTypes ==
  ASSUME NEW w \in Seq(Cells)
  PROVE  Gaps(w) \in Seq(Seq(Cells)) /\ Len(Gaps(w)) = Len(w) /\ Dense(w) \in Seq(Cells)
<1>1. Len(w) \in Nat
  OBVIOUS
<1>2. \A i \in 1..Len(w) : Gaps(w)[i] \in Seq(Cells)
  <2>1. \A i \in 1..Len(w) : w[i] \in Cells
    OBVIOUS
  <2>2. <<>> \in Seq(Cells) /\ \A x \in Cells : <<x>> \in Seq(Cells)
    OBVIOUS
  <2>3. QED
    BY <2>1, <2>2 DEF Gaps
<1>3. Gaps(w) \in [1..Len(w) -> Seq(Cells)]
  BY <1>2 DEF Gaps
<1>4. Gaps(w) \in Seq(Seq(Cells)) /\ Len(Gaps(w)) = Len(w)
  BY <1>1, <1>3, FunctionIsSeq
<1>5. QED
  BY <1>4, FlatTypes DEF Dense

LEMMA DenseConcat ==
  ASSUME NEW u \in Seq(Cells), NEW w \in Seq(Cells)
  PROVE  Dense(u \o w) = Dense(u) \o Dense(w)
<1>1. PICK x : x = u \o w
  OBVIOUS
<1>2. /\ x \in Seq(Cells) /\ Len(u) \in Nat /\ Len(w) \in Nat /\ Len(x) = Len(u) + Len(w)
      /\ \A j \in 1..Len(u) : x[j] = u[j]
      /\ \A j \in Nat : (j > Len(u) /\ j <= Len(u) + Len(w)) => x[j] = w[j - Len(u)]
  BY <1>1, Concat
<1>3. PICK a, b, c : a = Gaps(u) /\ b = Gaps(w) /\ c = Gaps(x)
  OBVIOUS
<1>4. /\ a \in Seq(Seq(Cells)) /\ b \in Seq(Seq(Cells)) /\ c \in Seq(Seq(Cells))
      /\ Len(a) = Len(u) /\ Len(b) = Len(w) /\ Len(c) = Len(x)
  BY <1>2, <1>3, GapsTypes
<1>5. PICK d : d = a \o b
  OBVIOUS
<1>6. /\ d \in Seq(Seq(Cells)) /\ Len(d) = Len(a) + Len(b)
      /\ \A j \in 1..Len(a) : d[j] = a[j]
      /\ \A j \in Nat : (j > Len(a) /\ j <= Len(a) + Len(b)) => d[j] = b[j - Len(a)]
  <2>1. /\ a \o b \in Seq(Seq(Cells)) /\ Len(a \o b) = Len(a) + Len(b)
        /\ \A j \in 1..Len(a) : (a \o b)[j] = a[j]
        /\ \A j \in Nat : (j > Len(a) /\ j <= Len(a) + Len(b)) => (a \o b)[j] = b[j - Len(a)]
    <3>1. \A e, f \in Seq(Seq(Cells)) :
            /\ e \o f \in Seq(Seq(Cells)) /\ Len(e \o f) = Len(e) + Len(f)
            /\ \A j \in 1..Len(e) : (e \o f)[j] = e[j]
            /\ \A j \in Nat : (j > Len(e) /\ j <= Len(e) + Len(f)) => (e \o f)[j] = f[j - Len(e)]
      BY Concat
    <3>2. QED
      BY <1>4, <3>1
  <2>2. QED
    BY <1>5, <2>1
<1>7. \A j \in 1..Len(c) : c[j] = d[j]
  <2>1. TAKE j \in 1..Len(c)
  <2>2. j \in Nat /\ j >= 1 /\ j <= Len(u) + Len(w)
    BY <1>2, <1>4
  <2>3. c[j] = IF x[j] = Null THEN <<>> ELSE <<x[j]>>
    BY <1>3, <1>4 DEF Gaps
  <2>4. CASE j <= Len(u)
    <3>1. j \in 1..Len(u) /\ j \in 1..Len(a)
      BY <1>2, <1>4, <2>2, <2>4
    <3>2. a[j] = IF u[j] = Null THEN <<>> ELSE <<u[j]>>
      BY <1>3, <3>1 DEF Gaps
    <3>3. QED
      BY <1>2, <1>6, <2>3, <3>1, <3>2
  <2>5. CASE j > Len(u)
    <3>1. j - Len(u) \in 1..Len(w) /\ j > Len(a) /\ j <= Len(a) + Len(b)
      BY <1>2, <1>4, <2>2, <2>5
    <3>2. b[j - Len(u)] = IF w[j - Len(u)] = Null THEN <<>> ELSE <<w[j - Len(u)]>>
      BY <1>3, <3>1 DEF Gaps
    <3>3. x[j] = w[j - Len(u)] /\ d[j] = b[j - Len(u)]
      BY <1>2, <1>4, <1>6, <2>2, <2>5, <3>1
    <3>4. QED
      BY <2>3, <3>2, <3>3
  <2>6. QED
    BY <1>2, <2>2, <2>4, <2>5
<1>8. c = d
  <2>1. Len(c) = Len(d)
    BY <1>2, <1>4, <1>6
  <2>2. QED
    BY <1>4, <1>6, <1>7, <2>1, SeqEqual
<1>9. FlattenSeq(d) = FlattenSeq(a) \o FlattenSeq(b)
  BY <1>4, <1>5, FlatConcat
<1>10. QED
  BY <1>1, <1>3, <1>8, <1>9 DEF Dense

LEMMA DenseOne ==
  ASSUME NEW x \in Cells
  PROVE  Dense(<<x>>) = (IF x = Null THEN <<>> ELSE <<x>>) /\ Dense(<<>>) = <<>>
<1>1. Gaps(<<x>>) = <<IF x = Null THEN <<>> ELSE <<x>>>>
  <2>1. Len(<<x>>) = 1 /\ <<x>>[1] = x
    OBVIOUS
  <2>2. Gaps(<<x>>) = [i \in 1..1 |-> IF x = Null THEN <<>> ELSE <<x>>]
    BY <2>1 DEF Gaps
  <2>3. QED
    BY <2>2
<1>2. (IF x = Null THEN <<>> ELSE <<x>>) \in Seq(Cells)
  OBVIOUS
<1>3. Gaps(<<>>) = <<>>
  BY DEF Gaps
<1>4. QED
  BY <1>1, <1>2, <1>3, FlatOne, FlatEmpty DEF Dense

\* Of a list of NULLs nothing is left, and a list that has none stays.
LEMMA DenseWhole ==
  ASSUME NEW w \in Seq(Cells)
  PROVE  /\ (\A i \in 1..Len(w) : w[i] = Null) => Dense(w) = <<>>
         /\ (\A i \in 1..Len(w) : w[i] # Null) => Dense(w) = w
<1> DEFINE G == {m \in 0..Len(w) :
                   /\ (\A i \in 1..Len(w) : w[i] = Null) => Dense(SubSeq(w, 1, m)) = <<>>
                   /\ (\A i \in 1..Len(w) : w[i] # Null) => Dense(SubSeq(w, 1, m)) = SubSeq(w, 1, m)}
<1>1. Len(w) \in Nat
  OBVIOUS
<1>2. 0 \in G
  <2>1. SubSeq(w, 1, 0) = <<>> /\ Null \in Cells
    BY SubSeqEmpty DEF Cells
  <2>2. Dense(SubSeq(w, 1, 0)) = <<>> /\ 0 \in 0..Len(w)
    <3>1. Dense(<<>>) = <<>>
      BY <2>1, DenseOne
    <3>2. 0 \in 0..Len(w)
      BY <1>1
    <3>3. QED
      BY <2>1, <3>1, <3>2, Zenon
  <2>3. QED
    BY <2>1, <2>2, Zenon
<1>3. ASSUME NEW m \in 1..Len(w), m - 1 \in G PROVE m \in G
  <2>1. PICK u \in Seq(Cells), x \in Cells :
          /\ u = SubSeq(w, 1, m - 1) /\ x = w[m] /\ SubSeq(w, 1, m) = Append(u, x)
    <3>1. /\ SubSeq(w, 1, m) = Append(SubSeq(w, 1, m - 1), w[m])
          /\ SubSeq(w, 1, m - 1) \in Seq(Cells) /\ w[m] \in Cells
      BY Prefix
    <3>2. QED
      BY <3>1
  <2>2. Append(u, x) = u \o <<x>> /\ <<x>> \in Seq(Cells)
    BY AppendIsConcat
  <2>3. Dense(u \o <<x>>) = Dense(u) \o Dense(<<x>>)
    BY <2>2, DenseConcat
  <2>4. /\ (\A i \in 1..Len(w) : w[i] = Null) => Dense(u) = <<>>
        /\ (\A i \in 1..Len(w) : w[i] # Null) => Dense(u) = u
    BY <1>3, <2>1
  <2>5. (\A i \in 1..Len(w) : w[i] = Null) => Dense(u \o <<x>>) = <<>>
    <3>1. <<>> \o <<>> = <<>>
      BY ConcatEmptySeq, <2>2
    <3>2. QED
      BY <2>1, <2>3, <2>4, <3>1, DenseOne
  <2>6. (\A i \in 1..Len(w) : w[i] # Null) => Dense(u \o <<x>>) = u \o <<x>>
    BY <2>1, <2>3, <2>4, DenseOne
  <2>7. m \in 0..Len(w)
    BY <1>1
  <2>8. QED
    BY <2>1, <2>2, <2>5, <2>6, <2>7
<1>4. \A m \in 0..Len(w) : m \in G
  <2> HIDE DEF G
  <2>1. QED
    BY <1>1, <1>2, <1>3, Upward
<1>5. Len(w) \in 0..Len(w) /\ SubSeq(w, 1, Len(w)) = w
  BY <1>1, SubSeqFull
<1>6. QED
  BY <1>4, <1>5

\* What is left of the phrases when main has put NULL over its options.
MineOf(ph) == [i \in DOMAIN ph |-> IF ph[i] \in FitPhrases THEN <<>> ELSE ph[i]]

LEMMA MineWords ==
  ASSUME NEW ph \in CommandLines
  PROVE  /\ MineOf(ph) \in Seq(Seq(Cells)) /\ Len(MineOf(ph)) = Len(ph)
         /\ \A i \in 1..Len(ph) : MineOf(ph)[i] = IF ph[i] \in FitPhrases THEN <<>> ELSE ph[i]
<1>1. Len(ph) \in Nat /\ DOMAIN ph = 1..Len(ph) /\ \A i \in 1..Len(ph) : ph[i] \in Seq(Cells)
  BY TypedWords
<1>2. \A i \in 1..Len(ph) : MineOf(ph)[i] = IF ph[i] \in FitPhrases THEN <<>> ELSE ph[i]
  BY <1>1 DEF MineOf
<1>3. \A i \in 1..Len(ph) : MineOf(ph)[i] \in Seq(Cells)
  <2>1. <<>> \in Seq(Cells)
    OBVIOUS
  <2>2. QED
    BY <1>1, <1>2, <2>1
<1>4. MineOf(ph) \in [1..Len(ph) -> Seq(Cells)]
  BY <1>1, <1>3 DEF MineOf
<1>5. QED
  BY <1>1, <1>2, <1>4, FunctionIsSeq

LEMMA DenseScanned ==
  ASSUME NEW ph \in CommandLines
  PROVE  Dense(All(ScannedTo(ph, Len(ph) + 1))) = All(MineOf(ph))
<1>1. PICK s, t : s = ScannedTo(ph, Len(ph) + 1) /\ t = MineOf(ph)
  OBVIOUS
<1>2. /\ s \in Seq(Seq(Cells)) /\ t \in Seq(Seq(Cells)) /\ Len(s) = Len(ph) /\ Len(t) = Len(ph)
      /\ Len(ph) \in Nat /\ DOMAIN ph = 1..Len(ph)
  BY <1>1, ScannedWords, MineWords, TypedWords
<1>3. \A i \in 1..Len(ph) : s[i] \in Seq(Cells) /\ Dense(s[i]) = t[i]
  <2>1. TAKE i \in 1..Len(ph)
  <2>2. s[i] \in Seq(Cells) /\ Len(s[i]) = Len(ph[i]) /\ DOMAIN ph[i] = 1..Len(ph[i])
    BY <1>1, <1>2, ScannedWords, TypedWords
  <2>3. CASE ph[i] \in FitPhrases
    <3>1. s[i] = Nulls(ph[i]) /\ t[i] = <<>>
      BY <1>1, <1>2, <2>3, MineWords DEF ScannedTo
    <3>2. \A j \in 1..Len(s[i]) : s[i][j] = Null
      BY <2>2, <3>1 DEF Nulls
    <3>3. QED
      BY <2>2, <3>1, <3>2, DenseWhole
  <2>4. CASE ph[i] \notin FitPhrases
    <3>1. s[i] = ph[i] /\ t[i] = ph[i]
      BY <1>1, <1>2, <2>4, MineWords DEF ScannedTo
    <3>2. \A j \in 1..Len(s[i]) : s[i][j] # Null
      BY <3>1, TypedWords, ArgsAssumption
    <3>3. QED
      BY <2>2, <3>1, <3>2, DenseWhole
  <2>5. QED
    BY <2>3, <2>4
<1>4. Dense(FlattenSeq(s)) = FlattenSeq(t)
  <2> DEFINE G == {m \in 0..Len(ph) :
                     Dense(FlattenSeq(SubSeq(s, 1, m))) = FlattenSeq(SubSeq(t, 1, m))}
  <2>1. 0 \in G
    <3>1. SubSeq(s, 1, 0) = <<>> /\ SubSeq(t, 1, 0) = <<>> /\ Null \in Cells
      BY SubSeqEmpty DEF Cells
    <3>2. Dense(<<>>) = <<>>
      BY <3>1, DenseOne
    <3>3. 0 \in 0..Len(ph)
      BY <1>2
    <3>4. Dense(FlattenSeq(SubSeq(s, 1, 0))) = FlattenSeq(SubSeq(t, 1, 0))
      BY <3>1, <3>2, FlatEmpty
    <3>5. QED
      BY <3>3, <3>4, Zenon
  <2>2. ASSUME NEW m \in 1..Len(ph), m - 1 \in G PROVE m \in G
    <3>1. PICK u \in Seq(Seq(Cells)), x \in Seq(Cells) :
            u = SubSeq(s, 1, m - 1) /\ x = s[m] /\ SubSeq(s, 1, m) = Append(u, x)
      <4>1. m \in 1..Len(s)
        BY <1>2
      <4>2. /\ SubSeq(s, 1, m) = Append(SubSeq(s, 1, m - 1), s[m])
            /\ SubSeq(s, 1, m - 1) \in Seq(Seq(Cells)) /\ s[m] \in Seq(Cells)
        BY <1>2, <4>1, Prefix
      <4>3. QED
        BY <4>2
    <3>2. PICK v \in Seq(Seq(Cells)), y \in Seq(Cells) :
            v = SubSeq(t, 1, m - 1) /\ y = t[m] /\ SubSeq(t, 1, m) = Append(v, y)
      <4>1. m \in 1..Len(t)
        BY <1>2
      <4>2. /\ SubSeq(t, 1, m) = Append(SubSeq(t, 1, m - 1), t[m])
            /\ SubSeq(t, 1, m - 1) \in Seq(Seq(Cells)) /\ t[m] \in Seq(Cells)
        BY <1>2, <4>1, Prefix
      <4>3. QED
        BY <4>2
    <3>3. FlattenSeq(Append(u, x)) = FlattenSeq(u) \o x /\ FlattenSeq(Append(v, y)) = FlattenSeq(v) \o y
      BY FlatAppend
    <3>4. Dense(FlattenSeq(u) \o x) = Dense(FlattenSeq(u)) \o Dense(x)
      <4>1. FlattenSeq(u) \in Seq(Cells)
        BY FlatTypes
      <4>2. QED
        BY <4>1, DenseConcat
    <3>5. Dense(FlattenSeq(u)) = FlattenSeq(v) /\ Dense(x) = y
      BY <1>3, <2>2, <3>1, <3>2
    <3>6. m \in 0..Len(ph)
      BY <1>2
    <3>7. QED
      BY <3>1, <3>2, <3>3, <3>4, <3>5, <3>6
  <2>3. \A m \in 0..Len(ph) : m \in G
    <3> HIDE DEF G
    <3>1. QED
      BY <1>2, <2>1, <2>2, Upward
  <2>4. Len(ph) \in 0..Len(ph) /\ SubSeq(s, 1, Len(ph)) = s /\ SubSeq(t, 1, Len(ph)) = t
    BY <1>2, SubSeqFull
  <2>5. QED
    BY <2>3, <2>4
<1>5. Dense(<<"fit", "serial">>) = <<"fit", "serial">> /\ <<"fit", "serial">> \in Seq(Cells)
  <2>1. "fit" \in Cells /\ "serial" \in Cells /\ "fit" # Null /\ "serial" # Null
    BY ArgsAssumption DEF Cells, Words
  <2>2. PICK w : w = <<"fit", "serial">>
    OBVIOUS
  <2>3. w \in Seq(Cells) /\ \A i \in 1..Len(w) : w[i] # Null
    BY <2>1, <2>2
  <2>4. QED
    BY <2>2, <2>3, DenseWhole
<1>6. Dense(All(s)) = Dense(<<"fit", "serial">>) \o Dense(FlattenSeq(s))
  <2>1. FlattenSeq(s) \in Seq(Cells)
    BY <1>2, FlatTypes
  <2>2. QED
    BY <1>5, <2>1, DenseConcat DEF All
<1>7. QED
  BY <1>1, <1>4, <1>5, <1>6 DEF All

\* Without the first NULL the list has the same rest.
LEMMA DenseWithout ==
  ASSUME NEW w \in Seq(Cells), NEW p \in 1..Len(w), w[p] = Null,
         NEW x \in Seq(Cells), Len(x) = Len(w) - 1,
         \A i \in 1..Len(x) : x[i] = IF i < p THEN w[i] ELSE w[i + 1]
  PROVE  Dense(x) = Dense(w)
<1>1. PICK a, b : a = SubSeq(w, 1, p - 1) /\ b = SubSeq(w, p + 1, Len(w))
  OBVIOUS
<1>2. a \in Seq(Cells) /\ b \in Seq(Cells) /\ <<Null>> \in Seq(Cells) /\ Null \in Cells
  BY <1>1 DEF Cells
<1>3. w = a \o (<<Null>> \o b)
  <2>1. SubSeq(w, p, Len(w)) = <<w[p]>> \o b
    <3>1. Len(w) \in p..Len(w)
      OBVIOUS
    <3>2. QED
      BY <1>1, <3>1, SubSeqRecursiveFirst
  <2>2. a \o SubSeq(w, p, Len(w)) = SubSeq(w, 1, Len(w))
    <3>1. \A m \in 1..Len(w) + 1 : \A j \in m - 1..Len(w) : \A n \in j..Len(w) :
            SubSeq(w, m, j) \o SubSeq(w, j + 1, n) = SubSeq(w, m, n)
      BY ConcatAdjacentSubSeq
    <3>2. /\ 1 \in 1..Len(w) + 1 /\ p - 1 \in 1 - 1..Len(w) /\ Len(w) \in p - 1..Len(w)
          /\ (p - 1) + 1 = p
      OBVIOUS
    <3>3. SubSeq(w, 1, p - 1) \o SubSeq(w, (p - 1) + 1, Len(w)) = SubSeq(w, 1, Len(w))
      BY <3>1, <3>2
    <3>4. QED
      BY <1>1, <3>2, <3>3
  <2>3. SubSeq(w, 1, Len(w)) = w
    BY SubSeqFull
  <2>4. QED
    BY <2>1, <2>2, <2>3
<1>4. x = a \o b
  <2>1. /\ Len(a) = p - 1 /\ Len(b) = Len(w) - p /\ \A i \in 1..Len(a) : a[i] = w[i]
        /\ \A i \in 1..Len(b) : b[i] = w[p + i]
    BY <1>1
  <2>2. PICK y : y = a \o b
    OBVIOUS
  <2>3. /\ y \in Seq(Cells) /\ Len(y) = Len(a) + Len(b)
        /\ \A i \in 1..Len(a) : y[i] = a[i]
        /\ \A i \in Nat : (i > Len(a) /\ i <= Len(a) + Len(b)) => y[i] = b[i - Len(a)]
    BY <1>2, <2>2, Concat
  <2>4. Len(y) = Len(x) /\ Len(w) \in Nat /\ Len(x) \in Nat
    BY <2>1, <2>3
  <2>5. \A i \in 1..Len(x) : x[i] = y[i]
    <3>1. TAKE i \in 1..Len(x)
    <3>2. CASE i < p
      <4>1. i \in 1..Len(a)
        BY <2>1, <2>4, <3>2
      <4>2. QED
        BY <2>1, <2>3, <3>2, <4>1
    <3>3. CASE i >= p
      <4>1. i - Len(a) \in 1..Len(b) /\ p + (i - Len(a)) = i + 1 /\ i \in Nat /\ i > Len(a) /\ i <= Len(a) + Len(b)
        BY <2>1, <2>3, <2>4, <3>3
      <4>2. y[i] = b[i - Len(a)] /\ b[i - Len(a)] = w[i + 1]
        BY <2>1, <2>3, <4>1
      <4>3. x[i] = w[i + 1]
        BY <3>3
      <4>4. QED
        BY <4>2, <4>3
    <3>4. QED
      BY <3>2, <3>3
  <2>6. QED
    BY <2>2, <2>3, <2>4, <2>5, SeqEqual
<1>5. Dense(w) = Dense(a) \o (Dense(<<Null>>) \o Dense(b))
  <2>1. <<Null>> \o b \in Seq(Cells)
    BY <1>2
  <2>2. QED
    BY <1>2, <1>3, <2>1, DenseConcat
<1>6. Dense(<<Null>>) \o Dense(b) = Dense(b)
  <2>1. Dense(<<Null>>) = <<>> /\ Dense(b) \in Seq(Cells)
    BY <1>2, DenseOne, GapsTypes
  <2>2. QED
    BY <2>1, ConcatEmptySeq
<1>7. Dense(x) = Dense(a) \o Dense(b)
  BY <1>2, <1>4, DenseConcat
<1>8. QED
  BY <1>5, <1>6, <1>7

\* argv ends where argc says, and has nothing behind.
ArgvInv ==
  /\ argc \in Nat /\ DOMAIN argv \subseteq Nat /\ 0..argc \subseteq DOMAIN argv
  /\ \A i \in DOMAIN argv : i >= argc => argv[i] = Null
  /\ argsAt = "found" => ~NullFound(argv, argc)

LEMMA ArgvInit == Init => ArgvInv
<1> SUFFICES ASSUME Init PROVE ArgvInv
  OBVIOUS
<1> DEFINE words == All(typed)
<1>1. argv = CArray(words) /\ argc = Len(words) /\ argsAt = "scan" /\ typed \in CommandLines
  BY DEF Init, ArgsInit, All
<1>2. Len(words) \in Nat
  BY <1>1, TypedWords, AllAt
<1>3. DOMAIN argv = 0..argc /\ argc \in Nat /\ argv[argc] = Null
  BY <1>1, <1>2 DEF CArray
<1>4. QED
  BY <1>1, <1>3 DEF ArgvInv

LEMMA ArgvNext == ArgvInv /\ [Next]_vars => ArgvInv'
<1> SUFFICES ASSUME ArgvInv, [Next]_vars PROVE ArgvInv'
  OBVIOUS
<1>1. CASE Scan
  <2>1. /\ argc' = argc /\ DOMAIN argv' = DOMAIN argv /\ argsAt' # "found"
        /\ \A i \in DOMAIN argv : argv'[i] \in {Null, argv[i]}
    BY <1>1 DEF Scan
  <2>2. QED
    BY <2>1 DEF ArgvInv
<1>2. CASE Compact
  <2>1. CASE UNCHANGED <<argv, argc>> /\ (argsAt' = "found" => ~NullFound(argv, argc))
    BY <2>1 DEF ArgvInv, NullFound
  <2>2. CASE /\ argsAt' = "compact" /\ argv' = OnePass(argv, argc)
             /\ argc' = IF argc > 1 /\ argv'[argc - 1] = Null THEN argc - 1 ELSE argc
    <3>1. /\ DOMAIN argv' = DOMAIN argv
          /\ \A i \in DOMAIN argv : i > argc => argv'[i] = argv[i]
          /\ argv'[argc] \in {Null, argv[argc]}
      BY <2>2 DEF OnePass, ArgvInv
    <3>2. argc' \in Nat /\ argc' <= argc /\ (argc' # argc => argc' = argc - 1 /\ argv'[argc'] = Null)
      BY <2>2 DEF ArgvInv
    <3>3. \A i \in DOMAIN argv : i >= argc => argv'[i] = Null
      BY <3>1 DEF ArgvInv
    <3>4. \A i \in DOMAIN argv : i >= argc' => argv'[i] = Null
      BY <3>2, <3>3 DEF ArgvInv
    <3>5. 0..argc' \subseteq 0..argc
      BY <3>2 DEF ArgvInv
    <3>6. QED
      BY <2>2, <3>1, <3>2, <3>4, <3>5 DEF ArgvInv
  <2>3. QED
    BY <1>2, <2>1, <2>2 DEF Compact
<1>3. CASE UNCHANGED args
  BY <1>3 DEF args, ArgvInv, NullFound
<1>4. QED
  BY <1>1, <1>2, <1>3 DEF Next, vars, Options, ReadRecord, EndOfFile

\* compactArgv leaves the test a list of arguments that ends where argc says and holds no
\* NULL before, whatever the user typed and wherever main has put its NULLs (fit.c).
THEOREM NoHolesHolds == Spec => []NoHoles
<1>1. ArgvInv => NoHoles
  BY DEF ArgvInv, NoHoles, NullFound
<1>2. QED
  BY <1>1, ArgvInit, ArgvNext, PTL DEF Spec

------------------------------------------------------------------------------
(* ... and the test gets what is left.                                      *)

\* What the scan knows of the arguments, and what compactArgv has left of them.
ArgWords(v, n) == [i \in 1..n |-> v[i - 1]]
ScanInv ==
  (OneByOne /\ argsAt = "scan") =>
    /\ argc = Len(All(typed))
    /\ \/ /\ optind = 1 /\ nextchar = <<>>
          /\ argv = CArray(All(ScannedTo(typed, 1))) /\ own = FoundTo(typed, 1)
       \/ \E k, j : ScanAt(typed, argv, optind, nextchar, own, k, j)
CompactInv ==
  (OneByOne /\ argsAt \in {"compact", "found"}) =>
    /\ own = FoundTo(typed, Len(typed) + 1)
    /\ \A i \in 0..argc : argv[i] \in Cells
    /\ Dense(ArgWords(argv, argc)) = All(MineOf(typed))
ArgsInv ==
  /\ typed \in CommandLines
  /\ ArgvInv /\ ScanInv /\ CompactInv

LEMMA ArgsInvInit == Init => ArgsInv
<1> SUFFICES ASSUME Init PROVE ArgsInv
  OBVIOUS
<1>1. /\ typed \in CommandLines /\ argv = CArray(All(typed)) /\ argc = Len(All(typed)) /\ argsAt = "scan"
      /\ optind = 1 /\ nextchar = <<>> /\ own = {}
  BY DEF Init, ArgsInit, All
<1>2. ScannedTo(typed, 1) = typed /\ FoundTo(typed, 1) = {}
  <2>1. DOMAIN typed = 1..Len(typed) /\ Len(typed) \in Nat /\ typed = [i \in DOMAIN typed |-> typed[i]]
    BY <1>1, TypedWords
  <2>2. \A i \in DOMAIN typed : ~(i < 1)
    BY <2>1
  <2>3. QED
    BY <2>1, <2>2 DEF ScannedTo, FoundTo
<1>3. ArgvInv
  BY ArgvInit
<1>4. QED
  BY <1>1, <1>2, <1>3 DEF ArgsInv, ScanInv, CompactInv

\* The first word of all is the name of the test.
LEMMA ScanFirst ==
  ASSUME NEW ph \in CommandLines, NEW v, v = CArray(All(ScannedTo(ph, 1))),
         NEW found, found = FoundTo(ph, 1), NEW o, o = MainGetOpt(v, Len(All(ph)), 1, <<>>)
  PROVE  /\ o.c # "end" /\ Cleared(v, o) = v /\ FoundWith(found, o) = found
         /\ ScanAt(ph, v, o.ind, o.next, found, 1, 0)
<1>1. PICK n \in Nat : n = Len(FlattenSeq(ph)) /\ Len(All(ph)) = n + 2
  BY TypedWords, AllAt
<1>2. v[1] = "serial"
  <2>1. ScannedTo(ph, 1) \in Seq(Seq(Cells)) /\ n = Len(FlattenSeq(ScannedTo(ph, 1)))
    BY <1>1, ScannedWords
  <2>2. QED
    BY <2>1, ArrayAt
<1>3. o = [c |-> "word", optarg |-> v[1], ind |-> 1 + 1, next |-> <<>>]
  <2>1. v[1] \notin DOMAIN Letters /\ ~(1 >= Len(All(ph)))
    BY <1>1, <1>2, ArgsAssumption
  <2>2. QED
    BY <2>1 DEF MainGetOpt, GetOpt
<1>4. o.c = "word" /\ o.ind = 2 /\ o.next = <<>> /\ GoneWith(o) = {}
  BY <1>3 DEF GoneWith, Taken
<1>5. v = [i \in DOMAIN v |-> v[i]]
  BY DEF CArray
<1>6. Cleared(v, o) = v /\ FoundWith(found, o) = found
  BY <1>4, <1>5 DEF Cleared, FoundWith
<1>7. /\ 1 \in 1..Len(ph) + 1 /\ 2 = 2 + Len(Before(ph, 1)) + 0
      /\ <<>> \in Seq(STRING) /\ ToSet(<<>>) \cap Own = {}
  <2>1. Before(ph, 1) = <<>> /\ Len(ph) \in Nat
    BY TypedWords, BeforeEnds
  <2>2. QED
    BY <2>1 DEF ToSet
<1>8. QED
  BY <1>4, <1>6, <1>7 DEF ScanAt

LEMMA ScanKeeps ==
  ASSUME ArgsInv, Scan, OneByOne
  PROVE  /\ argsAt' = "scan" => argc' = Len(All(typed)) /\ \E k, j : ScanAt(typed, argv', optind', nextchar', own', k, j)
         /\ argsAt' = "compact" =>
              /\ own' = FoundTo(typed, Len(typed) + 1) /\ argc' = Len(All(typed))
              /\ argv' = CArray(All(ScannedTo(typed, Len(typed) + 1)))
<1>1. PICK ph, v, n, ind, next_, found :
        /\ ph = typed /\ v = argv /\ n = argc /\ ind = optind /\ next_ = nextchar /\ found = own
  OBVIOUS
<1>2. PICK o : o = MainGetOpt(v, n, ind, next_)
  OBVIOUS
<1>3. /\ argsAt = "scan" /\ argc' = n /\ argv' = Cleared(v, o) /\ own' = FoundWith(found, o)
      /\ optind' = (IF o.c = "end" THEN 0 ELSE o.ind) /\ nextchar' = o.next
      /\ argsAt' = IF o.c = "end" THEN "compact" ELSE "scan"
  BY <1>1, <1>2 DEF Scan, MainGetOpt, Cleared, GoneWith, FoundWith
<1>4. /\ ph \in CommandLines /\ n = Len(All(ph))
      /\ \/ /\ ind = 1 /\ next_ = <<>> /\ v = CArray(All(ScannedTo(ph, 1))) /\ found = FoundTo(ph, 1)
         \/ \E k, j : ScanAt(ph, v, ind, next_, found, k, j)
  BY <1>1, <1>3 DEF ArgsInv, ScanInv
<1>5. CASE ind = 1 /\ next_ = <<>> /\ v = CArray(All(ScannedTo(ph, 1))) /\ found = FoundTo(ph, 1)
  <2>1. /\ o.c # "end" /\ Cleared(v, o) = v /\ FoundWith(found, o) = found
        /\ ScanAt(ph, v, o.ind, o.next, found, 1, 0)
    BY <1>2, <1>4, <1>5, ScanFirst
  <2>2. QED
    BY <1>1, <1>3, <1>4, <2>1
<1>6. ASSUME NEW k, NEW j, ScanAt(ph, v, ind, next_, found, k, j) PROVE
         /\ argsAt' = "scan" => argc' = Len(All(ph)) /\ \E kk, jj : ScanAt(ph, argv', optind', nextchar', own', kk, jj)
         /\ argsAt' = "compact" =>
              /\ own' = FoundTo(ph, Len(ph) + 1) /\ argc' = Len(All(ph))
              /\ argv' = CArray(All(ScannedTo(ph, Len(ph) + 1)))
  <2>1. CASE k <= Len(ph) /\ ph[k] \in FitPhrases
    <3>1. OneLetter(ph[k])
      <4>1. k \in DOMAIN ph
        BY <1>4, <1>6, <2>1, TypedWords DEF ScanAt
      <4>2. QED
        BY <1>1, <2>1, <4>1 DEF OneByOne
    <3>2. o.c # "end" /\ ScanAt(ph, Cleared(v, o), o.ind, o.next, FoundWith(found, o), k + 1, 0)
      BY <1>2, <1>4, <1>6, <2>1, <3>1, ScanFit
    <3>3. QED
      BY <1>3, <1>4, <3>2
  <2>2. CASE k <= Len(ph) /\ ph[k] \notin FitPhrases
    <3>1. j < Len(ph[k])
      <4>1. k \in 1..Len(ph) /\ Len(ph[k]) >= 1 /\ Len(ph[k]) \in Nat
        BY <1>4, <1>6, <2>2, TypedWords DEF ScanAt
      <4>2. QED
        BY <1>6, <4>1 DEF ScanAt
    <3>2. /\ o.c \in {"word", "?"} /\ Cleared(v, o) = v /\ FoundWith(found, o) = found
          /\ \E kk, jj : ScanAt(ph, v, o.ind, o.next, found, kk, jj)
      BY <1>2, <1>4, <1>6, <2>2, <3>1, ScanTest
    <3>3. QED
      BY <1>3, <1>4, <3>2
  <2>3. CASE ~(k <= Len(ph))
    <3>1. /\ o.c = "end" /\ Cleared(v, o) = v /\ FoundWith(found, o) = found
          /\ v = CArray(All(ScannedTo(ph, Len(ph) + 1))) /\ found = FoundTo(ph, Len(ph) + 1)
      BY <1>2, <1>4, <1>6, <2>3, ScanEnd
    <3>2. QED
      BY <1>3, <1>4, <3>1
  <2>4. QED
    BY <2>1, <2>2, <2>3
<1>7. QED
  BY <1>1, <1>4, <1>5, <1>6

LEMMA ArgWordsTypes ==
  ASSUME NEW n \in Nat, NEW v, \A i \in 0..n : v[i] \in Cells
  PROVE  /\ ArgWords(v, n) \in Seq(Cells) /\ Len(ArgWords(v, n)) = n
         /\ \A i \in 1..n : ArgWords(v, n)[i] = v[i - 1]
<1>1. \A i \in 1..n : i - 1 \in 0..n
  OBVIOUS
<1>2. ArgWords(v, n) \in [1..n -> Cells]
  BY <1>1 DEF ArgWords
<1>3. QED
  BY <1>2, FunctionIsSeq DEF ArgWords

LEMMA ArgWordsOfArray ==
  ASSUME NEW s \in Seq(Seq(Cells)), NEW n, n = Len(All(s)), NEW v, v = CArray(All(s))
  PROVE  /\ n \in Nat /\ ArgWords(v, n) = All(s) /\ \A i \in 0..n : v[i] \in Cells
<1>1. PICK w \in Seq(Cells) : w = All(s) /\ Len(w) = n /\ n \in Nat
  BY AllAt
<1>2. v = [i \in 0..n |-> IF i < n THEN w[i + 1] ELSE Null]
  BY <1>1 DEF CArray
<1>3. \A i \in 0..n : v[i] \in Cells
  <2>1. \A i \in 0..n : i < n => w[i + 1] \in Cells
    BY <1>1
  <2>2. QED
    BY <1>2, <2>1 DEF Cells
<1>4. /\ ArgWords(v, n) \in Seq(Cells) /\ Len(ArgWords(v, n)) = n
      /\ \A i \in 1..n : ArgWords(v, n)[i] = v[i - 1]
  BY <1>1, <1>3, ArgWordsTypes
<1>5. \A i \in 1..n : v[i - 1] = w[i]
  <2>1. \A i \in 1..n : i - 1 \in 0..n /\ i - 1 < n /\ (i - 1) + 1 = i
    BY <1>1
  <2>2. QED
    BY <1>2, <2>1
<1>6. ArgWords(v, n) = w
  BY <1>1, <1>4, <1>5, SeqEqual
<1>7. QED
  BY <1>1, <1>3, <1>6

\* A pass of compactArgv takes the first NULL away.
LEMMA PassDense ==
  ASSUME NEW n \in Nat, NEW v, \A i \in 0..n : v[i] \in Cells, 0..n \subseteq DOMAIN v, v[n] = Null,
         NullFound(v, n), NEW s \in Seq(Seq(Cells)), Dense(ArgWords(v, n)) = All(s),
         NEW x, x = OnePass(v, n)
  PROVE  /\ n > 1 /\ x[n - 1] = Null /\ n - 1 \in Nat
         /\ \A i \in 0..n - 1 : x[i] \in Cells
         /\ Dense(ArgWords(x, n - 1)) = All(s)
<1>1. PICK q \in 0..n - 1 : v[q] = Null /\ \A i \in 0..n - 1 : v[i] = Null => q <= i
  <2> DEFINE S == {i \in 0..n - 1 : v[i] = Null}
  <2>1. S \in SUBSET Nat /\ S # {}
    BY DEF NullFound
  <2>2. PICK q \in S : \A i \in S : q <= i
    <3> HIDE DEF S
    <3>1. QED
      BY <2>1, LeastOf
  <2>3. QED
    BY <2>2
<1>2. \A i \in 0..n - 1 : x[i] = IF i < q THEN v[i] ELSE v[i + 1]
  <2>1. TAKE i \in 0..n - 1
  <2>2. i \in DOMAIN v /\ ~(i > n) /\ i < n
    OBVIOUS
  <2>3. NullFound(v, i + 1) <=> ~(i < q)
    <3>1. NullFound(v, i + 1) <=> \E j \in 0..i : v[j] = Null
      BY DEF NullFound
    <3>2. \A j \in 0..i : j \in 0..n - 1
      OBVIOUS
    <3>3. QED
      BY <1>1, <3>1, <3>2
  <2>4. x[i] = IF i > n \/ ~NullFound(v, i + 1) THEN v[i] ELSE IF i < n THEN v[i + 1] ELSE Null
    BY <2>2 DEF OnePass
  <2>5. QED
    BY <2>2, <2>3, <2>4
<1>3. \A i \in 0..n - 1 : x[i] \in Cells
  <2>1. \A i \in 0..n - 1 : i \in 0..n /\ i + 1 \in 0..n
    OBVIOUS
  <2>2. QED
    BY <1>2, <2>1
<1>4. PICK w \in Seq(Cells) : w = ArgWords(v, n) /\ Len(w) = n /\ \A i \in 1..n : w[i] = v[i - 1]
  BY ArgWordsTypes
<1>5. n > 1
  <2>1. SUFFICES ASSUME n <= 1 PROVE FALSE
    OBVIOUS
  <2>2. n = 1 /\ q = 0
    BY <1>1, <2>1
  <2>3. Len(w) = 1 /\ w[1] = Null /\ Null \in Cells
    BY <1>1, <1>4, <2>2 DEF Cells
  <2>4. \A i \in 1..Len(w) : w[i] = Null
    BY <2>3
  <2>5. Dense(w) = <<>>
    BY <2>4, DenseWhole
  <2>6. Len(All(s)) >= 2 /\ Len(All(s)) \in Nat
    BY AllAt
  <2>7. QED
    BY <1>4, <2>5, <2>6
<1>6. x[n - 1] = Null
  <2>1. n - 1 \in 0..n - 1 /\ ~(n - 1 < q) /\ (n - 1) + 1 = n
    BY <1>1, <1>5
  <2>2. QED
    BY <1>2, <2>1
<1>7. PICK m \in Nat : m = n - 1
  BY <1>5
<1>8. PICK y \in Seq(Cells) : y = ArgWords(x, m) /\ Len(y) = m /\ \A i \in 1..m : y[i] = x[i - 1]
  BY <1>3, <1>7, ArgWordsTypes
<1>9. Dense(y) = Dense(w)
  <2>1. q + 1 \in 1..Len(w) /\ w[q + 1] = Null /\ Len(y) = Len(w) - 1
    <3>1. q + 1 \in 1..n /\ (q + 1) - 1 = q
      BY <1>1
    <3>2. QED
      BY <1>1, <1>4, <1>7, <1>8, <3>1
  <2>2. \A i \in 1..Len(y) : y[i] = IF i < q + 1 THEN w[i] ELSE w[i + 1]
    <3>1. TAKE i \in 1..Len(y)
    <3>2. /\ i \in 1..m /\ i - 1 \in 0..n - 1 /\ i \in 1..n /\ i + 1 \in 1..n /\ (i - 1) + 1 = i /\ (i + 1) - 1 = i
          /\ (i - 1 < q <=> i < q + 1)
      BY <1>1, <1>7, <1>8
    <3>3. y[i] = x[i - 1] /\ w[i] = v[i - 1] /\ w[i + 1] = v[i]
      BY <1>4, <1>8, <3>2
    <3>4. QED
      BY <1>2, <3>2, <3>3
  <2>3. QED
    BY <2>1, <2>2, DenseWithout
<1>10. QED
  BY <1>3, <1>4, <1>5, <1>6, <1>7, <1>8, <1>9

LEMMA CompactKeeps ==
  ASSUME ArgsInv, Compact, OneByOne
  PROVE  /\ own' = FoundTo(typed, Len(typed) + 1)
         /\ \A i \in 0..argc' : argv'[i] \in Cells
         /\ Dense(ArgWords(argv', argc')) = All(MineOf(typed))
<1>1. PICK ph, v, n, x, m : ph = typed /\ v = argv /\ n = argc /\ x = argv' /\ m = argc'
  OBVIOUS
<1>2. /\ own' = FoundTo(ph, Len(ph) + 1) /\ ph \in CommandLines
      /\ \A i \in 0..n : v[i] \in Cells
      /\ Dense(ArgWords(v, n)) = All(MineOf(ph))
      /\ n \in Nat /\ 0..n \subseteq DOMAIN v /\ v[n] = Null
  <2>1. argsAt = "compact" /\ own' = own
    BY DEF Compact
  <2>2. /\ argc \in Nat /\ 0..argc \subseteq DOMAIN argv /\ argv[argc] = Null
    BY DEF ArgsInv, ArgvInv
  <2>3. QED
    BY <1>1, <2>1, <2>2 DEF ArgsInv, CompactInv
<1>3. CASE x = v /\ m = n
  BY <1>1, <1>2, <1>3
<1>4. CASE NullFound(v, n) /\ x = OnePass(v, n) /\ m = IF n > 1 /\ x[n - 1] = Null THEN n - 1 ELSE n
  <2>1. MineOf(ph) \in Seq(Seq(Cells))
    BY <1>2, MineWords
  <2>2. /\ n > 1 /\ x[n - 1] = Null /\ \A i \in 0..n - 1 : x[i] \in Cells
        /\ Dense(ArgWords(x, n - 1)) = All(MineOf(ph))
    BY <1>2, <1>4, <2>1, PassDense
  <2>3. QED
    BY <1>1, <1>2, <1>4, <2>2
<1>5. QED
  BY <1>1, <1>3, <1>4 DEF Compact

LEMMA ArgsInvNext == ArgsInv /\ [Next]_vars => ArgsInv'
<1> SUFFICES ASSUME ArgsInv, [Next]_vars PROVE ArgsInv'
  OBVIOUS
<1>1. typed' = typed /\ typed' \in CommandLines /\ (OneByOne' <=> OneByOne) /\ ArgvInv'
  <2>1. typed' = typed
    BY DEF Next, vars, args, config, Scan, Compact, Options, ReadRecord, EndOfFile
  <2>2. ArgvInv'
    BY ArgvNext DEF ArgsInv
  <2>3. QED
    BY <2>1, <2>2 DEF ArgsInv, OneByOne
<1>2. CASE Scan
  <2>1. argsAt' \in {"scan", "compact"}
    BY <1>2 DEF Scan
  <2>2. CASE ~OneByOne
    BY <1>1, <2>2 DEF ArgsInv, ScanInv, CompactInv
  <2>3. CASE OneByOne
    <3>1. ScanInv'
      <4>1. argsAt' = "scan" => argc' = Len(All(typed)) /\ \E k, j : ScanAt(typed, argv', optind', nextchar', own', k, j)
        BY <1>2, <2>3, ScanKeeps
      <4>2. QED
        BY <1>1, <4>1 DEF ScanInv
    <3>2. CompactInv'
      <4>1. SUFFICES ASSUME argsAt' = "compact" PROVE CompactInv'
        BY <2>1 DEF CompactInv
      <4>2. /\ own' = FoundTo(typed, Len(typed) + 1) /\ argc' = Len(All(typed))
            /\ argv' = CArray(All(ScannedTo(typed, Len(typed) + 1)))
        BY <1>2, <2>3, <4>1, ScanKeeps
      <4>3. PICK ph, v, n, s :
              ph = typed /\ v = argv' /\ n = argc' /\ s = ScannedTo(typed, Len(typed) + 1)
        OBVIOUS
      <4>4. ph \in CommandLines /\ s \in Seq(Seq(Cells)) /\ n = Len(All(s)) /\ v = CArray(All(s))
        <5>1. ph \in CommandLines /\ Len(ph) + 1 \in Nat
          BY <1>1, <4>3, TypedWords
        <5>2. s \in Seq(Seq(Cells)) /\ Len(FlattenSeq(s)) = Len(FlattenSeq(ph))
          BY <4>3, <5>1, ScannedWords
        <5>3. Len(All(s)) = Len(All(ph))
          <6>1. Len(All(s)) = 2 + Len(FlattenSeq(s))
            BY <5>2, AllAt
          <6>2. Len(All(ph)) = 2 + Len(FlattenSeq(ph))
            BY <5>1, TypedWords, AllAt
          <6>3. QED
            BY <5>2, <6>1, <6>2
        <5>4. QED
          BY <4>2, <4>3, <5>1, <5>2, <5>3
      <4>5. n \in Nat /\ ArgWords(v, n) = All(s) /\ \A i \in 0..n : v[i] \in Cells
        BY <4>4, ArgWordsOfArray
      <4>6. Dense(All(s)) = All(MineOf(ph))
        BY <4>3, <4>4, DenseScanned
      <4>7. QED
        BY <1>1, <4>2, <4>3, <4>5, <4>6 DEF CompactInv
    <3>3. QED
      BY <1>1, <3>1, <3>2 DEF ArgsInv
  <2>4. QED
    BY <2>2, <2>3
<1>3. CASE Compact
  <2>1. argsAt' # "scan"
    BY <1>3 DEF Compact
  <2>2. CASE ~OneByOne
    BY <1>1, <2>2 DEF ArgsInv, ScanInv, CompactInv
  <2>3. CASE OneByOne
    <3>1. CompactInv'
      <4>1. /\ own' = FoundTo(typed, Len(typed) + 1)
            /\ \A i \in 0..argc' : argv'[i] \in Cells
            /\ Dense(ArgWords(argv', argc')) = All(MineOf(typed))
        BY <1>3, <2>3, CompactKeeps
      <4>2. QED
        BY <1>1, <4>1 DEF CompactInv
    <3>2. QED
      BY <1>1, <2>1, <3>1 DEF ArgsInv, ScanInv
  <2>4. QED
    BY <2>2, <2>3
<1>4. CASE UNCHANGED args
  BY <1>1, <1>4 DEF args, ArgsInv, ScanInv, CompactInv
<1>5. QED
  BY <1>2, <1>3, <1>4 DEF Next, vars, Options, ReadRecord, EndOfFile

\* What the test is called with.
LEMMA TestWords ==
  ASSUME ArgsInv, argsAt = "found", OneByOne
  PROVE  /\ own = FoundTo(typed, Len(typed) + 1)
         /\ ArgWords(argv, argc) = All(MineOf(typed)) /\ argc = Len(All(MineOf(typed)))
<1>1. PICK ph, v, n : ph = typed /\ v = argv /\ n = argc
  OBVIOUS
<1>2. /\ own = FoundTo(ph, Len(ph) + 1) /\ \A i \in 0..n : v[i] \in Cells
      /\ Dense(ArgWords(v, n)) = All(MineOf(ph)) /\ n \in Nat /\ ~NullFound(v, n)
  BY <1>1 DEF ArgsInv, CompactInv, ArgvInv
<1>3. PICK w \in Seq(Cells) : w = ArgWords(v, n) /\ Len(w) = n /\ \A i \in 1..n : w[i] = v[i - 1]
  BY <1>2, ArgWordsTypes
<1>4. \A i \in 1..Len(w) : w[i] # Null
  <2>1. \A i \in 1..n : i - 1 \in 0..n - 1
    BY <1>2
  <2>2. QED
    BY <1>2, <1>3, <2>1 DEF NullFound
<1>5. Dense(w) = w
  BY <1>4, DenseWhole
<1>6. QED
  BY <1>1, <1>2, <1>3, <1>5

\* Whatever fit and the test are given, one by one and in any order: each gets what is meant
\* for it, in the order typed (fit.c, main and compactArgv).
THEOREM TestGetsItsOwnHolds == Spec => []TestGetsItsOwn
<1>1. ArgsInv => TestGetsItsOwn
  <2>1. SUFFICES ASSUME ArgsInv, argsAt = "found", OneByOne
                 PROVE  /\ [i \in 1..testArgc |-> testArgv[i - 1]] = <<"serial">> \o FlattenSeq(mine)
                        /\ own = {Letters[p[1]][1] : p \in ToSet(typed) \cap FitPhrases}
    BY DEF TestGetsItsOwn
  <2>2. PICK ph, v, n, f : ph = typed /\ v = argv /\ n = argc /\ f = FlattenSeq(MineOf(typed))
    OBVIOUS
  <2>3. /\ own = FoundTo(ph, Len(ph) + 1) /\ ArgWords(v, n) = All(MineOf(ph)) /\ n = Len(All(MineOf(ph)))
        /\ ph \in CommandLines
    BY <2>1, <2>2, TestWords DEF ArgsInv
  <2>4. /\ f \in Seq(Cells) /\ Len(f) \in Nat /\ n = 2 + Len(f)
        /\ All(MineOf(ph))[2] = "serial" /\ \A q \in 1..Len(f) : All(MineOf(ph))[2 + q] = f[q]
    BY <2>2, <2>3, MineWords, AllAt
  <2>5. \A i \in 1..n : All(MineOf(ph))[i] = v[i - 1]
    <3>1. \A i \in 1..n : ArgWords(v, n)[i] = v[i - 1]
      BY DEF ArgWords
    <3>2. QED
      BY <2>3, <3>1
  <2>6. \A i \in 1..n - 1 : testArgv[i - 1] = v[i]
    <3>1. testArgv = [i \in 0..n - 1 |-> v[i + 1]]
      BY <2>2 DEF testArgv
    <3>2. \A i \in 1..n - 1 : i - 1 \in 0..n - 1 /\ (i - 1) + 1 = i
      BY <2>4
    <3>3. QED
      BY <3>1, <3>2
  <2>7. PICK g : g = <<"serial">> \o f
    OBVIOUS
  <2>8. /\ g \in Seq(Cells) /\ Len(g) = n - 1 /\ g[1] = "serial"
        /\ \A q \in 1..Len(f) : g[1 + q] = f[q]
    <3>1. <<"serial">> \in Seq(Cells) /\ Len(<<"serial">>) = 1 /\ <<"serial">>[1] = "serial"
      <4>1. "serial" \in Cells
        BY DEF Cells, Words
      <4>2. QED
        BY <4>1
    <3>2. /\ g \in Seq(Cells) /\ Len(g) = 1 + Len(f)
          /\ \A i \in 1..1 : g[i] = <<"serial">>[i]
          /\ \A q \in 1..Len(f) : g[1 + q] = f[q]
      BY <2>4, <2>7, <3>1, Concat
    <3>3. QED
      BY <2>4, <3>1, <3>2
  <2>9. \A i \in 1..n - 1 : g[i] = v[i]
    <3>1. TAKE i \in 1..n - 1
    <3>2. i + 1 \in 1..n /\ (i + 1) - 1 = i
      BY <2>4
    <3>3. v[i] = All(MineOf(ph))[i + 1]
      BY <2>5, <3>2
    <3>4. CASE i = 1
      BY <2>4, <2>8, <3>3, <3>4
    <3>5. CASE i # 1
      <4>1. i - 1 \in 1..Len(f) /\ 2 + (i - 1) = i + 1 /\ 1 + (i - 1) = i
        BY <2>4, <3>5
      <4>2. QED
        BY <2>4, <2>8, <3>3, <4>1
    <3>6. QED
      BY <3>4, <3>5
  <2>10. [i \in 1..testArgc |-> testArgv[i - 1]] = g
    <3>1. testArgc = n - 1 /\ n - 1 \in Nat
      BY <2>2, <2>4 DEF testArgc
    <3>2. g = [i \in 1..n - 1 |-> g[i]]
      BY <2>8
    <3>3. QED
      BY <2>6, <2>9, <3>1, <3>2
  <2>11. FoundTo(ph, Len(ph) + 1) = {Letters[p[1]][1] : p \in ToSet(ph) \cap FitPhrases}
    <3>1. \A i \in DOMAIN ph : i < Len(ph) + 1
      BY <2>3, TypedWords
    <3>2. QED
      BY <3>1 DEF FoundTo, ToSet
  <2>12. mine = MineOf(typed)
    BY DEF mine, MineOf
  <2>13. QED
    BY <2>2, <2>3, <2>7, <2>10, <2>11, <2>12
<1>2. QED
  BY <1>1, ArgsInvInit, ArgsInvNext, PTL DEF Spec

------------------------------------------------------------------------------
(* What the lines of the files say.                                         *)

ALine == Seq(STRING) \ {<<>>}
LinesFrom(ph) == [i \in DOMAIN ph |-> LinesOf(ph[i])]

LEMMA LinesTypes ==
  ASSUME NEW ph \in CommandLines
  PROVE  /\ LinesFrom(ph) \in Seq(Seq(ALine)) /\ Len(LinesFrom(ph)) = Len(ph)
         /\ \A i \in 1..Len(ph) : LinesFrom(ph)[i] = LinesOf(ph[i]) /\ LinesOf(ph[i]) \in Seq(ALine)
<1>1. \A p : LinesOf(p) \in Seq(ALine)
  <2>1. <<>> \in Seq(ALine)
    OBVIOUS
  <2>2. QED
    BY <2>1, FilesAssumption DEF LinesOf, ALine
<1>2. DOMAIN ph = 1..Len(ph) /\ Len(ph) \in Nat
  BY TypedWords
<1>3. LinesFrom(ph) \in [1..Len(ph) -> Seq(ALine)]
  BY <1>1, <1>2 DEF LinesFrom
<1>4. LinesFrom(ph) \in Seq(Seq(ALine)) /\ Len(LinesFrom(ph)) = Len(ph)
  BY <1>2, <1>3, FunctionIsSeq
<1>5. \A i \in 1..Len(ph) : LinesFrom(ph)[i] = LinesOf(ph[i])
  BY <1>2 DEF LinesFrom
<1>6. QED
  BY <1>1, <1>4, <1>5

\* Only -c has lines.
LEMMA NoLines ==
  ASSUME NEW p, p[1] \in DOMAIN Letters => Letters[p[1]][1] # "c"
  PROVE  LinesOf(p) = <<>>
<1>1. FileOf(p) = Null
  BY DEF FileOf
<1>2. Null \notin DOMAIN Files
  BY ArgsAssumption, FilesAssumption
<1>3. QED
  BY <1>1, <1>2 DEF LinesOf

------------------------------------------------------------------------------

FirstTwo(ln) == <<ln[1], ln[2]>>
Numbers(ln) == [k \in 1..3 |-> Number[ln[2 + k]]]
LastOf(lines, e) == CHOOSE k \in Naming(lines, e) : \A m \in Naming(lines, e) : m <= k

LEMMA WrittenAt ==
  ASSUME NEW lines
  PROVE  /\ DOMAIN Written(lines) = {e \in Entries : Naming(lines, e) # {}}
         /\ \A e \in DOMAIN Written(lines) : Written(lines)[e] = Scheduled(Numbers(lines[LastOf(lines, e)]))
         /\ Written(lines) = [e \in DOMAIN Written(lines) |-> Written(lines)[e]]
BY DEF Written, Numbers, LastOf

LEMMA LastIsLast ==
  ASSUME NEW lines, NEW e, NEW k \in Naming(lines, e), \A m \in Naming(lines, e) : m <= k,
         Naming(lines, e) \subseteq Nat
  PROVE  LastOf(lines, e) = k
<1>1. PICK x : x = LastOf(lines, e)
  OBVIOUS
<1>2. x \in Naming(lines, e) /\ \A m \in Naming(lines, e) : m <= x
  BY <1>1 DEF LastOf
<1>3. x <= k /\ k <= x /\ x \in Nat /\ k \in Nat
  BY <1>2
<1>4. QED
  BY <1>1, <1>3

\* Another line ...
LEMMA Another ==
  ASSUME NEW lines \in Seq(ALine), NEW ln \in ALine, NEW more, more = Append(lines, ln)
  PROVE  /\ Len(lines) \in Nat /\ DOMAIN lines = 1..Len(lines) /\ DOMAIN more = 1..Len(lines) + 1
         /\ more[Len(lines) + 1] = ln /\ \A i \in 1..Len(lines) : more[i] = lines[i]
OBVIOUS

LEMMA NamingSome ==
  ASSUME NEW lines \in Seq(ALine), NEW e
  PROVE  Naming(lines, e) \subseteq 1..Len(lines)
BY DEF Naming

LEMMA NamingAnother ==
  ASSUME NEW lines \in Seq(ALine), NEW ln \in ALine, NEW more, more = Append(lines, ln), NEW e,
         NEW q
  PROVE  q \in Naming(more, e) <=>
           q \in Naming(lines, e) \/ (q = Len(lines) + 1 /\ ~IsComment(ln) /\ FirstTwo(ln) = e)
<1>1. /\ Len(lines) \in Nat /\ DOMAIN lines = 1..Len(lines) /\ DOMAIN more = 1..Len(lines) + 1
      /\ more[Len(lines) + 1] = ln /\ \A i \in 1..Len(lines) : more[i] = lines[i]
  BY Another
<1>2. PICK n : n = Len(lines) + 1
  OBVIOUS
<1>3. q \in Naming(more, e) <=> q \in 1..n /\ ~IsComment(more[q]) /\ FirstTwo(more[q]) = e
  BY <1>1, <1>2 DEF Naming, FirstTwo
<1>4. q \in Naming(lines, e) <=> q \in 1..Len(lines) /\ ~IsComment(lines[q]) /\ FirstTwo(lines[q]) = e
  BY <1>1 DEF Naming, FirstTwo
<1>5. q \in 1..n <=> q \in 1..Len(lines) \/ q = n
  BY <1>1, <1>2
<1>6. q \in 1..Len(lines) => more[q] = lines[q] /\ q # n
  BY <1>1, <1>2
<1>7. more[n] = ln
  BY <1>1, <1>2
<1>8. QED
  BY <1>2, <1>3, <1>4, <1>5, <1>6, <1>7

LEMMA NamingSame ==
  ASSUME NEW lines \in Seq(ALine), NEW ln \in ALine, NEW e
  PROVE  (IsComment(ln) \/ FirstTwo(ln) # e) => Naming(Append(lines, ln), e) = Naming(lines, e)
<1>1. SUFFICES ASSUME IsComment(ln) \/ FirstTwo(ln) # e
               PROVE  Naming(Append(lines, ln), e) = Naming(lines, e)
  OBVIOUS
<1>2. PICK more : more = Append(lines, ln)
  OBVIOUS
<1>3. \A i : i \in Naming(more, e) <=> i \in Naming(lines, e)
  BY <1>1, <1>2, NamingAnother
<1>4. QED
  BY <1>2, <1>3

LEMMA LastKept ==
  ASSUME NEW lines \in Seq(ALine), NEW e, Naming(lines, e) # {},
         NEW more, Naming(more, e) = Naming(lines, e), \A i \in 1..Len(lines) : more[i] = lines[i]
  PROVE  LastOf(more, e) = LastOf(lines, e) /\ more[LastOf(more, e)] = lines[LastOf(lines, e)]
<1>1. LastOf(more, e) = LastOf(lines, e)
  BY DEF LastOf
<1>2. Naming(lines, e) \in SUBSET (1..Len(lines)) /\ Len(lines) \in Nat
  BY DEF Naming
<1>3. PICK x \in Naming(lines, e) : \A y \in Naming(lines, e) : y <= x
  BY <1>2, GreatestOf
<1>4. LastOf(lines, e) = x
  BY <1>2, <1>3, LastIsLast
<1>5. QED
  BY <1>1, <1>2, <1>4

\* ... changes nothing, if it is a comment, ...
LEMMA WrittenComment ==
  ASSUME NEW lines \in Seq(ALine), NEW ln \in ALine, IsComment(ln)
  PROVE  Written(Append(lines, ln)) = Written(lines)
<1>1. PICK more : more = Append(lines, ln)
  OBVIOUS
<1>2. (\A e : Naming(more, e) = Naming(lines, e)) /\ \A i \in 1..Len(lines) : more[i] = lines[i]
  <2>1. \A e : Naming(more, e) = Naming(lines, e)
    <3>1. TAKE e
    <3>2. (IsComment(ln) \/ FirstTwo(ln) # e) => Naming(Append(lines, ln), e) = Naming(lines, e)
      BY NamingSame
    <3>3. QED
      BY <1>1, <3>2
  <2>2. QED
    BY <1>1, <2>1, Another
<1>3. DOMAIN Written(more) = DOMAIN Written(lines)
  BY <1>2, WrittenAt
<1>4. \A e \in DOMAIN Written(lines) : Written(more)[e] = Written(lines)[e]
  <2>1. TAKE e \in DOMAIN Written(lines)
  <2>2. Naming(lines, e) # {}
    BY <2>1, WrittenAt
  <2>3. more[LastOf(more, e)] = lines[LastOf(lines, e)]
    BY <1>2, <2>2, LastKept
  <2>4. Written(lines)[e] = Scheduled(Numbers(lines[LastOf(lines, e)]))
    BY <2>1, WrittenAt
  <2>5. Written(more)[e] = Scheduled(Numbers(more[LastOf(more, e)]))
    BY <1>3, <2>1, WrittenAt
  <2>6. QED
    BY <2>3, <2>4, <2>5
<1>5. QED
  BY <1>1, <1>3, <1>4, WrittenAt

\* ... or schedules the entry that it names.
NamedBy(ln) == {e \in Entries : e = FirstTwo(ln)}
WithNamed(t, named, sz) == [e \in DOMAIN t \cup named |-> IF e \in named THEN Scheduled(sz) ELSE t[e]]
LEMMA WrittenRecord ==
  ASSUME NEW lines \in Seq(ALine), NEW ln \in ALine, ~IsComment(ln)
  PROVE  Written(Append(lines, ln)) = WithNamed(Written(lines), NamedBy(ln), Numbers(ln))
<1>1. PICK more, n, t : more = Append(lines, ln) /\ n = Len(lines) + 1 /\ t = Written(lines)
  OBVIOUS
<1>2. /\ Len(lines) \in Nat /\ n \in Nat /\ more[n] = ln /\ \A i \in 1..Len(lines) : more[i] = lines[i]
  BY <1>1, Another
<1>3. PICK e0 : e0 = FirstTwo(ln)
  OBVIOUS
<1>4. \A e : e # e0 => Naming(more, e) = Naming(lines, e)
  <2>1. TAKE e
  <2>2. (IsComment(ln) \/ FirstTwo(ln) # e) => Naming(Append(lines, ln), e) = Naming(lines, e)
    BY NamingSame
  <2>3. QED
    BY <1>1, <1>3, <2>2
<1>5. LastOf(more, e0) = n /\ Naming(more, e0) # {}
  <2>1. \A i : i \in Naming(more, e0) => i \in Naming(lines, e0) \/ i = n
    BY <1>1, NamingAnother
  <2>2. n \in Naming(more, e0)
    BY <1>1, <1>3, NamingAnother
  <2>3. \A i \in Naming(lines, e0) : i \in Nat /\ i <= n
    <3>1. Naming(lines, e0) \subseteq 1..Len(lines)
      BY NamingSome
    <3>2. QED
      BY <1>1, <1>2, <3>1
  <2>4. Naming(more, e0) \subseteq Nat /\ \A m \in Naming(more, e0) : m <= n
    BY <1>2, <2>1, <2>3
  <2>5. QED
    BY <2>2, <2>4, LastIsLast
<1>6. DOMAIN Written(more) = DOMAIN t \cup NamedBy(ln)
  <2>1. \A e : Naming(more, e) # {} <=> Naming(lines, e) # {} \/ e = e0
    BY <1>4, <1>5
  <2>2. DOMAIN Written(more) = {e \in Entries : Naming(more, e) # {}}
    BY WrittenAt
  <2>3. DOMAIN t = {e \in Entries : Naming(lines, e) # {}}
    BY <1>1, WrittenAt
  <2>4. QED
    BY <1>3, <2>1, <2>2, <2>3 DEF NamedBy
<1>7. \A e \in DOMAIN Written(more) :
        Written(more)[e] = IF e \in NamedBy(ln) THEN Scheduled(Numbers(ln)) ELSE t[e]
  <2>1. TAKE e \in DOMAIN Written(more)
  <2>2. Written(more)[e] = Scheduled(Numbers(more[LastOf(more, e)]))
    BY <2>1, WrittenAt
  <2>3. CASE e \in NamedBy(ln)
    BY <1>2, <1>3, <1>5, <2>2, <2>3 DEF NamedBy
  <2>4. CASE e \notin NamedBy(ln)
    <3>1. e \in DOMAIN t /\ e # e0
      <4>1. e \in Entries
        BY <2>1, WrittenAt
      <4>2. QED
        BY <1>3, <1>6, <2>1, <2>4, <4>1 DEF NamedBy
    <3>2. Naming(more, e) = Naming(lines, e) /\ Naming(lines, e) # {}
      BY <1>1, <1>4, <3>1, WrittenAt
    <3>3. more[LastOf(more, e)] = lines[LastOf(lines, e)]
      BY <1>2, <3>2, LastKept
    <3>4. t[e] = Scheduled(Numbers(lines[LastOf(lines, e)]))
      BY <1>1, <3>1, WrittenAt
    <3>5. QED
      BY <2>2, <2>4, <3>3, <3>4
  <2>5. QED
    BY <2>3, <2>4
<1>8. Written(more) = [e \in DOMAIN Written(more) |-> Written(more)[e]]
  BY WrittenAt
<1>9. QED
  BY <1>1, <1>6, <1>7, <1>8 DEF WithNamed

LEMMA WrittenEmpty == Written(<<>>) = <<>>
<1>1. \A e : Naming(<<>>, e) = {}
  BY DEF Naming
<1>2. DOMAIN Written(<<>>) = {}
  BY <1>1, WrittenAt
<1>3. QED
  BY <1>2, WrittenAt

------------------------------------------------------------------------------
(* The words of a file: fscanf takes a line, or a comment that keeps step.  *)

LEMMA EntryOfPorts ==
  ASSUME NEW e \in Entries
  PROVE  e[1] \in Looped /\ e = <<e[1], e[2]>>
<1>1. ToSet(Async) \cup ToSet(Sync) \subseteq Looped
  <2>1. ToSet(Async \o Sync) = ToSet(Async) \cup ToSet(Sync)
    <3>1. \A i \in DOMAIN Async : i \in DOMAIN (Async \o Sync) /\ (Async \o Sync)[i] = Async[i]
      BY DEF Async, Sync
    <3>2. \A i \in DOMAIN Sync : i + 4 \in DOMAIN (Async \o Sync) /\ (Async \o Sync)[i + 4] = Sync[i]
      BY DEF Async, Sync
    <3>3. \A i \in DOMAIN (Async \o Sync) : (Async \o Sync)[i] \in ToSet(Async) \cup ToSet(Sync)
      BY DEF Async, Sync, ToSet
    <3>4. QED
      BY <3>1, <3>2, <3>3 DEF ToSet
  <2>2. QED
    BY <2>1 DEF Looped
<1>2. CASE e \in {<<p, p>> : p \in Looped}
  BY <1>2
<1>3. CASE e \in Crossed(Async) \cup Crossed(Sync)
  <2>1. e[1] \in ToSet(Async) \cup ToSet(Sync) /\ e = <<e[1], e[2]>>
    BY <1>3 DEF Crossed, ToSet
  <2>2. QED
    BY <1>1, <2>1
<1>4. QED
  BY <1>2, <1>3 DEF Entries

LEMMA ConcatWords ==
  ASSUME NEW a \in Seq(STRING), NEW b \in Seq(STRING)
  PROVE  /\ a \o b \in Seq(STRING) /\ Len(a) \in Nat /\ Len(b) \in Nat /\ Len(a \o b) = Len(a) + Len(b)
         /\ \A i \in 1..Len(a) : (a \o b)[i] = a[i]
         /\ \A i \in 1..Len(b) : (a \o b)[Len(a) + i] = b[i]
BY Concat

LEMMA ConcatEmpty ==
  ASSUME NEW a \in Seq(STRING), NEW b \in Seq(STRING), a \o b = <<>>
  PROVE  a = <<>> /\ b = <<>>
<1>1. PICK c : c = a \o b /\ c = <<>>
  OBVIOUS
<1>2. Len(c) = 0 /\ Len(c) = Len(a) + Len(b) /\ Len(a) \in Nat /\ Len(b) \in Nat
  BY <1>1, ConcatWords
<1>3. Len(a) = 0 /\ Len(b) = 0
  BY <1>2
<1>4. QED
  BY <1>3

LEMMA Dropped ==
  ASSUME NEW words \in Seq(STRING), NEW n \in Nat, n <= Len(words), NEW x,
         x = SubSeq(words, n + 1, Len(words))
  PROVE  /\ x \in Seq(STRING) /\ Len(x) = Len(words) - n
         /\ \A i \in 1..Len(x) : x[i] = words[n + i]
OBVIOUS

LEMMA WordAndRest ==
  ASSUME NEW s \in Seq(STRING), s # <<>>
  PROVE  /\ Tail(s) \in Seq(STRING) /\ Len(Tail(s)) = Len(s) - 1 /\ Len(s) \in Nat /\ Len(s) >= 1
         /\ s[1] \in STRING /\ \A i \in 1..Len(s) - 1 : Tail(s)[i] = s[i + 1]
         /\ Len(s) = 1 => s = <<s[1]>>
<1>1. /\ Tail(s) \in Seq(STRING) /\ Len(Tail(s)) = Len(s) - 1 /\ Len(s) \in Nat /\ Len(s) >= 1
      /\ s[1] \in STRING
  OBVIOUS
<1>2. \A i \in 1..Len(Tail(s)) : Tail(s)[i] = s[i + 1]
  OBVIOUS
<1>3. Len(s) = 1 => s = <<s[1]>>
  <2>1. SUFFICES ASSUME Len(s) = 1 PROVE s = <<s[1]>>
    OBVIOUS
  <2>2. PICK r : r = <<s[1]>>
    OBVIOUS
  <2>3. r \in Seq(STRING) /\ Len(r) = 1 /\ r[1] = s[1]
    BY <1>1, <2>2
  <2>4. \A i \in 1..Len(s) : s[i] = r[i]
    BY <2>1, <2>3
  <2>5. s = r
    BY <2>1, <2>3, <2>4, SeqEqual
  <2>6. QED
    BY <2>2, <2>5
<1>4. QED
  BY <1>1, <1>2, <1>3

\* A record as ReadRecord takes it from the words of a file.
Got(words, d) == <<words[1], IF Len(words) > 1 THEN words[2] ELSE d[2]>>
SizesRead(words, sz) == [k \in 1..3 |-> IF k <= NumbersAt(words) THEN Number[words[2 + k]] ELSE sz[k]]
NamedIn(got) == IF got[1] \in Marked THEN {} ELSE {e \in Entries : Matches(e, got)}
IsFun(t) == t = [e \in DOMAIN t |-> t[e]]

\* A record, or a comment that looks like one.
LEMMA ReadWhole ==
  ASSUME NEW ln \in Seq(STRING), Len(ln) = 5, \A i \in 3..5 : ln[i] \in DOMAIN Number,
         NEW rest \in Seq(STRING), NEW d, NEW sz,
         NEW t, IsFun(t)
  PROVE  /\ ln \o rest # <<>> /\ AfterRecord(ln \o rest) = rest
         /\ ln[1] \in Marked =>
              WithNamed(t, NamedIn(Got(ln \o rest, d)), SizesRead(ln \o rest, sz)) = t
         /\ ln[1] \notin Marked =>
              WithNamed(t, NamedIn(Got(ln \o rest, d)), SizesRead(ln \o rest, sz)) =
                WithNamed(t, NamedBy(ln), Numbers(ln))
<1>1. PICK words : words = ln \o rest
  OBVIOUS
<1>2. /\ words \in Seq(STRING) /\ Len(words) = 5 + Len(rest) /\ Len(rest) \in Nat
      /\ \A i \in 1..5 : words[i] = ln[i]
      /\ \A i \in 1..Len(rest) : words[5 + i] = rest[i]
  <2>1. /\ words \in Seq(STRING) /\ Len(words) = Len(ln) + Len(rest) /\ Len(rest) \in Nat
        /\ \A i \in 1..Len(ln) : words[i] = ln[i]
        /\ \A i \in 1..Len(rest) : words[Len(ln) + i] = rest[i]
    BY <1>1, ConcatWords
  <2>2. QED
    BY <2>1
<1>3. NumbersAt(words) = 3
  <2>1. 3 <= Len(words) /\ 4 <= Len(words) /\ 5 <= Len(words)
    BY <1>2
  <2>2. words[3] \in DOMAIN Number /\ words[4] \in DOMAIN Number /\ words[5] \in DOMAIN Number
    BY <1>2
  <2>3. QED
    BY <2>1, <2>2 DEF NumbersAt
<1>4. AfterRecord(words) = rest
  <2>1. AfterRecord(words) = SubSeq(words, 6, Len(words))
    BY <1>3 DEF AfterRecord
  <2>2. PICK x \in Seq(STRING) : /\ x = SubSeq(words, 6, Len(words)) /\ Len(x) = Len(rest)
                                 /\ \A i \in 1..Len(x) : x[i] = words[5 + i]
    <3>1. 5 \in Nat /\ 5 <= Len(words) /\ 6 = 5 + 1
      BY <1>2
    <3>2. PICK x : x = SubSeq(words, 5 + 1, Len(words))
      OBVIOUS
    <3>3. x \in Seq(STRING) /\ Len(x) = Len(words) - 5 /\ \A i \in 1..Len(x) : x[i] = words[5 + i]
      BY <1>2, <3>1, <3>2, Dropped
    <3>4. Len(words) - 5 = Len(rest)
      BY <1>2
    <3>5. QED
      BY <3>1, <3>2, <3>3, <3>4
  <2>3. x = rest
    BY <1>2, <2>2, SeqEqual
  <2>4. QED
    BY <2>1, <2>2, <2>3
<1>5. Got(words, d) = FirstTwo(ln)
  BY <1>2 DEF Got, FirstTwo
<1>6. SizesRead(words, sz) = Numbers(ln)
  <2>1. \A k \in 1..3 : k <= 3 /\ words[2 + k] = ln[2 + k]
    BY <1>2
  <2>2. QED
    BY <1>3, <2>1 DEF SizesRead, Numbers
<1>7. ln[1] \in Marked => NamedIn(Got(words, d)) = {}
  BY <1>5 DEF NamedIn, FirstTwo
<1>8. ln[1] \notin Marked => NamedIn(Got(words, d)) = NamedBy(ln)
  BY <1>5 DEF NamedIn, NamedBy, FirstTwo, Matches
<1>9. WithNamed(t, {}, SizesRead(words, sz)) = t
  BY DEF WithNamed, IsFun
<1>10. words # <<>>
  BY <1>2
<1>11. QED
  BY <1>1, <1>4, <1>6, <1>7, <1>8, <1>9, <1>10

\* What is left of a comment that no record can be: two by two the words go, the second pair
\* without the sign of its first.
Skippable(u) ==
  /\ u \in Seq(STRING) /\ \E h \in Nat : Len(u) = 2 * h
  /\ \A i \in 1..Len(u) : u[i] \notin DOMAIN Number \cup Looped
  /\ \A i \in 2..Len(u) : u[i] \in DOMAIN Letters =>
       Len(Letters[u[i]]) = 1 /\ Letters[u[i]][1] \notin DOMAIN Number \cup Looped

LEMMA ReadPair ==
  ASSUME NEW u, Skippable(u), u # <<>>, NEW rest \in Seq(STRING),
         rest # <<>> => rest[1] \notin DOMAIN Number \cup DOMAIN Letters,
         NEW d, NEW sz, NEW t, IsFun(t)
  PROVE  /\ WithNamed(t, NamedIn(Got(u \o rest, d)), SizesRead(u \o rest, sz)) = t
         /\ \E v : Skippable(v) /\ AfterRecord(u \o rest) = v \o rest
<1>1. PICK words : words = u \o rest
  OBVIOUS
<1>2. /\ words \in Seq(STRING) /\ Len(words) = Len(u) + Len(rest) /\ Len(rest) \in Nat /\ Len(u) \in Nat
      /\ \A i \in 1..Len(u) : words[i] = u[i]
      /\ \A i \in 1..Len(rest) : words[Len(u) + i] = rest[i]
  <2>1. u \in Seq(STRING)
    BY DEF Skippable
  <2>2. QED
    BY <1>1, <2>1, ConcatWords
<1>3. PICK g \in Nat, b \in Nat : b = 2 * g /\ Len(u) = b + 2 /\ (g = 0 <=> b = 0)
  <2>1. PICK h \in Nat : Len(u) = 2 * h
    BY DEF Skippable
  <2>2. h # 0
    BY <1>2, <2>1 DEF Skippable
  <2>3. h - 1 \in Nat /\ 2 * (h - 1) \in Nat /\ Len(u) = 2 * (h - 1) + 2 /\ (h - 1 = 0 <=> 2 * (h - 1) = 0)
    BY <2>1, <2>2
  <2>4. QED
    BY <2>3
<1>4. words[1] = u[1] /\ u[1] \notin DOMAIN Number \cup Looped
  BY <1>2, <1>3 DEF Skippable
<1>5. NamedIn(Got(words, d)) = {}
  <2>1. Got(words, d)[1] = u[1]
    BY <1>4 DEF Got
  <2>2. \A e \in Entries : e[1] # u[1]
    BY <1>4, EntryOfPorts
  <2>3. \A e \in Entries : e # Got(words, d)
    BY <2>1, <2>2
  <2>4. QED
    BY <2>3 DEF NamedIn, Matches
<1>6. WithNamed(t, NamedIn(Got(words, d)), SizesRead(words, sz)) = t
  BY <1>5 DEF WithNamed, IsFun
<1>7. NumbersAt(words) = 0
  <2>1. 3 <= Len(words) => words[3] \notin DOMAIN Number
    <3>1. CASE b = 0
      <4>1. Len(u) = 2
        BY <1>3, <3>1
      <4>2. 3 <= Len(words) => rest # <<>> /\ words[2 + 1] = rest[1]
        BY <1>2, <4>1
      <4>3. QED
        BY <4>2
    <3>2. CASE b # 0
      <4>1. 3 \in 1..Len(u)
        BY <1>3, <3>2
      <4>2. words[3] = u[3] /\ u[3] \notin DOMAIN Number
        BY <1>2, <4>1 DEF Skippable
      <4>3. QED
        BY <4>2
    <3>3. QED
      BY <3>1, <3>2
  <2>2. QED
    BY <2>1 DEF NumbersAt
<1>8. PICK x \in Seq(STRING) :
        /\ x = SubSeq(words, 3, Len(words)) /\ Len(x) = b + Len(rest) /\ (x = <<>> => Len(x) = 0)
        /\ \A i \in 1..Len(x) : x[i] = words[2 + i]
  <2>1. 2 \in Nat /\ 2 <= Len(words) /\ 3 = 2 + 1 /\ Len(words) - 2 = b + Len(rest)
    BY <1>2, <1>3
  <2>2. PICK x : x = SubSeq(words, 2 + 1, Len(words))
    OBVIOUS
  <2>3. x \in Seq(STRING) /\ Len(x) = Len(words) - 2 /\ \A i \in 1..Len(x) : x[i] = words[2 + i]
    BY <1>2, <2>1, <2>2, Dropped
  <2>4. QED
    BY <2>1, <2>2, <2>3
<1>9. AfterRecord(words) = Unsigned(x)
  BY <1>7, <1>8 DEF AfterRecord
<1>10. /\ \A i \in 1..b : x[i] = u[2 + i] /\ 2 + i \in 1..Len(u) /\ i \in 1..Len(x)
      /\ \A i \in 1..Len(rest) : x[b + i] = rest[i]
  <2>1. \A i \in 1..b : i \in 1..Len(x) /\ 2 + i \in 1..Len(u)
    BY <1>2, <1>3, <1>8
  <2>2. \A i \in 1..b : x[i] = u[2 + i]
    BY <1>2, <1>8, <2>1
  <2>3. \A i \in 1..Len(rest) : x[b + i] = rest[i]
    <3>1. TAKE i \in 1..Len(rest)
    <3>2. b + i \in 1..Len(x) /\ 2 + (b + i) = Len(u) + i
      BY <1>2, <1>3, <1>8
    <3>3. QED
      BY <1>2, <1>8, <3>2
  <2>4. QED
    BY <2>1, <2>2, <2>3
<1> DEFINE v == [i \in 1..b |-> IF i = 1 /\ x[1] \in DOMAIN Letters THEN Letters[x[1]][1] ELSE x[i]]
<1>11. x # <<>> /\ x[1] \in DOMAIN Letters =>
         b # 0 /\ Len(Letters[x[1]]) = 1 /\ Letters[x[1]] \in Seq(STRING)
         /\ Letters[x[1]][1] \in STRING /\ Letters[x[1]][1] \notin DOMAIN Number \cup Looped
  <2>1. SUFFICES ASSUME x # <<>>, x[1] \in DOMAIN Letters
                 PROVE  /\ b # 0 /\ Len(Letters[x[1]]) = 1 /\ Letters[x[1]] \in Seq(STRING)
                        /\ Letters[x[1]][1] \in STRING /\ Letters[x[1]][1] \notin DOMAIN Number \cup Looped
    OBVIOUS
  <2>2. b # 0
    <3>1. SUFFICES ASSUME b = 0 PROVE FALSE
      OBVIOUS
    <3>2. Len(rest) # 0 /\ rest # <<>>
      BY <1>2, <1>8, <2>1, <3>1
    <3>3. 1 \in 1..Len(rest) /\ b + 1 = 1
      BY <1>2, <3>1, <3>2
    <3>4. x[1] = rest[1]
      BY <1>10, <3>3
    <3>5. QED
      BY <2>1, <3>2, <3>4
  <2>3. 1 \in 1..b /\ 2 + 1 = 3
    BY <2>2
  <2>4. x[1] = u[3] /\ 3 \in 2..Len(u)
    BY <1>2, <1>10, <2>3
  <2>5. Len(Letters[x[1]]) = 1 /\ Letters[x[1]][1] \notin DOMAIN Number \cup Looped
    BY <2>1, <2>4 DEF Skippable
  <2>6. Letters[x[1]] \in Seq(STRING)
    BY <2>1, LettersOf
  <2>7. QED
    BY <2>2, <2>5, <2>6
<1>12. v \in Seq(STRING) /\ Len(v) = b
  <2>1. b \in Nat
    OBVIOUS
  <2>2. \A i \in 1..b : v[i] \in STRING
    <3>1. TAKE i \in 1..b
    <3>2. x[i] \in STRING /\ x # <<>>
      <4>1. i \in 1..Len(x)
        BY <1>10
      <4>2. QED
        BY <1>8, <4>1
    <3>3. QED
      BY <1>11, <3>2
  <2>3. v \in [1..b -> STRING]
    BY <2>2
  <2>4. QED
    BY <2>1, <2>3, FunctionIsSeq
<1>13. Skippable(v)
  <2>1. \A i \in 1..b : v[i] \notin DOMAIN Number \cup Looped
    <3>1. TAKE i \in 1..b
    <3>2. x[i] = u[2 + i] /\ 2 + i \in 1..Len(u) /\ x # <<>>
      <4>1. x[i] = u[2 + i] /\ 2 + i \in 1..Len(u) /\ i \in 1..Len(x)
        BY <1>10
      <4>2. x # <<>>
        BY <1>8, <4>1
      <4>3. QED
        BY <4>1, <4>2
    <3>3. x[i] \notin DOMAIN Number \cup Looped
      BY <3>2 DEF Skippable
    <3>4. QED
      BY <1>11, <3>2, <3>3
  <2>2. \A i \in 2..b : v[i] \in DOMAIN Letters =>
          Len(Letters[v[i]]) = 1 /\ Letters[v[i]][1] \notin DOMAIN Number \cup Looped
    <3>1. TAKE i \in 2..b
    <3>2. i \in 1..b /\ i # 1 /\ 2 + i \in 2..Len(u)
      BY <1>2, <1>3
    <3>3. v[i] = u[2 + i]
      BY <1>10, <3>2
    <3>4. QED
      BY <3>2, <3>3 DEF Skippable
  <2>3. \E h \in Nat : Len(v) = 2 * h
    BY <1>3, <1>12
  <2> HIDE DEF v
  <2>4. QED
    BY <1>12, <2>1, <2>2, <2>3 DEF Skippable
<1>14. Unsigned(x) = v \o rest
  <2>1. PICK w \in Seq(STRING) :
          /\ w = v \o rest /\ Len(w) = b + Len(rest)
          /\ \A i \in 1..b : w[i] = v[i]
          /\ \A i \in 1..Len(rest) : w[b + i] = rest[i]
    <3> HIDE DEF v
    <3>1. PICK w : w = v \o rest
      OBVIOUS
    <3>2. /\ w \in Seq(STRING) /\ Len(w) = Len(v) + Len(rest)
          /\ \A i \in 1..Len(v) : w[i] = v[i]
          /\ \A i \in 1..Len(rest) : w[Len(v) + i] = rest[i]
      BY <1>12, <3>1, ConcatWords
    <3>3. QED
      BY <1>12, <3>1, <3>2
  <2>2. \A i \in 1..Len(x) : i \in 1..b \/ \E j \in 1..Len(rest) : i = b + j
    <3>1. TAKE i \in 1..Len(x)
    <3>2. CASE i > b
      <4>1. i - b \in 1..Len(rest) /\ i = b + (i - b)
        BY <1>2, <1>8, <3>2
      <4>2. QED
        BY <4>1
    <3>3. QED
      BY <3>2
  <2>3. CASE x # <<>> /\ x[1] \in DOMAIN Letters
    <3>1. PICK c \in STRING : Letters[x[1]] = <<c>> /\ c = Letters[x[1]][1]
      <4>1. PICK s \in Seq(STRING) : s = Letters[x[1]] /\ Len(s) = 1 /\ s[1] \in STRING /\ s # <<>>
        BY <1>11, <2>3
      <4>2. s = <<s[1]>>
        BY <4>1, WordAndRest
      <4>3. QED
        BY <4>1, <4>2
    <3>2. Unsigned(x) = <<c>> \o Tail(x)
      BY <2>3, <3>1 DEF Unsigned
    <3>3. PICK y \in Seq(STRING) : /\ y = Tail(x) /\ Len(y) = Len(x) - 1 /\ Len(x) >= 1
                                   /\ \A i \in 1..Len(y) : y[i] = x[i + 1]
      <4>1. x # <<>>
        BY <2>3
      <4>2. /\ Tail(x) \in Seq(STRING) /\ Len(Tail(x)) = Len(x) - 1 /\ Len(x) \in Nat /\ Len(x) >= 1
            /\ \A i \in 1..Len(x) - 1 : Tail(x)[i] = x[i + 1]
        BY <4>1, WordAndRest
      <4>3. QED
        BY <4>2
    <3>4. PICK z \in Seq(STRING) : /\ z = <<c>> \o y /\ Len(z) = Len(x) /\ z[1] = c
                                   /\ \A i \in 1..Len(y) : z[1 + i] = y[i]
      <4>1. PICK z, r : z = r \o y /\ r = <<c>>
        OBVIOUS
      <4>2. r \in Seq(STRING) /\ Len(r) = 1 /\ r[1] = c
        BY <1>11, <2>3, <3>1, <4>1
      <4>3. /\ z \in Seq(STRING) /\ Len(z) = 1 + Len(y) /\ z[1] = c
            /\ \A i \in 1..Len(y) : z[1 + i] = y[i]
        <5>1. /\ z \in Seq(STRING) /\ Len(z) = Len(r) + Len(y)
              /\ \A i \in 1..Len(r) : z[i] = r[i]
              /\ \A i \in 1..Len(y) : z[Len(r) + i] = y[i]
          <6>1. /\ r \o y \in Seq(STRING) /\ Len(r \o y) = Len(r) + Len(y)
                /\ \A i \in 1..Len(r) : (r \o y)[i] = r[i]
                /\ \A i \in 1..Len(y) : (r \o y)[Len(r) + i] = y[i]
            BY <4>2, ConcatWords
          <6>2. QED
            BY <4>1, <6>1
        <5>2. 1 \in 1..Len(r)
          BY <4>2
        <5>3. QED
          BY <4>2, <5>1, <5>2
      <4>4. Len(z) = Len(x) /\ z = <<c>> \o y
        BY <3>3, <4>1, <4>3
      <4>5. QED
        BY <4>3, <4>4
    <3>5. \A i \in 1..Len(x) : i # 1 => z[i] = x[i]
      <4>1. TAKE i \in 1..Len(x)
      <4>2. i # 1 => i - 1 \in 1..Len(y) /\ 1 + (i - 1) = i /\ (i - 1) + 1 = i
        BY <3>3
      <4>3. QED
        BY <3>3, <3>4, <4>2
    <3>6. \A i \in 1..Len(x) : z[i] = w[i]
      <4>1. TAKE i \in 1..Len(x)
      <4>2. CASE i = 1
        <5>1. 1 \in 1..b
          BY <1>11, <2>3
        <5>2. w[1] = v[1] /\ v[1] = c
          BY <2>1, <2>3, <3>1, <5>1
        <5>3. QED
          BY <3>4, <4>2, <5>2
      <4>3. CASE i # 1 /\ i \in 1..b
        BY <2>1, <3>5, <4>3
      <4>4. CASE \E j \in 1..Len(rest) : i = b + j
        <5>1. PICK j \in 1..Len(rest) : i = b + j
          BY <4>4
        <5>2. i # 1
          BY <1>11, <2>3, <5>1
        <5>3. QED
          BY <1>10, <2>1, <3>5, <5>1, <5>2
      <4>5. QED
        BY <2>2, <4>2, <4>3, <4>4
    <3>7. z = w
      BY <1>8, <2>1, <3>4, <3>6, SeqEqual
    <3>8. QED
      BY <2>1, <3>2, <3>3, <3>4, <3>7
  <2>4. CASE ~(x # <<>> /\ x[1] \in DOMAIN Letters)
    <3>1. Unsigned(x) = x
      BY <2>4 DEF Unsigned
    <3>2. \A i \in 1..Len(x) : x[i] = w[i]
      <4>1. TAKE i \in 1..Len(x)
      <4>2. CASE i \in 1..b
        <5>1. x # <<>>
          BY <1>8
        <5>2. v[i] = x[i]
          BY <2>4, <4>2, <5>1
        <5>3. QED
          BY <2>1, <4>2, <5>2
      <4>3. CASE \E j \in 1..Len(rest) : i = b + j
        BY <1>10, <2>1, <4>3
      <4>4. QED
        BY <2>2, <4>2, <4>3
    <3>3. x = w
      BY <1>8, <2>1, <3>2, SeqEqual
    <3>4. QED
      BY <2>1, <3>1, <3>3
  <2>5. QED
    BY <2>3, <2>4
<1>15. QED
  BY <1>1, <1>6, <1>9, <1>13, <1>14

------------------------------------------------------------------------------
(* The options of serialFit, and what is scheduled between two of them.     *)

\* What the test is called with, and where getopt is in it: between two phrases, or among the
\* letters of one.
TestArgs(ph, v, n) ==
  /\ n = 1 + Len(FlattenSeq(MineOf(ph)))
  /\ \A q \in 1..Len(FlattenSeq(MineOf(ph))) : v[q] = FlattenSeq(MineOf(ph))[q]
IndexOf(ph, k) == 1 + Len(Before(MineOf(ph), k))
BetweenAt(ph, ind, letters, k) ==
  k \in 1..Len(ph) + 1 /\ letters = <<>> /\ ind = IndexOf(ph, k)
WithinAt(ph, ind, letters, k) ==
  /\ k \in 1..Len(ph) /\ ph[k] \notin FitPhrases
  /\ Len(ph[k]) = 1 /\ ph[k][1] \in DOMAIN Letters /\ Letters[ph[k][1]][1] \notin Valued
  /\ letters \in Seq(STRING) /\ letters # <<>> /\ ToSet(letters) \cap Valued = {}
  /\ ind = IndexOf(ph, k)
WrittenTo(ph, k) == Written(Before(LinesFrom(ph), k))
OptAt(ph, ind, letters, t, k) ==
  t = WrittenTo(ph, k) /\ (BetweenAt(ph, ind, letters, k) \/ WithinAt(ph, ind, letters, k))

LEMMA NextLines ==
  ASSUME NEW ph \in CommandLines, NEW k \in 1..Len(ph)
  PROVE  /\ Before(LinesFrom(ph), k + 1) = Before(LinesFrom(ph), k) \o LinesOf(ph[k])
         /\ Before(LinesFrom(ph), k) \in Seq(ALine) /\ LinesOf(ph[k]) \in Seq(ALine)
         /\ LinesOf(ph[k]) = <<>> => WrittenTo(ph, k + 1) = WrittenTo(ph, k)
<1>1. PICK s \in Seq(Seq(ALine)) : s = LinesFrom(ph) /\ Len(s) = Len(ph) /\ s[k] = LinesOf(ph[k])
  BY LinesTypes
<1>2. k \in 1..Len(s)
  BY <1>1
<1>3. Before(s, k + 1) = Before(s, k) \o s[k] /\ Before(s, k) \in Seq(ALine) /\ s[k] \in Seq(ALine)
  BY <1>2, FlatSplit
<1>4. s[k] = <<>> => Before(s, k) \o s[k] = Before(s, k)
  BY <1>3
<1>5. QED
  BY <1>1, <1>3, <1>4 DEF WrittenTo

LEMMA NextIndex ==
  ASSUME NEW ph \in CommandLines, NEW k \in 1..Len(ph)
  PROVE  /\ IndexOf(ph, k) \in Nat /\ IndexOf(ph, k) >= 1
         /\ IndexOf(ph, k + 1) = IndexOf(ph, k) + IF ph[k] \in FitPhrases THEN 0 ELSE Len(ph[k])
<1>1. PICK s \in Seq(Seq(Cells)) :
        /\ s = MineOf(ph) /\ Len(s) = Len(ph)
        /\ s[k] = IF ph[k] \in FitPhrases THEN <<>> ELSE ph[k]
  BY MineWords
<1>2. k \in 1..Len(s)
  BY <1>1
<1>3. /\ Len(Before(s, k)) \in Nat /\ Len(s[k]) \in Nat
      /\ Len(Before(s, k + 1)) = Len(Before(s, k)) + Len(s[k])
  BY <1>2, FlatAt
<1>4. Len(s[k]) = IF ph[k] \in FitPhrases THEN 0 ELSE Len(ph[k])
  BY <1>1
<1>5. PICK i, j, l : i = Len(Before(s, k)) /\ j = Len(Before(s, k + 1)) /\ l = Len(s[k])
  OBVIOUS
<1>6. i \in Nat /\ l \in Nat /\ j = i + l
  BY <1>3, <1>5
<1>7. IndexOf(ph, k) = 1 + i /\ IndexOf(ph, k + 1) = 1 + j
  BY <1>1, <1>5 DEF IndexOf
<1>8. 1 + i \in Nat /\ 1 + i >= 1 /\ 1 + j = (1 + i) + l
  BY <1>6
<1>9. QED
  BY <1>4, <1>5, <1>7, <1>8

\* There is a phrase of the test next, or there is none.
LEMMA PhraseNext ==
  ASSUME NEW ph \in CommandLines, \A i \in 1..Len(ph) : ph[i] \in FitPhrases => OneLetter(ph[i]),
         NEW ind, NEW letters, NEW t, NEW k0, OptAt(ph, ind, letters, t, k0)
  PROVE  \E k \in 1..Len(ph) + 1 :
           /\ OptAt(ph, ind, letters, t, k)
           /\ k <= Len(ph) => ph[k] \notin FitPhrases
<1> DEFINE S == {k \in 1..Len(ph) + 1 : OptAt(ph, ind, letters, t, k)}
<1>1. Len(ph) \in Nat /\ Len(ph) + 1 \in Nat
  BY TypedWords
<1>2. k0 \in 1..Len(ph) + 1
  BY <1>1 DEF OptAt, BetweenAt, WithinAt
<1>3. PICK x \in S : \A y \in S : y <= x
  <2>1. S \in SUBSET (1..Len(ph) + 1) /\ S # {}
    BY <1>2
  <2> HIDE DEF S
  <2>2. QED
    BY <1>1, <2>1, GreatestOf
<1>4. x \in 1..Len(ph) + 1 /\ OptAt(ph, ind, letters, t, x)
  BY <1>3
<1>5. x <= Len(ph) => ph[x] \notin FitPhrases
  <2>1. SUFFICES ASSUME x <= Len(ph), ph[x] \in FitPhrases PROVE FALSE
    OBVIOUS
  <2>2. x \in 1..Len(ph) /\ x + 1 \in 1..Len(ph) + 1 /\ ~(x + 1 <= x)
    BY <1>1, <1>4, <2>1
  <2>3. BetweenAt(ph, ind, letters, x) /\ t = WrittenTo(ph, x)
    BY <1>4, <2>1 DEF OptAt, WithinAt
  <2>4. IndexOf(ph, x + 1) = IndexOf(ph, x)
    BY <2>1, <2>2, NextIndex
  <2>5. LinesOf(ph[x]) = <<>>
    <3>1. OneLetter(ph[x]) /\ x \in DOMAIN ph
      BY <2>1, <2>2, TypedWords
    <3>2. Letters[ph[x][1]][1] \in Own
      BY <2>1, <3>1, PhrasesAssumption
    <3>3. Letters[ph[x][1]][1] # "c"
      BY <3>2 DEF Own
    <3>4. QED
      BY <3>3, NoLines
  <2>6. t = WrittenTo(ph, x + 1)
    BY <2>2, <2>3, <2>5, NextLines
  <2>7. x + 1 \in S
    BY <2>2, <2>3, <2>4, <2>6 DEF OptAt, BetweenAt
  <2>8. QED
    BY <1>3, <2>2, <2>7
<1>6. QED
  BY <1>4, <1>5

LEMMA PhraseAt ==
  ASSUME NEW ph \in CommandLines, NEW k \in 1..Len(ph), ph[k] \notin FitPhrases,
         NEW v, NEW n, TestArgs(ph, v, n), NEW ind, ind = IndexOf(ph, k)
  PROVE  /\ n \in Nat /\ ind \in Nat /\ Len(ph[k]) \in Nat /\ Len(ph[k]) >= 1
         /\ ind + Len(ph[k]) <= n /\ (k = Len(ph) => ind + Len(ph[k]) = n)
         /\ v[ind] = ph[k][1] /\ (Len(ph[k]) = 2 => v[ind + 1] = ph[k][2])
<1>1. PICK s, f, b :
        /\ s \in Seq(Seq(Cells)) /\ s = MineOf(ph) /\ Len(s) = Len(ph) /\ s[k] = ph[k] /\ f = FlattenSeq(s)
        /\ b = Len(Before(s, k))
  BY MineWords
<1>2. /\ k \in 1..Len(s) /\ Len(ph[k]) \in Nat /\ Len(ph[k]) >= 1 /\ Len(ph) \in Nat
  BY <1>1, TypedWords
<1>3. /\ b \in Nat /\ Len(f) \in Nat /\ b + Len(ph[k]) <= Len(f)
      /\ Len(Before(s, k + 1)) = b + Len(ph[k])
      /\ \A j \in 1..Len(ph[k]) : f[b + j] = ph[k][j]
  <2>1. /\ Len(Before(s, k)) \in Nat /\ Len(s[k]) \in Nat /\ Len(FlattenSeq(s)) \in Nat
        /\ Len(Before(s, k)) + Len(s[k]) <= Len(FlattenSeq(s))
        /\ Len(Before(s, k + 1)) = Len(Before(s, k)) + Len(s[k])
        /\ \A j \in 1..Len(s[k]) : FlattenSeq(s)[Len(Before(s, k)) + j] = s[k][j]
    <3>1. s \in Seq(Seq(Cells)) /\ k \in 1..Len(s)
      BY <1>1, <1>2
    <3>2. QED
      BY <3>1, FlatAt
  <2>2. QED
    BY <1>1, <2>1
<1>4. n = 1 + Len(f) /\ ind = 1 + b /\ \A q \in 1..Len(f) : v[q] = f[q]
  BY <1>1 DEF TestArgs, IndexOf
<1>5. v[ind] = ph[k][1]
  <2>1. 1 \in 1..Len(ph[k]) /\ b + 1 \in 1..Len(f) /\ ind = b + 1
    BY <1>2, <1>3, <1>4
  <2>2. QED
    BY <1>3, <1>4, <2>1
<1>6. Len(ph[k]) = 2 => v[ind + 1] = ph[k][2]
  <2>1. Len(ph[k]) = 2 => 2 \in 1..Len(ph[k]) /\ b + 2 \in 1..Len(f) /\ ind + 1 = b + 2
    BY <1>2, <1>3, <1>4
  <2>2. QED
    BY <1>3, <1>4, <2>1
<1>7. k = Len(ph) => ind + Len(ph[k]) = n
  <2>1. SUFFICES ASSUME k = Len(ph) PROVE ind + Len(ph[k]) = n
    OBVIOUS
  <2>2. Len(Before(s, k + 1)) = Len(f)
    BY <1>1, <2>1, BeforeEnds
  <2>3. PICK l \in Nat : l = Len(ph[k])
    BY <1>2
  <2>4. Len(f) = b + l
    BY <1>3, <2>2, <2>3
  <2>5. ind + l = n
    BY <1>3, <1>4, <2>4
  <2>6. QED
    BY <2>3, <2>5
<1>8. n \in Nat /\ ind \in Nat /\ ind + Len(ph[k]) <= n
  <2>1. PICK l \in Nat : l = Len(ph[k])
    BY <1>2
  <2>2. b + l <= Len(f) /\ Len(f) \in Nat /\ b \in Nat
    BY <1>3, <2>1
  <2>3. n \in Nat /\ ind \in Nat /\ ind + l <= n
    BY <1>4, <2>2
  <2>4. QED
    BY <2>1, <2>3
<1>9. QED
  BY <1>2, <1>5, <1>6, <1>7, <1>8

TestGetOpt(v, n, ind, letters) == GetOpt(v, n, ind, letters, Flags, Valued)
Kept == (Flags \cup Valued) \ {"c", "h"}

\* What an option makes of the state: the next, a file to read, the end.
TakenTo(ph, o, t) ==
  /\ o.c \in Kept => \E k : OptAt(ph, o.ind, o.next, t, k)
  /\ (o.c = "c" /\ o.optarg \in DOMAIN Files) =>
       \E k \in 1..Len(ph) : /\ FileOf(ph[k]) = o.optarg /\ t = WrittenTo(ph, k)
                             /\ BetweenAt(ph, o.ind, o.next, k + 1)
  /\ o.c = "end" => t = WrittenTo(ph, Len(ph) + 1)

LEMMA TakeEnd ==
  ASSUME NEW ph \in CommandLines, NEW v, NEW n, TestArgs(ph, v, n), NEW ind, NEW letters, NEW t,
         OptAt(ph, ind, letters, t, Len(ph) + 1), NEW o, o = TestGetOpt(v, n, ind, letters)
  PROVE  TakenTo(ph, o, t)
<1>1. Len(ph) \in Nat /\ Len(ph) + 1 \notin 1..Len(ph)
  BY TypedWords
<1>2. letters = <<>> /\ ind = IndexOf(ph, Len(ph) + 1) /\ t = WrittenTo(ph, Len(ph) + 1)
  BY <1>1 DEF OptAt, BetweenAt, WithinAt
<1>3. MineOf(ph) \in Seq(Seq(Cells)) /\ Len(MineOf(ph)) = Len(ph)
  BY MineWords
<1>4. ind = n /\ n \in Nat
  <2>1. Before(MineOf(ph), Len(ph) + 1) = FlattenSeq(MineOf(ph))
    BY <1>3, BeforeEnds
  <2>2. Len(FlattenSeq(MineOf(ph))) \in Nat
    BY <1>3, AllAt
  <2>3. QED
    BY <1>2, <2>1, <2>2 DEF IndexOf, TestArgs
<1>5. o = [c |-> "end", optarg |-> Null, ind |-> ind, next |-> <<>>]
  BY <1>2, <1>4 DEF TestGetOpt, GetOpt
<1>6. o.c = "end"
  BY <1>5
<1>7. "end" \notin Kept
  BY DEF Kept, Flags, Valued
<1>8. QED
  BY <1>2, <1>6, <1>7 DEF TakenTo

\* A letter without value.
LEMMA TakeFlag ==
  ASSUME NEW ph \in CommandLines, NEW k \in 1..Len(ph), ph[k] \notin FitPhrases,
         Len(ph[k]) = 1, ph[k][1] \in DOMAIN Letters, Letters[ph[k][1]][1] \notin Valued,
         NEW s \in Seq(STRING), s # <<>>, ToSet(s) \cap Valued = {},
         NEW ind, ind = IndexOf(ph, k), NEW t, t = WrittenTo(ph, k),
         NEW o, o = [c |-> IF Head(s) \in Flags THEN Head(s) ELSE "?", optarg |-> Null,
                     ind |-> IF Len(s) = 1 THEN ind + 1 ELSE ind, next |-> Tail(s)]
  PROVE  TakenTo(ph, o, t)
<1>1. /\ Tail(s) \in Seq(STRING) /\ ToSet(Tail(s)) \subseteq ToSet(s)
      /\ (Tail(s) = <<>> <=> Len(s) = 1)
  BY HeadAndTail
<1>2. o.c # "c" /\ o.c # "end" /\ o.next = Tail(s) /\ o.ind = IF Len(s) = 1 THEN ind + 1 ELSE ind
  BY DEF Flags
<1>3. CASE Tail(s) = <<>>
  <2>1. LinesOf(ph[k]) = <<>>
    <3>1. "c" \in Valued
      BY DEF Valued
    <3>2. QED
      BY <3>1, NoLines
  <2>2. t = WrittenTo(ph, k + 1)
    BY <2>1, NextLines
  <2>3. IndexOf(ph, k + 1) = ind + 1
    BY NextIndex
  <2>4. k + 1 \in 1..Len(ph) + 1
    BY TypedWords
  <2>5. OptAt(ph, o.ind, o.next, t, k + 1)
    BY <1>1, <1>2, <1>3, <2>2, <2>3, <2>4 DEF OptAt, BetweenAt
  <2>6. QED
    BY <1>2, <2>5 DEF TakenTo
<1>4. CASE Tail(s) # <<>>
  <2>1. ToSet(Tail(s)) \cap Valued = {}
    BY <1>1
  <2>2. OptAt(ph, o.ind, o.next, t, k)
    BY <1>1, <1>2, <1>4, <2>1 DEF OptAt, WithinAt
  <2>3. QED
    BY <1>2, <2>2 DEF TakenTo
<1>5. QED
  BY <1>3, <1>4

\* A letter with its value.
LEMMA TakeValue ==
  ASSUME NEW ph \in CommandLines, NEW k \in 1..Len(ph), ph[k] \notin FitPhrases,
         ph[k][1] \in DOMAIN Letters, NEW ind, ind = IndexOf(ph, k), NEW t, t = WrittenTo(ph, k),
         NEW x, (Letters[ph[k][1]][1] = "c" /\ x \in DOMAIN Files) => FileOf(ph[k]) = x,
         NEW o, o = [c |-> Letters[ph[k][1]][1], optarg |-> x, ind |-> ind + Len(ph[k]), next |-> <<>>],
         o.c # "end"
  PROVE  TakenTo(ph, o, t)
<1>1. o.c = Letters[ph[k][1]][1] /\ o.optarg = x /\ o.next = <<>> /\ o.ind = ind + Len(ph[k])
  OBVIOUS
<1>2. IndexOf(ph, k + 1) = ind + Len(ph[k]) /\ k + 1 \in 1..Len(ph) + 1
  <2>1. IndexOf(ph, k + 1) = ind + Len(ph[k])
    BY NextIndex
  <2>2. k + 1 \in 1..Len(ph) + 1
    BY TypedWords
  <2>3. QED
    BY <2>1, <2>2
<1>3. BetweenAt(ph, o.ind, o.next, k + 1)
  BY <1>1, <1>2 DEF BetweenAt
<1>4. o.c \in Kept => OptAt(ph, o.ind, o.next, t, k + 1)
  <2>1. SUFFICES ASSUME o.c \in Kept PROVE OptAt(ph, o.ind, o.next, t, k + 1)
    OBVIOUS
  <2>2. LinesOf(ph[k]) = <<>>
    <3>1. Letters[ph[k][1]][1] # "c"
      BY <1>1, <2>1 DEF Kept
    <3>2. QED
      BY <3>1, NoLines
  <2>3. t = WrittenTo(ph, k + 1)
    BY <2>2, NextLines
  <2>4. QED
    BY <1>3, <2>3 DEF OptAt
<1>5. QED
  BY <1>1, <1>3, <1>4 DEF TakenTo

LEMMA Take ==
  ASSUME NEW ph \in CommandLines, \A i \in 1..Len(ph) : ph[i] \in FitPhrases => OneLetter(ph[i]),
         NEW v, NEW n, TestArgs(ph, v, n), NEW ind, NEW letters, NEW t, NEW k0,
         OptAt(ph, ind, letters, t, k0), NEW o, o = TestGetOpt(v, n, ind, letters)
  PROVE  TakenTo(ph, o, t)
<1>1. PICK k \in 1..Len(ph) + 1 :
        OptAt(ph, ind, letters, t, k) /\ (k <= Len(ph) => ph[k] \notin FitPhrases)
  BY PhraseNext
<1>2. CASE ~(k <= Len(ph))
  <2>1. k = Len(ph) + 1
    BY <1>2, TypedWords
  <2>2. QED
    BY <1>1, <2>1, TakeEnd
<1>3. CASE k <= Len(ph)
  <2>1. k \in 1..Len(ph) /\ ph[k] \notin FitPhrases /\ t = WrittenTo(ph, k) /\ ind = IndexOf(ph, k)
    BY <1>1, <1>3, TypedWords DEF OptAt, BetweenAt, WithinAt
  <2>2. PICK p, w : p = ph[k] /\ w = ph[k][1]
    OBVIOUS
  <2>3. /\ n \in Nat /\ ind \in Nat /\ Len(p) \in Nat /\ Len(p) >= 1
        /\ ind + Len(p) <= n /\ (k = Len(ph) => ind + Len(p) = n)
        /\ v[ind] = w /\ (Len(p) = 2 => v[ind + 1] = p[2])
    BY <2>1, <2>2, PhraseAt
  <2>4. ind < n /\ ~(ind >= n)
    BY <2>3
  <2>5. /\ Len(p) \in IF ~(TakesValue(p) /\ OneLetter(p)) THEN {1}
                      ELSE IF k < Len(ph) THEN {2} ELSE {1, 2}
        /\ (w \in DOMAIN Letters /\ ~TakesValue(p)) => ToSet(Letters[w]) \cap Valued = {}
    BY <2>1, <2>2, TypedWords, OptionsAssumption
  <2>6. TakesValue(p) <=> w \in DOMAIN Letters /\ Letters[w][1] \in Valued
    BY <2>2 DEF TakesValue
  <2>7. CASE letters # <<>>
    <3>1. WithinAt(ph, ind, letters, k)
      BY <1>1, <2>7 DEF OptAt, BetweenAt
    <3>2. Head(letters) \notin Valued
      BY <3>1, HeadAndTail DEF WithinAt
    <3>3. o = [c |-> IF Head(letters) \in Flags THEN Head(letters) ELSE "?", optarg |-> Null,
               ind |-> IF Len(letters) = 1 THEN ind + 1 ELSE ind, next |-> Tail(letters)]
      BY <2>7, <3>2 DEF TestGetOpt, GetOpt
    <3>4. QED
      BY <2>1, <3>1, <3>3, TakeFlag DEF WithinAt
  <2>8. CASE letters = <<>> /\ w \notin DOMAIN Letters
    <3>1. o = [c |-> "word", optarg |-> v[ind], ind |-> ind + 1, next |-> <<>>]
      BY <2>3, <2>4, <2>8 DEF TestGetOpt, GetOpt
    <3>2. o.c = "word"
      BY <3>1
    <3>3. "word" \notin Kept
      BY DEF Kept, Flags, Valued
    <3>4. QED
      BY <3>2, <3>3 DEF TakenTo
  <2>9. CASE letters = <<>> /\ w \in DOMAIN Letters
    <3>1. PICK s \in Seq(STRING) : s = Letters[w] /\ s # <<>> /\ Len(s) \in Nat \ {0} /\ Head(s) = s[1]
      BY <2>9, LettersOf
    <3>2. CASE s[1] \notin Valued
      <4>1. ToSet(s) \cap Valued = {} /\ Len(p) = 1
        BY <2>5, <2>6, <2>9, <3>1, <3>2
      <4>2. o = [c |-> IF Head(s) \in Flags THEN Head(s) ELSE "?", optarg |-> Null,
                 ind |-> IF Len(s) = 1 THEN ind + 1 ELSE ind, next |-> Tail(s)]
        BY <2>3, <2>4, <2>9, <3>1, <3>2 DEF TestGetOpt, GetOpt
      <4>3. QED
        BY <2>1, <2>2, <2>9, <3>1, <3>2, <4>1, <4>2, TakeFlag
    <3>3. CASE s[1] \in Valued /\ Len(s) > 1
      <4>1. Len(p) = 1
        <5>1. ~OneLetter(p)
          <6>1. Letters[p[1]] = s
            BY <2>2, <3>1
          <6>2. \A l \in Nat : l > 1 => l # 1
            OBVIOUS
          <6>3. Len(s) # 1
            BY <3>1, <3>3, <6>2
          <6>4. QED
            BY <6>1, <6>3 DEF OneLetter
        <5>2. QED
          BY <2>5, <5>1
      <4>2. o = [c |-> Head(s), optarg |-> s[2], ind |-> ind + 1, next |-> <<>>]
        BY <2>3, <2>4, <2>9, <3>1, <3>3 DEF TestGetOpt, GetOpt
      <4>3. s[1] = "c" => FileOf(p) = s[2]
        BY <2>2, <2>9, <3>1, <3>3 DEF FileOf
      <4>4. o.c # "end"
        BY <3>1, <3>3, <4>2 DEF Valued
      <4>5. QED
        BY <2>1, <2>2, <2>9, <3>1, <4>1, <4>2, <4>3, <4>4, TakeValue
    <3>4. CASE s[1] \in Valued /\ Len(s) = 1 /\ Len(p) = 2
      <4>1. ind + 1 < n
        BY <2>3, <3>4
      <4>2. o = [c |-> Head(s), optarg |-> v[ind + 1], ind |-> (ind + 1) + 1, next |-> <<>>]
        <5>1. Head(s) \in Valued /\ ~(Len(s) > 1) /\ v[ind] = w /\ ~(ind >= n)
          BY <2>3, <2>4, <3>1, <3>4
        <5>2. QED
          BY <2>9, <3>1, <3>4, <4>1, <5>1 DEF TestGetOpt, GetOpt
      <4>3. s[1] = "c" => FileOf(p) = v[ind + 1]
        BY <2>2, <2>3, <2>9, <3>1, <3>4 DEF FileOf
      <4>4. o.c # "end" /\ (ind + 1) + 1 = ind + Len(p)
        BY <2>3, <3>1, <3>4, <4>2 DEF Valued
      <4>5. QED
        BY <2>1, <2>2, <2>9, <3>1, <4>2, <4>3, <4>4, TakeValue
    <3>5. CASE s[1] \in Valued /\ Len(s) = 1 /\ Len(p) = 1
      <4>1. TakesValue(p) /\ OneLetter(p)
        BY <2>2, <2>6, <2>9, <3>1, <3>5 DEF OneLetter
      <4>2. k = Len(ph)
        BY <2>1, <2>5, <3>5, <4>1, TypedWords
      <4>3. ~(ind + 1 < n)
        BY <2>3, <3>5, <4>2
      <4>4. Head(s) \notin Flags
        BY <3>1, <3>5 DEF Flags, Valued
      <4>5. o = [c |-> "?", optarg |-> Null, ind |-> ind + 1, next |-> Tail(s)]
        BY <2>3, <2>4, <2>9, <3>1, <3>5, <4>3, <4>4 DEF TestGetOpt, GetOpt
      <4>6. o.c = "?"
        BY <4>5
      <4>7. "?" \notin Kept
        BY DEF Kept, Flags, Valued
      <4>8. QED
        BY <4>6, <4>7 DEF TakenTo
    <3>6. s[1] \in Valued => Len(s) > 1 \/ Len(p) = 2 \/ Len(p) = 1
      BY <2>5
    <3>7. Len(s) > 1 \/ Len(s) = 1
      <4>1. PICK l \in Nat \ {0} : l = Len(s)
        BY <3>1
      <4>2. l > 1 \/ l = 1
        OBVIOUS
      <4>3. QED
        BY <4>1, <4>2
    <3>8. QED
      BY <3>2, <3>3, <3>4, <3>5, <3>6, <3>7
  <2>10. QED
    BY <2>7, <2>8, <2>9
<1>4. QED
  BY <1>2, <1>3

------------------------------------------------------------------------------
(* Inside a file.                                                           *)

LEMMA LinesBehind ==
  ASSUME NEW F \in Seq(ALine), NEW m \in 0..Len(F)
  PROVE  /\ Behind(F, m) \in Seq(STRING)
         /\ m = Len(F) => Behind(F, m) = <<>>
         /\ m < Len(F) => /\ F[m + 1] \in ALine /\ Behind(F, m + 1) \in Seq(STRING)
                          /\ Behind(F, m) = F[m + 1] \o Behind(F, m + 1)
         /\ m = 0 => Behind(F, m) = FlattenSeq(F)
<1>1. F \in Seq(Seq(STRING)) /\ Len(F) \in Nat /\ \A i \in 1..Len(F) : F[i] \in ALine
  <2>1. ALine \subseteq Seq(STRING)
    BY DEF ALine
  <2>2. F \in Seq(Seq(STRING))
    BY <2>1, SeqMonotonic
  <2>3. QED
    BY <2>2
<1>2. PICK L \in Nat : L = Len(F)
  BY <1>1
<1>3. \A i \in 0..L : SubSeq(F, i + 1, L) \in Seq(Seq(STRING)) /\ Behind(F, i) \in Seq(STRING)
  <2>1. TAKE i \in 0..L
  <2>2. SubSeq(F, i + 1, L) \in Seq(Seq(STRING))
    BY <1>1, <1>2
  <2>3. QED
    BY <1>2, <2>2, FlatTypes DEF Behind
<1>4. m = L => Behind(F, m) = <<>>
  <2>1. m = L => SubSeq(F, m + 1, L) = <<>>
    BY <1>1, <1>2
  <2>2. QED
    BY <1>2, <2>1, FlatEmpty DEF Behind
<1>5. m < L => /\ F[m + 1] \in ALine /\ Behind(F, m + 1) \in Seq(STRING)
               /\ Behind(F, m) = F[m + 1] \o Behind(F, m + 1)
  <2>1. SUFFICES ASSUME m < L
                 PROVE  /\ F[m + 1] \in ALine /\ Behind(F, m + 1) \in Seq(STRING)
                        /\ Behind(F, m) = F[m + 1] \o Behind(F, m + 1)
    OBVIOUS
  <2>2. m + 1 \in 1..L /\ m + 1 \in 0..L /\ m \in Nat
    BY <1>2, <2>1
  <2>3. F[m + 1] \in ALine /\ F[m + 1] \in Seq(STRING) /\ Behind(F, m + 1) \in Seq(STRING)
    BY <1>1, <1>2, <1>3, <2>2
  <2>4. PICK x, s, r : x = F[m + 1] /\ s = SubSeq(F, (m + 1) + 1, L) /\ r = SubSeq(F, m + 1, L)
    OBVIOUS
  <2>5. /\ s \in Seq(Seq(STRING)) /\ Len(s) = L - (m + 1) /\ r \in Seq(Seq(STRING)) /\ Len(r) = L - m
        /\ \A i \in 1..Len(s) : s[i] = F[m + 1 + i]
        /\ \A i \in 1..Len(r) : r[i] = F[m + i]
    <3>1. s \in Seq(Seq(STRING)) /\ r \in Seq(Seq(STRING))
      BY <1>3, <2>2, <2>4
    <3>2. Len(r) = L - m /\ \A i \in 1..Len(r) : r[i] = F[m + i]
      BY <1>1, <1>2, <2>1, <2>2, <2>4
    <3>3. Len(s) = L - (m + 1) /\ \A i \in 1..Len(s) : s[i] = F[m + 1 + i]
      BY <1>1, <1>2, <2>1, <2>2, <2>4
    <3>4. QED
      BY <3>1, <3>2, <3>3
  <2>6. PICK o : o = <<x>> /\ o \in Seq(Seq(STRING)) /\ Len(o) = 1 /\ o[1] = x
    <3>1. x \in Seq(STRING)
      BY <2>3, <2>4
    <3>2. <<x>> \in Seq(Seq(STRING)) /\ Len(<<x>>) = 1 /\ <<x>>[1] = x
      BY <3>1
    <3>3. QED
      BY <3>2
  <2>7. r = o \o s
    <3>1. PICK c : c = o \o s
      OBVIOUS
    <3>2. /\ o \o s \in Seq(Seq(STRING)) /\ Len(o \o s) = Len(o) + Len(s)
          /\ \A i \in 1..Len(o) : (o \o s)[i] = o[i]
          /\ \A i \in 1..Len(s) : (o \o s)[Len(o) + i] = s[i]
      BY <2>5, <2>6, Concat
    <3>3. /\ c \in Seq(Seq(STRING)) /\ Len(c) = 1 + Len(s) /\ c[1] = x
          /\ \A i \in 1..Len(s) : c[1 + i] = s[i]
      <4>1. 1 \in 1..Len(o)
        BY <2>6
      <4>2. QED
        BY <2>6, <3>1, <3>2, <4>1
    <3>4. Len(c) = Len(r) /\ Len(r) \in Nat
      BY <1>2, <2>1, <2>2, <2>5, <3>3
    <3>5. \A i \in 1..Len(r) : r[i] = c[i]
      <4>1. TAKE i \in 1..Len(r)
      <4>2. CASE i = 1
        BY <2>4, <2>5, <3>3, <4>2
      <4>3. CASE i # 1
        <5>1. i - 1 \in 1..Len(s) /\ 1 + (i - 1) = i /\ m + 1 + (i - 1) = m + i
          BY <1>2, <2>1, <2>2, <2>5, <4>3
        <5>2. c[1 + (i - 1)] = s[i - 1] /\ s[i - 1] = F[m + 1 + (i - 1)]
          BY <2>5, <3>3, <5>1
        <5>3. r[i] = F[m + i]
          BY <2>5
        <5>4. QED
          BY <5>1, <5>2, <5>3
      <4>4. QED
        BY <4>2, <4>3
    <3>6. r = c
      BY <2>5, <3>3, <3>4, <3>5, SeqEqual
    <3>7. QED
      BY <3>1, <3>6
  <2>8. FlattenSeq(r) = FlattenSeq(o) \o FlattenSeq(s)
    BY <2>5, <2>6, <2>7, FlatConcat
  <2>9. FlattenSeq(o) = x
    BY <2>3, <2>4, <2>6, FlatOne
  <2>10. Behind(F, m) = FlattenSeq(r) /\ Behind(F, m + 1) = FlattenSeq(s)
    BY <1>2, <2>4 DEF Behind
  <2>11. QED
    BY <2>3, <2>4, <2>8, <2>9, <2>10
<1>6. m = 0 => Behind(F, m) = FlattenSeq(F)
  <2>1. SubSeq(F, 1, L) = F
    BY <1>1, <1>2, SubSeqFull
  <2>2. m = 0 => m + 1 = 1
    OBVIOUS
  <2>3. QED
    BY <1>2, <2>1, <2>2 DEF Behind
<1>7. QED
  BY <1>2, <1>3, <1>4, <1>5, <1>6

GoodLine(ln) ==
  /\ ln \in ALine /\ ln \in Seq(STRING) /\ ln # <<>>
  /\ ln[1] \notin DOMAIN Number \cup DOMAIN Letters
  /\ ~IsComment(ln) => Len(ln) = 5 /\ \A k \in 3..5 : ln[k] \in DOMAIN Number
  /\ \A k \in 1..Len(ln) : ln[k] \in DOMAIN Letters =>
       Len(Letters[ln[k]]) = 1 /\ Letters[ln[k]][1] \notin DOMAIN Number \cup Looped

LEMMA LineOfFile ==
  ASSUME NEW f \in DOMAIN Files, NEW i \in 1..Len(Files[f])
  PROVE  GoodLine(Files[f][i])
<1>1. PICK F, ln : F = Files[f] /\ ln = Files[f][i]
  OBVIOUS
<1>2. F \in Seq(ALine)
  BY <1>1, FilesAssumption DEF ALine
<1>3. ln \in ALine /\ i \in DOMAIN F
  BY <1>1, <1>2
<1>4. ln \in Seq(STRING) /\ ln # <<>> /\ DOMAIN ln = 1..Len(ln)
  BY <1>3 DEF ALine
<1>5. /\ ~IsComment(ln) => /\ Len(ln) = 5 /\ \A k \in 3..5 : ln[k] \in DOMAIN Number
                           /\ ln[1] \notin DOMAIN Number \cup DOMAIN Letters
      /\ \A k \in DOMAIN ln : ln[k] \in DOMAIN Letters =>
           Len(Letters[ln[k]]) = 1 /\ Letters[ln[k]][1] \notin DOMAIN Number \cup Looped
  BY <1>1, <1>3, FilesAssumption
<1>6. IsComment(ln) => ln[1] \notin DOMAIN Number \cup DOMAIN Letters
  BY FilesAssumption DEF IsComment
<1>7. QED
  BY <1>1, <1>3, <1>4, <1>5, <1>6 DEF GoodLine

CommentsKeep(ph) == \A i \in DOMAIN FlattenSeq(LinesFrom(ph)) :
  IsComment(FlattenSeq(LinesFrom(ph))[i]) => KeepsStep(FlattenSeq(LinesFrom(ph))[i])

LEMMA CommentOfFile ==
  ASSUME NEW ph \in CommandLines, CommentsKeep(ph), NEW k \in 1..Len(ph),
         NEW j \in 1..Len(LinesOf(ph[k])), IsComment(LinesOf(ph[k])[j])
  PROVE  KeepsStep(LinesOf(ph[k])[j])
<1>1. PICK s : s \in Seq(Seq(ALine)) /\ s = LinesFrom(ph) /\ Len(s) = Len(ph) /\ s[k] = LinesOf(ph[k])
  BY LinesTypes
<1>2. k \in 1..Len(s)
  BY <1>1
<1>3. /\ Len(Before(s, k)) \in Nat /\ Len(s[k]) \in Nat /\ Len(FlattenSeq(s)) \in Nat
      /\ Len(Before(s, k)) + Len(s[k]) <= Len(FlattenSeq(s))
      /\ \A i \in 1..Len(s[k]) : FlattenSeq(s)[Len(Before(s, k)) + i] = s[k][i]
  <2>1. s \in Seq(Seq(ALine))
    BY <1>1
  <2>2. QED
    BY <1>2, <2>1, FlatAt
<1>4. FlattenSeq(s) \in Seq(ALine)
  BY <1>1, FlatTypes
<1>5. PICK g, h, p : g = FlattenSeq(s) /\ h = s[k] /\ p = Len(Before(s, k))
  OBVIOUS
<1>6. /\ p \in Nat /\ Len(h) \in Nat /\ Len(g) \in Nat /\ p + Len(h) <= Len(g)
      /\ g \in Seq(ALine) /\ \A i \in 1..Len(h) : g[p + i] = h[i]
  BY <1>3, <1>4, <1>5
<1>7. j \in 1..Len(h) /\ h[j] = LinesOf(ph[k])[j]
  BY <1>1, <1>5
<1>8. p + j \in DOMAIN g /\ g[p + j] = LinesOf(ph[k])[j]
  <2>1. p + j \in 1..Len(g)
    BY <1>6, <1>7
  <2>2. DOMAIN g = 1..Len(g)
    BY <1>6
  <2>3. QED
    BY <1>6, <1>7, <2>1, <2>2
<1>9. QED
  BY <1>1, <1>5, <1>8 DEF CommentsKeep

\* serialFit has read m lines of the file that phrase k names, and u is left of the last.
LinesRead(ph, k, m) == Before(LinesFrom(ph), k) \o SubSeq(LinesOf(ph[k]), 1, m)
ReadAt(ph, ind, letters, words, t, k, m, u) ==
  /\ k \in 1..Len(ph) /\ BetweenAt(ph, ind, letters, k + 1) /\ FileOf(ph[k]) \in DOMAIN Files
  /\ m \in 0..Len(LinesOf(ph[k]))
  /\ Skippable(u) /\ words = u \o Behind(LinesOf(ph[k]), m)
  /\ t = Written(LinesRead(ph, k, m))

LEMMA NothingSkippable == Skippable(<<>>)
<1>1. <<>> \in Seq(STRING) /\ Len(<<>>) = 2 * 0 /\ 0 \in Nat
  OBVIOUS
<1>2. \A i \in 1..Len(<<>>) : FALSE
  OBVIOUS
<1>3. \A i \in 2..Len(<<>>) : FALSE
  OBVIOUS
<1>4. QED
  BY <1>1, <1>2, <1>3 DEF Skippable

LEMMA ReadFirst ==
  ASSUME NEW ph \in CommandLines, NEW k \in 1..Len(ph), FileOf(ph[k]) \in DOMAIN Files,
         NEW ind, NEW letters, BetweenAt(ph, ind, letters, k + 1), NEW t, t = WrittenTo(ph, k)
  PROVE  ReadAt(ph, ind, letters, FlattenSeq(Files[FileOf(ph[k])]), t, k, 0, <<>>)
<1>1. PICK F : F = LinesOf(ph[k]) /\ F = Files[FileOf(ph[k])] /\ F \in Seq(ALine)
  BY LinesTypes DEF LinesOf
<1>2. 0 \in 0..Len(F)
  BY <1>1
<1>3. Behind(F, 0) = FlattenSeq(F) /\ Behind(F, 0) \in Seq(STRING)
  BY <1>1, <1>2, LinesBehind
<1>4. FlattenSeq(F) = <<>> \o Behind(F, 0)
  BY <1>3, ConcatEmptySeq
<1>5. LinesRead(ph, k, 0) = Before(LinesFrom(ph), k)
  <2>1. SubSeq(F, 1, 0) = <<>>
    BY SubSeqEmpty
  <2>2. Before(LinesFrom(ph), k) \in Seq(ALine)
    BY NextLines
  <2>3. Before(LinesFrom(ph), k) \o <<>> = Before(LinesFrom(ph), k)
    BY <2>2, ConcatEmptySeq
  <2>4. QED
    BY <1>1, <2>1, <2>3 DEF LinesRead
<1>6. QED
  BY <1>1, <1>2, <1>4, <1>5, NothingSkippable DEF ReadAt, WrittenTo

LEMMA ReadLast ==
  ASSUME NEW ph \in CommandLines, NEW ind, NEW letters, NEW words, words = <<>>, NEW t, NEW k, NEW m, NEW u,
         ReadAt(ph, ind, letters, words, t, k, m, u)
  PROVE  OptAt(ph, ind, letters, t, k + 1)
<1>1. PICK F : F = LinesOf(ph[k]) /\ F \in Seq(ALine) /\ k \in 1..Len(ph) /\ m \in 0..Len(F)
  BY LinesTypes DEF ReadAt
<1>2. Behind(F, m) \in Seq(STRING) /\ u \in Seq(STRING) /\ u \o Behind(F, m) = <<>>
  BY <1>1, LinesBehind DEF ReadAt, Skippable
<1>3. Behind(F, m) = <<>>
  BY <1>2, ConcatEmpty
<1>4. m = Len(F)
  <2>1. SUFFICES ASSUME m < Len(F) PROVE FALSE
    BY <1>1
  <2>2. /\ F[m + 1] \in ALine /\ Behind(F, m + 1) \in Seq(STRING)
        /\ Behind(F, m) = F[m + 1] \o Behind(F, m + 1)
    BY <1>1, <2>1, LinesBehind
  <2>3. F[m + 1] \in Seq(STRING) /\ F[m + 1] # <<>>
    BY <2>2 DEF ALine
  <2>4. QED
    BY <1>3, <2>2, <2>3, ConcatEmpty
<1>5. SubSeq(F, 1, m) = F
  BY <1>1, <1>4, SubSeqFull
<1>6. LinesRead(ph, k, m) = Before(LinesFrom(ph), k + 1)
  BY <1>1, <1>5, NextLines DEF LinesRead
<1>7. QED
  BY <1>6 DEF ReadAt, OptAt, WrittenTo

LEMMA LineRead ==
  ASSUME NEW ph \in CommandLines, NEW k \in 1..Len(ph), NEW F, F = LinesOf(ph[k]), NEW m \in 0..Len(F), m < Len(F)
  PROVE  /\ LinesRead(ph, k, m) \in Seq(ALine) /\ F[m + 1] \in ALine
         /\ LinesRead(ph, k, m + 1) = Append(LinesRead(ph, k, m), F[m + 1])
<1>1. Before(LinesFrom(ph), k) \in Seq(ALine) /\ F \in Seq(ALine)
  BY NextLines
<1>2. m + 1 \in 1..Len(F) /\ (m + 1) - 1 = m
  BY <1>1
<1>3. /\ SubSeq(F, 1, m + 1) = Append(SubSeq(F, 1, m), F[m + 1])
      /\ SubSeq(F, 1, m) \in Seq(ALine) /\ F[m + 1] \in ALine
  <2>1. /\ SubSeq(F, 1, m + 1) = Append(SubSeq(F, 1, (m + 1) - 1), F[m + 1])
        /\ SubSeq(F, 1, (m + 1) - 1) \in Seq(ALine) /\ F[m + 1] \in ALine
    BY <1>1, <1>2, Prefix
  <2>2. QED
    BY <1>2, <2>1
<1>4. Before(LinesFrom(ph), k) \o Append(SubSeq(F, 1, m), F[m + 1]) =
        Append(Before(LinesFrom(ph), k) \o SubSeq(F, 1, m), F[m + 1])
  BY <1>1, <1>3, ConcatAppend
<1>5. Before(LinesFrom(ph), k) \o SubSeq(F, 1, m) \in Seq(ALine)
  BY <1>1, <1>3
<1>6. QED
  BY <1>3, <1>4, <1>5 DEF LinesRead

\* One call of fscanf.
LEMMA ReadNext ==
  ASSUME NEW ph \in CommandLines, CommentsKeep(ph), NEW ind, NEW letters, NEW words, NEW t,
         NEW k, NEW m, NEW u, ReadAt(ph, ind, letters, words, t, k, m, u), words # <<>>,
         NEW d, NEW sz, NEW t2, t2 = WithNamed(t, NamedIn(Got(words, d)), SizesRead(words, sz))
  PROVE  \E m2, u2 : ReadAt(ph, ind, letters, AfterRecord(words), t2, k, m2, u2)
<1>1. PICK F, f : /\ f = FileOf(ph[k]) /\ f \in DOMAIN Files /\ F = Files[f] /\ F = LinesOf(ph[k])
                  /\ k \in 1..Len(ph) /\ m \in 0..Len(F) /\ F \in Seq(ALine)
  BY LinesTypes DEF ReadAt, LinesOf
<1>2. /\ BetweenAt(ph, ind, letters, k + 1) /\ Skippable(u) /\ words = u \o Behind(F, m)
      /\ t = Written(LinesRead(ph, k, m)) /\ IsFun(t)
  BY <1>1, WrittenAt DEF ReadAt, IsFun
<1>3. \A j \in 0..Len(F) :
        /\ Behind(F, j) \in Seq(STRING)
        /\ Behind(F, j) # <<>> => Behind(F, j)[1] \notin DOMAIN Number \cup DOMAIN Letters
  <2>1. TAKE j \in 0..Len(F)
  <2>2. Behind(F, j) \in Seq(STRING)
    BY <1>1, LinesBehind
  <2>3. CASE j = Len(F)
    BY <1>1, <2>2, <2>3, LinesBehind
  <2>4. CASE j # Len(F)
    <3>1. j < Len(F) /\ j + 1 \in 1..Len(F)
      BY <1>1, <2>4
    <3>2. PICK ln, rest : ln = F[j + 1] /\ rest = Behind(F, j + 1)
      OBVIOUS
    <3>3. rest \in Seq(STRING) /\ Behind(F, j) = ln \o rest
      BY <1>1, <3>1, <3>2, LinesBehind
    <3>4. ln \in Seq(STRING) /\ ln # <<>> /\ ln[1] \notin DOMAIN Number \cup DOMAIN Letters
      <4>1. GoodLine(Files[f][j + 1])
        BY <1>1, <3>1, LineOfFile
      <4>2. ln = Files[f][j + 1]
        BY <1>1, <3>2
      <4>3. QED
        BY <4>1, <4>2 DEF GoodLine
    <3>5. \A i \in 1..Len(ln) : (ln \o rest)[i] = ln[i]
      BY <3>3, <3>4, ConcatWords
    <3>6. 1 \in 1..Len(ln)
      BY <3>4
    <3>7. QED
      BY <2>2, <3>3, <3>4, <3>5, <3>6
  <2>5. QED
    BY <2>3, <2>4
<1>4. ASSUME NEW v, Skippable(v), v # <<>>, NEW j \in 0..Len(F), words = v \o Behind(F, j),
             t = Written(LinesRead(ph, k, j))
      PROVE  \E u2 : ReadAt(ph, ind, letters, AfterRecord(words), t2, k, j, u2)
  <2>1. PICK rest : rest = Behind(F, j) /\ rest \in Seq(STRING)
                    /\ (rest # <<>> => rest[1] \notin DOMAIN Number \cup DOMAIN Letters)
    BY <1>3
  <2>2. t2 = t /\ \E u2 : Skippable(u2) /\ AfterRecord(words) = u2 \o rest
    <3>1. /\ WithNamed(t, NamedIn(Got(v \o rest, d)), SizesRead(v \o rest, sz)) = t
          /\ \E u2 : Skippable(u2) /\ AfterRecord(v \o rest) = u2 \o rest
      <4>1. /\ Skippable(v) /\ v # <<>> /\ rest \in Seq(STRING) /\ IsFun(t)
            /\ rest # <<>> => rest[1] \notin DOMAIN Number \cup DOMAIN Letters
        BY <1>2, <1>4, <2>1
      <4>2. WithNamed(t, NamedIn(Got(v \o rest, d)), SizesRead(v \o rest, sz)) = t
        BY <4>1, ReadPair
      <4>3. \E u2 : Skippable(u2) /\ AfterRecord(v \o rest) = u2 \o rest
        BY <4>1, ReadPair
      <4>4. QED
        BY <4>2, <4>3
    <3>2. words = v \o rest
      BY <1>4, <2>1
    <3>3. QED
      BY <3>1, <3>2
  <2>3. QED
    BY <1>1, <1>2, <1>4, <2>1, <2>2 DEF ReadAt
<1>5. CASE u # <<>>
  BY <1>1, <1>2, <1>4, <1>5
<1>6. CASE u = <<>>
  <2>1. words = Behind(F, m)
    BY <1>1, <1>2, <1>3, <1>6, ConcatEmptySeq
  <2>2. m < Len(F)
    <3>1. m # Len(F)
      BY <1>1, <2>1, LinesBehind
    <3>2. QED
      BY <1>1, <3>1
  <2>3. PICK ln, rest, n : ln = F[m + 1] /\ rest = Behind(F, m + 1) /\ n = m + 1
    OBVIOUS
  <2>4. rest \in Seq(STRING) /\ words = ln \o rest
    BY <1>1, <2>1, <2>2, <2>3, LinesBehind
  <2>5. n \in 1..Len(F) /\ n \in 0..Len(F)
    BY <1>1, <2>2, <2>3
  <2>6. /\ ln \in ALine /\ ln \in Seq(STRING) /\ ln # <<>>
        /\ ~IsComment(ln) => Len(ln) = 5 /\ \A i \in 3..5 : ln[i] \in DOMAIN Number
        /\ \A i \in 1..Len(ln) : ln[i] \in DOMAIN Letters =>
             Len(Letters[ln[i]]) = 1 /\ Letters[ln[i]][1] \notin DOMAIN Number \cup Looped
    <3>1. GoodLine(Files[f][n])
      BY <1>1, <2>5, LineOfFile
    <3>2. ln = Files[f][n]
      BY <1>1, <2>3
    <3>3. QED
      BY <3>1, <3>2 DEF GoodLine
  <2>7. LinesRead(ph, k, m) \in Seq(ALine) /\ LinesRead(ph, k, n) = Append(LinesRead(ph, k, m), ln)
    BY <1>1, <2>2, <2>3, LineRead
  <2>8. ASSUME t2 = Written(LinesRead(ph, k, n)), AfterRecord(words) = rest
        PROVE  ReadAt(ph, ind, letters, AfterRecord(words), t2, k, n, <<>>)
    <3>1. AfterRecord(words) = <<>> \o rest
      BY <2>4, <2>8, ConcatEmptySeq
    <3>2. QED
      BY <1>1, <1>2, <2>3, <2>5, <2>8, <3>1, NothingSkippable DEF ReadAt
  <2>9. CASE ~IsComment(ln)
    <3>1. ln[1] \notin Marked
      BY <2>9 DEF IsComment
    <3>2. AfterRecord(words) = rest /\ t2 = WithNamed(t, NamedBy(ln), Numbers(ln))
      BY <1>2, <2>4, <2>6, <2>9, <3>1, ReadWhole, SMTT(20)
    <3>3. t2 = Written(LinesRead(ph, k, n))
      BY <1>2, <2>6, <2>7, <2>9, <3>2, WrittenRecord
    <3>4. QED
      BY <2>8, <3>2, <3>3
  <2>10. CASE IsComment(ln)
    <3>1. KeepsStep(ln)
      BY <1>1, <2>3, <2>5, <2>10, CommentOfFile
    <3>2. ln[1] \in Marked
      BY <2>10 DEF IsComment
    <3>3. t = Written(LinesRead(ph, k, n))
      BY <1>2, <2>6, <2>7, <2>10, WrittenComment
    <3>4. CASE Len(ln) = 5 /\ \A i \in DOMAIN ln : ln[i] \in DOMAIN Number <=> i > 2
      <4>1. \A i \in 3..5 : ln[i] \in DOMAIN Number
        <5>1. \A i \in 3..5 : i \in DOMAIN ln /\ i > 2
          BY <2>6, <3>4
        <5>2. QED
          BY <3>4, <5>1
      <4>2. AfterRecord(words) = rest /\ t2 = t
        BY <1>2, <2>4, <2>6, <3>2, <3>4, <4>1, ReadWhole
      <4>3. QED
        BY <2>8, <3>3, <4>2
    <3>5. CASE Len(ln) % 2 = 0 /\ \A i \in DOMAIN ln : ln[i] \notin DOMAIN Number \cup Looped
      <4>1. \E h \in Nat : Len(ln) = 2 * h
        <5>1. PICK l \in Nat : l = Len(ln)
          BY <2>6
        <5>2. l \div 2 \in Nat /\ l = 2 * (l \div 2)
          BY <3>5, <5>1
        <5>3. QED
          BY <5>1, <5>2
      <4>2. Skippable(ln)
        <5>1. /\ \A i \in 1..Len(ln) : i \in DOMAIN ln
              /\ \A i \in 2..Len(ln) : i \in 1..Len(ln)
          BY <2>6
        <5>2. QED
          BY <2>6, <3>5, <4>1, <5>1 DEF Skippable
      <4>3. QED
        BY <1>4, <2>3, <2>4, <2>5, <2>6, <3>3, <4>2
    <3>6. QED
      BY <3>1, <3>4, <3>5 DEF KeepsStep
  <2>11. QED
    BY <2>8, <2>9, <2>10
<1>7. QED
  BY <1>5, <1>6

------------------------------------------------------------------------------
(* The schedule.                                                            *)

\* What the options and the files taken so far have made of the schedule.
SchedInv ==
  /\ DOMAIN setting = Kept
  /\ InStep =>
       /\ setup = "options" => \E k : OptAt(typed, next.ind, next.next, table, k)
       /\ setup = "read" => \E k, m, u : ReadAt(typed, next.ind, next.next, left, table, k, m, u)
       /\ setup = "ready" => table = AsWritten

LEMMA InStepOf ==
  ASSUME InStep, typed \in CommandLines
  PROVE  /\ OneByOne /\ CommentsKeep(typed)
         /\ \A i \in 1..Len(typed) : typed[i] \in FitPhrases => OneLetter(typed[i])
<1>1. Lines = FlattenSeq(LinesFrom(typed))
  BY DEF Lines, LinesFrom
<1>2. OneByOne /\ CommentsKeep(typed)
  BY <1>1 DEF InStep, CommentsKeep
<1>3. QED
  BY <1>2, TypedWords DEF OneByOne

LEMMA SchedInit == Init => SchedInv
<1> SUFFICES ASSUME Init PROVE SchedInv
  OBVIOUS
<1>1. /\ typed \in CommandLines /\ setup = "options" /\ table = <<>>
      /\ next = [ind |-> 1, next |-> <<>>] /\ setting = [c \in Kept |-> Null]
  BY DEF Init, ArgsInit, ConfigInit, Kept
<1>2. next.ind = 1 /\ next.next = <<>>
  BY <1>1
<1>3. OptAt(typed, 1, <<>>, table, 1)
  <2>1. 1 \in 1..Len(typed) + 1
    BY <1>1, TypedWords
  <2>2. IndexOf(typed, 1) = 1
    <3>1. MineOf(typed) \in Seq(Seq(Cells))
      BY <1>1, MineWords
    <3>2. Before(MineOf(typed), 1) = <<>>
      BY <3>1, BeforeEnds
    <3>3. QED
      BY <3>2 DEF IndexOf
  <2>3. WrittenTo(typed, 1) = table
    <3>1. LinesFrom(typed) \in Seq(Seq(ALine))
      BY <1>1, LinesTypes
    <3>2. Before(LinesFrom(typed), 1) = <<>>
      BY <3>1, BeforeEnds
    <3>3. QED
      BY <1>1, <3>2, WrittenEmpty DEF WrittenTo
  <2>4. QED
    BY <2>1, <2>2, <2>3 DEF OptAt, BetweenAt
<1>4. \E k : OptAt(typed, next.ind, next.next, table, k)
  BY <1>2, <1>3
<1>5. QED
  BY <1>1, <1>4 DEF SchedInv

\* The arguments of the test are those of TestGetsItsOwn.
LEMMA TestArgsOf ==
  ASSUME ArgsInv, argsAt = "found", OneByOne
  PROVE  TestArgs(typed, testArgv, testArgc)
<1>1. PICK ph, v, n, f : ph = typed /\ v = argv /\ n = argc /\ f = FlattenSeq(MineOf(typed))
  OBVIOUS
<1>2. ArgWords(v, n) = All(MineOf(ph)) /\ n = Len(All(MineOf(ph))) /\ ph \in CommandLines
  BY <1>1, TestWords DEF ArgsInv
<1>3. /\ f \in Seq(Cells) /\ Len(f) \in Nat /\ n = 2 + Len(f)
      /\ \A q \in 1..Len(f) : All(MineOf(ph))[2 + q] = f[q]
  BY <1>1, <1>2, MineWords, AllAt
<1>4. \A i \in 1..n : ArgWords(v, n)[i] = v[i - 1]
  BY DEF ArgWords
<1>5. testArgv = [i \in 0..n - 1 |-> v[i + 1]] /\ testArgc = n - 1
  BY <1>1 DEF testArgv, testArgc
<1>6. \A q \in 1..Len(f) : testArgv[q] = f[q]
  <2>1. TAKE q \in 1..Len(f)
  <2>2. q \in 0..n - 1 /\ 2 + q \in 1..n /\ (2 + q) - 1 = q + 1
    BY <1>3
  <2>3. testArgv[q] = v[q + 1]
    BY <1>5, <2>2
  <2>4. ArgWords(v, n)[2 + q] = v[(2 + q) - 1]
    BY <1>4, <2>2
  <2>5. QED
    BY <1>2, <1>3, <2>2, <2>3, <2>4
<1>7. testArgc = 1 + Len(f)
  BY <1>3, <1>5
<1>8. QED
  BY <1>1, <1>6, <1>7 DEF TestArgs

LEMMA OptionsKeep ==
  ASSUME ArgsInv, SchedInv, Options
  PROVE  SchedInv'
<1>1. argsAt = "found" /\ setup = "options" /\ table' = table /\ typed' = typed /\ typed \in CommandLines
  BY DEF Options, args, ArgsInv
<1>2. PICK ph, v, n, ind, letters, t :
        /\ ph = typed /\ v = testArgv /\ n = testArgc /\ ind = next.ind /\ letters = next.next /\ t = table
  OBVIOUS
<1>3. PICK o : o = TestGetOpt(v, n, ind, letters)
  OBVIOUS
<1>4. /\ next' = [ind |-> o.ind, next |-> o.next]
      /\ \/ /\ o.c \in DOMAIN setting
            /\ setting' = [setting EXCEPT ![o.c] = IF o.c \in Flags THEN "set" ELSE o.optarg]
            /\ setup' = setup
         \/ /\ o.c = "c" /\ o.optarg \in DOMAIN Files /\ left' = FlattenSeq(Files[o.optarg])
            /\ setup' = "read" /\ setting' = setting
         \/ setup' \in {"error", "exit"} /\ setting' = setting
         \/ o.c = "end" /\ setup' = "ready" /\ setting' = setting
  BY <1>2, <1>3 DEF Options, TestGetOpt
<1>5. next'.ind = o.ind /\ next'.next = o.next
  BY <1>4
<1>6. DOMAIN setting' = Kept
  BY <1>4 DEF SchedInv
<1>7. InStep' <=> InStep
  BY <1>1 DEF InStep, OneByOne, Lines
<1>8. CASE ~InStep
  BY <1>6, <1>7, <1>8 DEF SchedInv
<1>9. CASE InStep
  <2>1. /\ OneByOne /\ CommentsKeep(ph) /\ ph \in CommandLines
        /\ \A i \in 1..Len(ph) : ph[i] \in FitPhrases => OneLetter(ph[i])
    BY <1>1, <1>2, <1>9, InStepOf
  <2>2. TestArgs(ph, v, n)
    BY <1>1, <1>2, <2>1, TestArgsOf
  <2>3. PICK k0 : OptAt(ph, ind, letters, t, k0)
    BY <1>1, <1>2, <1>9 DEF SchedInv
  <2>4. TakenTo(ph, o, t)
    BY <1>3, <2>1, <2>2, <2>3, Take
  <2>5. CASE o.c \in DOMAIN setting /\ setup' = setup
    <3>1. \E k : OptAt(ph, o.ind, o.next, t, k)
      BY <2>4, <2>5 DEF TakenTo, SchedInv
    <3>2. QED
      BY <1>1, <1>2, <1>5, <1>6, <2>5, <3>1 DEF SchedInv
  <2>6. CASE o.c = "c" /\ o.optarg \in DOMAIN Files /\ left' = FlattenSeq(Files[o.optarg]) /\ setup' = "read"
    <3>1. PICK k \in 1..Len(ph) : /\ FileOf(ph[k]) = o.optarg /\ t = WrittenTo(ph, k)
                                  /\ BetweenAt(ph, o.ind, o.next, k + 1)
      BY <2>4, <2>6 DEF TakenTo
    <3>2. ReadAt(ph, o.ind, o.next, FlattenSeq(Files[FileOf(ph[k])]), t, k, 0, <<>>)
      BY <2>1, <2>6, <3>1, ReadFirst
    <3>3. QED
      BY <1>1, <1>2, <1>5, <1>6, <2>6, <3>1, <3>2 DEF SchedInv
  <2>7. CASE setup' \in {"error", "exit"}
    BY <1>6, <2>7 DEF SchedInv
  <2>8. CASE o.c = "end" /\ setup' = "ready"
    <3>1. t = WrittenTo(ph, Len(ph) + 1)
      BY <2>4, <2>8 DEF TakenTo
    <3>2. LinesFrom(ph) \in Seq(Seq(ALine)) /\ Len(LinesFrom(ph)) = Len(ph)
      BY <2>1, LinesTypes
    <3>3. Before(LinesFrom(ph), Len(ph) + 1) = FlattenSeq(LinesFrom(ph))
      BY <3>2, BeforeEnds
    <3>4. table = AsWritten
      BY <1>2, <3>1, <3>3 DEF WrittenTo, AsWritten, Lines, LinesFrom
    <3>5. AsWritten' = AsWritten
      BY <1>1 DEF AsWritten, Lines
    <3>6. QED
      BY <1>1, <1>6, <2>8, <3>4, <3>5 DEF SchedInv
  <2>9. QED
    BY <1>4, <2>5, <2>6, <2>7, <2>8
<1>10. QED
  BY <1>8, <1>9

LEMMA ReadKeeps ==
  ASSUME ArgsInv, SchedInv, ReadRecord
  PROVE  SchedInv'
<1>1. /\ setup = "read" /\ setup' = "read" /\ left # <<>> /\ typed' = typed /\ next' = next
      /\ setting' = setting /\ typed \in CommandLines
  BY DEF ReadRecord, args, ArgsInv
<1>2. PICK ph, ind, letters, words, t, d, sz :
        /\ ph = typed /\ ind = next.ind /\ letters = next.next /\ words = left /\ t = table
        /\ d = dev /\ sz = sizes
  OBVIOUS
<1>3. PICK t2 : t2 = WithNamed(t, NamedIn(Got(words, d)), SizesRead(words, sz))
  OBVIOUS
<1>4. left' = AfterRecord(words) /\ table' = t2
  BY <1>2, <1>3 DEF ReadRecord, WithNamed, NamedIn, Got, SizesRead
<1>5. InStep' <=> InStep
  BY <1>1 DEF InStep, OneByOne, Lines
<1>6. CASE ~InStep
  BY <1>1, <1>5, <1>6 DEF SchedInv
<1>7. CASE InStep
  <2>1. CommentsKeep(ph) /\ ph \in CommandLines
    BY <1>1, <1>2, <1>7, InStepOf
  <2>2. PICK k, m, u : ReadAt(ph, ind, letters, words, t, k, m, u)
    BY <1>1, <1>2, <1>7 DEF SchedInv
  <2>3. \E m2, u2 : ReadAt(ph, ind, letters, AfterRecord(words), t2, k, m2, u2)
    BY <1>1, <1>2, <1>3, <2>1, <2>2, ReadNext
  <2>4. QED
    BY <1>1, <1>2, <1>4, <2>3 DEF SchedInv
<1>8. QED
  BY <1>6, <1>7

LEMMA EofKeeps ==
  ASSUME ArgsInv, SchedInv, EndOfFile
  PROVE  SchedInv'
<1>1. /\ setup = "read" /\ setup' = "options" /\ left = <<>> /\ typed' = typed /\ next' = next
      /\ setting' = setting /\ table' = table /\ typed \in CommandLines
  BY DEF EndOfFile, args, ArgsInv
<1>2. PICK ph, ind, letters, words, t :
        /\ ph = typed /\ ind = next.ind /\ letters = next.next /\ words = left /\ t = table
  OBVIOUS
<1>3. InStep' <=> InStep
  BY <1>1 DEF InStep, OneByOne, Lines
<1>4. CASE ~InStep
  BY <1>1, <1>3, <1>4 DEF SchedInv
<1>5. CASE InStep
  <2>1. PICK k, m, u : ReadAt(ph, ind, letters, words, t, k, m, u)
    BY <1>1, <1>2, <1>5 DEF SchedInv
  <2>2. OptAt(ph, ind, letters, t, k + 1)
    BY <1>1, <1>2, <2>1, ReadLast
  <2>3. QED
    BY <1>1, <1>2, <2>2 DEF SchedInv
<1>6. QED
  BY <1>4, <1>5

LEMMA SchedNext == ArgsInv /\ SchedInv /\ [Next]_vars => SchedInv'
<1> SUFFICES ASSUME ArgsInv, SchedInv, [Next]_vars PROVE SchedInv'
  OBVIOUS
<1>1. CASE typed' = typed /\ UNCHANGED config
  BY <1>1 DEF SchedInv, config, InStep, OneByOne, Lines, AsWritten
<1>2. CASE (Scan \/ Compact) /\ UNCHANGED config
  BY <1>1, <1>2 DEF Scan, Compact
<1>3. CASE UNCHANGED <<args, config>>
  BY <1>1, <1>3 DEF args
<1>4. QED
  BY <1>2, <1>3, OptionsKeep, ReadKeeps, EofKeeps DEF Next, vars

\* Whatever files are named and whatever is in them, as long as no comment shifts the words
\* of a record: serialFit schedules what their lines say, the last line counting for an entry
\* that several name (serialFit.c, the loop over fscanf).
THEOREM ScheduledAsWrittenHolds == Spec => []ScheduledAsWritten
<1>1. SchedInv => ScheduledAsWritten
  BY DEF SchedInv, ScheduledAsWritten
<1>2. QED
  BY <1>1, SchedInit, SchedNext, ArgsInvInit, ArgsInvNext, PTL DEF Spec

LEMMA Members ==
  ASSUME NEW A, NEW S, NEW g \in Seq(A), \A i \in 1..Len(g) : g[i] \in S
  PROVE  g \in Seq(S)
OBVIOUS

\* A line that is no comment has numbers, whatever file it comes from.
LEMMA NumbersOfRecords ==
  ASSUME NEW ph \in CommandLines
  PROVE  \A i \in DOMAIN FlattenSeq(LinesFrom(ph)) :
           ~IsComment(FlattenSeq(LinesFrom(ph))[i]) =>
             \A k \in 3..5 : FlattenSeq(LinesFrom(ph))[i][k] \in DOMAIN Number
<1>1. PICK S : S = {ln \in ALine : ~IsComment(ln) => \A k \in 3..5 : ln[k] \in DOMAIN Number}
  OBVIOUS
<1>2. \A f \in DOMAIN Files : Files[f] \in Seq(S)
  <2>1. TAKE f \in DOMAIN Files
  <2>2. Files[f] \in Seq(ALine)
    BY FilesAssumption DEF ALine
  <2>3. \A i \in DOMAIN Files[f] : ~IsComment(Files[f][i]) => \A k \in 3..5 : Files[f][i][k] \in DOMAIN Number
    BY FilesAssumption
  <2>4. PICK g : g = Files[f]
    OBVIOUS
  <2>5. g \in Seq(ALine) /\ \A i \in 1..Len(g) : g[i] \in S
    BY <1>1, <2>2, <2>3, <2>4
  <2>6. g \in Seq(S)
    BY <2>5, Members
  <2>7. QED
    BY <2>4, <2>6
<1>3. \A p : LinesOf(p) \in Seq(S)
  <2>1. <<>> \in Seq(S)
    OBVIOUS
  <2>2. QED
    BY <1>2, <2>1 DEF LinesOf
<1>4. LinesFrom(ph) \in Seq(Seq(S))
  <2>1. PICK g : g = LinesFrom(ph)
    OBVIOUS
  <2>2. g \in Seq(Seq(ALine)) /\ \A i \in 1..Len(g) : g[i] \in Seq(S)
    BY <1>3, <2>1, LinesTypes
  <2>3. g \in Seq(Seq(S))
    BY <2>2, Members
  <2>4. QED
    BY <2>1, <2>3
<1>5. PICK g : g = FlattenSeq(LinesFrom(ph))
  OBVIOUS
<1>6. g \in Seq(S)
  BY <1>4, <1>5, FlatTypes
<1>7. \A i \in DOMAIN g : g[i] \in S
  BY <1>6
<1>8. QED
  BY <1>1, <1>5, <1>7

LEMMA OrderlyFits ==
  ASSUME NEW lines \in Seq(ALine), NEW e \in DOMAIN Written(lines),
         \A i \in DOMAIN lines : ~IsComment(lines[i]) =>
           /\ Orderly(lines[i]) /\ \A k \in 3..5 : lines[i][k] \in DOMAIN Number
  PROVE  /\ Written(lines)[e].min \in 1..Written(lines)[e].max
         /\ Written(lines)[e].max <= MAX_TRANSFER
         /\ Written(lines)[e].max - Written(lines)[e].min + 1 <= Written(lines)[e].max
<1>1. Naming(lines, e) \in SUBSET (1..Len(lines)) /\ Len(lines) \in Nat /\ Naming(lines, e) # {}
  <2>1. Naming(lines, e) \subseteq 1..Len(lines) /\ Len(lines) \in Nat
    BY NamingSome
  <2>2. DOMAIN Written(lines) = {d \in Entries : Naming(lines, d) # {}}
    BY WrittenAt
  <2>3. QED
    BY <2>1, <2>2
<1>2. PICK x \in Naming(lines, e) : \A y \in Naming(lines, e) : y <= x
  BY <1>1, GreatestOf
<1>3. LastOf(lines, e) = x
  BY <1>1, <1>2, LastIsLast
<1>4. PICK ln : ln = lines[x]
  OBVIOUS
<1>5. Written(lines)[e] = Scheduled(Numbers(ln))
  BY <1>3, <1>4, WrittenAt
<1>6. Orderly(ln) /\ ln[3] \in DOMAIN Number /\ ln[4] \in DOMAIN Number
  <2>1. x \in DOMAIN lines /\ ~IsComment(ln)
    BY <1>2, <1>4 DEF Naming
  <2>2. QED
    BY <1>4, <2>1
<1>7. PICK a, b : a = Number[ln[3]] /\ b = Number[ln[4]]
  OBVIOUS
<1>8. a \in Nat /\ b \in Nat /\ a > 0 /\ a <= b /\ MAX_TRANSFER \in Nat /\ MAX_TRANSFER > 0
  BY <1>6, <1>7, FilesAssumption, TransferAssumption DEF Orderly
<1>9. Numbers(ln)[1] = a /\ Numbers(ln)[2] = b
  BY <1>7 DEF Numbers
<1>10. PICK lo, hi : lo = Clipped(a) /\ hi = Clipped(b)
  OBVIOUS
<1>11. Written(lines)[e].min = lo /\ Written(lines)[e].max = hi
  BY <1>5, <1>9, <1>10 DEF Scheduled, ClippedMin
<1>12. lo \in Nat /\ hi \in Nat /\ lo > 0 /\ lo <= hi /\ hi <= MAX_TRANSFER
  BY <1>8, <1>10 DEF Clipped
<1>13. lo \in 1..hi /\ hi - lo + 1 <= hi
  BY <1>12
<1>14. QED
  BY <1>11, <1>12, <1>13

\* A line that asks for sizes from 1 on, in order, makes a sweep over frames that fit in the
\* buffers, and no more of them than initSpDat allocates measurements for (serialFit.c).
THEOREM SweepFitsHolds == Spec => []SweepFits
<1>1. ArgsInv /\ SchedInv => SweepFits
  <2>1. SUFFICES ASSUME ArgsInv, SchedInv, setup = "ready", InStep,
                        \A i \in DOMAIN Lines : ~IsComment(Lines[i]) => Orderly(Lines[i]),
                        NEW e \in DOMAIN table
                 PROVE  /\ table[e].min \in 1..table[e].max
                        /\ table[e].max <= MAX_TRANSFER
                        /\ table[e].max - table[e].min + 1 <= table[e].max
    BY DEF SweepFits
  <2>2. PICK ph, lines : ph = typed /\ lines = Lines /\ lines = FlattenSeq(LinesFrom(ph))
    BY DEF Lines, LinesFrom
  <2>3. table = Written(lines) /\ ph \in CommandLines
    BY <2>1, <2>2 DEF SchedInv, ArgsInv, AsWritten
  <2>4. lines \in Seq(ALine)
    BY <2>2, <2>3, LinesTypes, FlatTypes
  <2>5. \A i \in DOMAIN lines : ~IsComment(lines[i]) => \A k \in 3..5 : lines[i][k] \in DOMAIN Number
    BY <2>2, <2>3, NumbersOfRecords
  <2>6. QED
    BY <2>1, <2>2, <2>3, <2>4, <2>5, OrderlyFits
<1>2. QED
  BY <1>1, SchedInit, SchedNext, ArgsInvInit, ArgsInvNext, PTL DEF Spec
===============================================================================
