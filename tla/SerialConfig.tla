----------------------------- MODULE SerialConfig -----------------------------
(****************************************************************************)
(* What serialFit (src/serialFit.c) does before it starts its threads: it   *)
(* takes its options from the arguments that main left it, reads the        *)
(* configuration file with fscanf, a record at a time, and schedules the    *)
(* entries of spDatDat that the records name.  The sweep itself is          *)
(* SerialTest, whose constants are decided here.                            *)
(****************************************************************************)
EXTENDS FitArgs, FiniteSets

CONSTANTS
  Files,              \* the lines of every configuration file: sequences of words
  Number,             \* the words that %u reads, with their values
  Marked,             \* the words that begin with #
  Leftovers,          \* what a variable that nothing was assigned to may hold
  MAX_TRANSFER

ASSUME TransferAssumption == MAX_TRANSFER \in Nat \ {0}

------------------------------------------------------------------------------
(* The table spDatDat: a receiver, a transmitter, the lock of the cable and *)
(* the rates of the receiver.                                               *)

Async == <<"sp1", "sp2", "sp3", "sp8">>
Sync == <<"sp1s", "sp2s", "sp3s", "sp5s", "sp8s">>
Looped == ToSet(Async \o Sync) \cup {"sp4", "sp6"}
Crossed(ports) == {<<ports[i], ports[j]>> : i, j \in DOMAIN ports} \ {<<p, p>> : p \in ToSet(ports)}
Entries == {<<p, p>> : p \in Looped} \cup Crossed(Async) \cup Crossed(Sync)
protSync(e) == e[1] \in ToSet(Sync)

\* Mutant: the lock of the receiver.
OwnLock(e) == e[1]

\* Both directions of a cable name the lock of its lower port.
spLockOf(e) ==
  LET ports == IF protSync(e) THEN Sync ELSE Async
      first == CHOOSE i \in DOMAIN ports :
                 ports[i] \in ToSet(e) /\ \A j \in 1..i - 1 : ports[j] \notin ToSet(e)
  IN  IF e[1] = e[2] THEN e[1] ELSE ports[first]

Slow(port) == port \in {"sp3s", "sp5s"}
RatesOf(port) ==
  IF port \notin ToSet(Sync) THEN <<1200, 2400, 4800, 9600, 19200, 38400, 57600, 115200>>
  ELSE IF Slow(port) THEN <<153600, 614400>>
  ELSE <<19200, 38400, 57600, 76800, 153600>>

\* Mutant: the rule for sp3s and sp5s looks at the receiver only.
SkippedByReceiver(e, rate, override) ==
  \/ override # 0 /\ override # rate
  \/ protSync(e) /\ e[1] # e[2] /\ Slow(e[1]) /\ ~Slow(e[2]) /\ rate # 153600

\* The two "continue" of the loop over the rates of an entry: another rate than that of
\* option -b, or one that sp3s and sp5s do not share with the port at the other end.
Skipped(e, rate, override) ==
  \/ override # 0 /\ override # rate
  \/ /\ protSync(e) /\ e[1] # e[2] /\ (Slow(e[1]) \/ Slow(e[2]))
     /\ ~(Slow(e[1]) /\ Slow(e[2])) /\ rate # 153600
RatesRunOf(e, override) == {r \in ToSet(RatesOf(e[1])) : ~Skipped(e, r, override)}

------------------------------------------------------------------------------
(* calculateTimeout.                                                        *)

\* The product of two int32 as the machine leaves it, for 0 <= b < 2^15.
Times32(a, b) ==
  LET low == (a % 65536) * b
      high == (a \div 65536) * b + low \div 65536
  IN  (((high + 32768) % 65536) - 32768) * 65536 + (low % 65536)

\* C divides towards zero.
Quotient(a, b) == IF a >= 0 THEN a \div b ELSE -((-a) \div b)

\* Mutant: divides before it multiplies.
TimeoutDividedFirst(bytes, rate, multiplier) ==
  Times32(Times32(Quotient(bytes * 10, rate), 1000000), multiplier)

timeoutUsecs(bytes, rate, multiplier) ==
  Times32(Quotient(Times32(1000000, bytes * 10), rate), multiplier)

------------------------------------------------------------------------------
VARIABLES
  setting,            \* the options of serialFit by their letter, NULL before
  left, next,         \* the words of the open file not yet read; where fopen was called
  dev, sizes,         \* spDev_r and spDev_w; minFrameSize, maxFrameSize and iterCnt
  table,              \* the entries scheduled, with the fields read for them
  setup               \* serialFit: options, read, ready, error or "exit"

config == <<setting, left, next, dev, sizes, table, setup>>

Flags == {"a", "f", "q", "h"}
Valued == {"m", "b", "c", "i", "x", "r", "t", "y"}

ConfigInit ==
  /\ setting = [c \in (Flags \cup Valued) \ {"c", "h"} |-> Null]
  /\ left = <<>> /\ next = [ind |-> 1, next |-> <<>>]
  /\ dev = <<"?", "?">> /\ sizes = <<0, 0, 0>>
  /\ table = <<>> /\ setup = "options"

\* One turn of the loop over serialFit's options: usage, which exits, for -h and for what
\* it does not know; -c reads a file at once, into variables of its own.
Options ==
  /\ argsAt = "found" /\ setup = "options"
  /\ LET o == GetOpt(testArgv, testArgc, next.ind, next.next, Flags, Valued)
     IN  /\ next' = [ind |-> o.ind, next |-> o.next]
         /\ \/ /\ o.c \in DOMAIN setting
               /\ setting' = [setting EXCEPT ![o.c] = IF o.c \in Flags THEN "set" ELSE o.optarg]
               /\ UNCHANGED <<left, sizes, setup>>
            \/ /\ o.c = "c" /\ o.optarg \in DOMAIN Files
               /\ left' = FlattenSeq(Files[o.optarg])
               /\ sizes' \in [1..3 -> Leftovers]
               /\ setup' = "read"
               /\ UNCHANGED setting
            \/ /\ o.c = "c" /\ o.optarg \notin DOMAIN Files
               /\ setup' = "error"
               /\ UNCHANGED <<setting, left, sizes>>
            \/ /\ o.c \in {"h", "?", "word"}
               /\ setup' = "exit"
               /\ UNCHANGED <<setting, left, sizes>>
            \/ /\ o.c = "end"
               /\ setup' = "ready"
               /\ UNCHANGED <<setting, left, sizes>>
  /\ UNCHANGED <<args, dev, table>>

\* fscanf "%s %s %u %u %u": the numbers it gets to before a word that is none; that word
\* is left for the next call, without the sign that %u has read of it.
NumbersAt(words) ==
  LET is(k) == k <= Len(words) /\ words[k] \in DOMAIN Number
  IN  IF ~is(3) THEN 0 ELSE IF ~is(4) THEN 1 ELSE IF ~is(5) THEN 2 ELSE 3
Unsigned(words) ==
  IF words # <<>> /\ words[1] \in DOMAIN Letters THEN Letters[words[1]] \o Tail(words) ELSE words
AfterRecord(words) ==
  LET taken == 2 + NumbersAt(words)
      rest == SubSeq(words, taken + 1, Len(words))
  IN  IF taken < 5 THEN Unsigned(rest) ELSE rest

\* Mutants: an entry is scheduled whose receiver is named; the minimum is kept as it is.
MatchesReceiver(e, d) == e[1] = d[1]
UnclippedMin(sz) == sz

Matches(e, d) == e = d
\* A size out of range becomes MIN(size, MAX_TRANSFER): zero remains.
Clipped(sz) == IF sz <= MAX_TRANSFER THEN sz ELSE MAX_TRANSFER
ClippedMin(sz) == Clipped(sz)

Scheduled(sz) == [min |-> ClippedMin(sz[1]), max |-> Clipped(sz[2]), iter |-> sz[3]]

ReadRecord ==
  /\ setup = "read" /\ left # <<>>
  /\ LET n == NumbersAt(left)
         got == <<left[1], IF Len(left) > 1 THEN left[2] ELSE dev[2]>>
         sz == [k \in 1..3 |-> IF k <= n THEN Number[left[2 + k]] ELSE sizes[k]]
         named == IF got[1] \in Marked THEN {} ELSE {e \in Entries : Matches(e, got)}
     IN  /\ dev' = got /\ sizes' = sz
         /\ left' = AfterRecord(left)
         /\ table' = [e \in DOMAIN table \cup named |->
                        IF e \in named THEN Scheduled(sz) ELSE table[e]]
  /\ UNCHANGED <<args, setting, next, setup>>

\* fscanf says EOF; fclose.
EndOfFile ==
  /\ setup = "read" /\ left = <<>>
  /\ setup' = "options"
  /\ UNCHANGED <<args, setting, left, next, dev, sizes, table>>

Init == ArgsInit /\ ConfigInit
Next ==
  \/ (Scan \/ Compact) /\ UNCHANGED config
  \/ Options \/ ReadRecord \/ EndOfFile
  \/ (argsAt = "recursion" \/ setup \in {"ready", "error", "exit"}) /\ UNCHANGED <<args, config>>

vars == <<args, config>>
Spec == Init /\ [][Next]_vars

------------------------------------------------------------------------------
(* What SerialTest takes for granted.                                       *)

Value(word) == IF word \in DOMAIN Number THEN Number[word] ELSE 0
baudRateOveride == Value(setting["b"])
tmoMultiplier == IF setting["y"] = Null THEN 1000 ELSE Value(setting["y"])

\* The lines of the files that the user named with -c, and what they say read line by line,
\* as usage describes it: the last line that names an entry counts, comments do not.
FileOf(p) ==
  IF p[1] \notin DOMAIN Letters \/ Letters[p[1]][1] # "c" THEN Null
  ELSE IF Len(Letters[p[1]]) > 1 THEN Letters[p[1]][2]
  ELSE IF Len(p) > 1 THEN p[2] ELSE Null
LinesOf(p) == IF FileOf(p) \in DOMAIN Files THEN Files[FileOf(p)] ELSE <<>>
Lines == FlattenSeq([i \in DOMAIN typed |-> LinesOf(typed[i])])
IsComment(ln) == ln[1] \in Marked
Naming(lines, e) == {i \in DOMAIN lines : ~IsComment(lines[i]) /\ <<lines[i][1], lines[i][2]>> = e}
Written(lines) ==
  [e \in {x \in Entries : Naming(lines, x) # {}} |->
     LET i == CHOOSE k \in Naming(lines, e) : \A m \in Naming(lines, e) : m <= k
     IN  Scheduled([k \in 1..3 |-> Number[lines[i][2 + k]]])]
AsWritten == Written(Lines)

\* A line is a comment or a record that begins with the name of a port; behind the sign of
\* a word that %u has begun to read is a name.
ASSUME FilesAssumption ==
  /\ Files \in [DOMAIN Files -> Seq(Seq(STRING) \ {<<>>})] /\ DOMAIN Files \subseteq STRING
  /\ \A f \in DOMAIN Files : \A i \in DOMAIN Files[f] :
       LET ln == Files[f][i]
       IN  /\ ~IsComment(ln) => /\ Len(ln) = 5 /\ \A k \in 3..5 : ln[k] \in DOMAIN Number
                                /\ ln[1] \notin DOMAIN Number \cup DOMAIN Letters
           /\ \A k \in DOMAIN ln : ln[k] \in DOMAIN Letters =>
                Len(Letters[ln[k]]) = 1 /\ Letters[ln[k]][1] \notin DOMAIN Number \cup Looped
  /\ Marked \cap (DOMAIN Number \cup DOMAIN Letters) = {}
  /\ \A word \in DOMAIN Number : Number[word] \in Nat

\* Of the letters of an argument only the first takes a value, which is behind it in the same
\* word or is the next; the last argument may lack it.
TakesValue(p) == p[1] \in DOMAIN Letters /\ Letters[p[1]][1] \in Valued
ASSUME OptionsAssumption ==
  \A phrases \in CommandLines : \A i \in DOMAIN phrases :
    LET p == phrases[i]
    IN  p \notin FitPhrases =>
          /\ Len(p) \in IF ~(TakesValue(p) /\ OneLetter(p)) THEN {1}
                       ELSE IF i < Len(phrases) THEN {2} ELSE {1, 2}
          /\ (p[1] \in DOMAIN Letters /\ ~TakesValue(p)) => ToSet(Letters[p[1]]) \cap Valued = {}

\* fscanf knows no lines.  These comments cannot be told from records that name nothing:
\* an even number of words without numbers and ports, or a whole record behind a #.
KeepsStep(ln) ==
  \/ Len(ln) % 2 = 0 /\ \A i \in DOMAIN ln : ln[i] \notin DOMAIN Number \cup Looped
  \/ Len(ln) = 5 /\ \A i \in DOMAIN ln : ln[i] \in DOMAIN Number <=> i > 2
InStep == OneByOne /\ \A i \in DOMAIN Lines : IsComment(Lines[i]) => KeepsStep(Lines[i])

\* usage: "lines beginning with # are comments": the schedule is what the other lines say.
CommentsIgnored == setup = "ready" => table = AsWritten

\* The schedule is what the lines say, also when several name the same entry, name none
\* or come from several files, as long as the options of fit are typed one by one and no
\* comment shifts the words of a record.
ScheduledAsWritten == (setup = "ready" /\ InStep) => table = AsWritten

\* The two readers of a cable meet once per rate (SerialTest): both directions must come
\* to the same rates in the same order, though each has the table of its own port.
Ascending(s) == \A i, j \in DOMAIN s : i < j => s[i] < s[j]
RatesAlike ==
  setup = "ready" =>
    \A e, f \in DOMAIN table :
      f = <<e[2], e[1]>> =>
        /\ RatesRunOf(e, baudRateOveride) = RatesRunOf(f, baudRateOveride)
        /\ Ascending(RatesOf(e[1])) /\ Ascending(RatesOf(f[1]))

\* They meet at one semaphore, which no other cable uses unless it shares a port.
LockShared ==
  setup = "ready" =>
    \A e, f \in DOMAIN table :
      /\ f = <<e[2], e[1]>> => spLockOf(e) = spLockOf(f)
      /\ ToSet(e) \cap ToSet(f) = {} => spLockOf(e) # spLockOf(f)

\* A line that asks for sizes from 1 on, in order, makes a sweep over frames that fit in
\* the buffers and, as many as they are, in the measurements that initSpDat allocates.
Orderly(ln) == Number[ln[3]] > 0 /\ Number[ln[3]] <= Number[ln[4]]
SweepFits ==
  (/\ setup = "ready" /\ InStep
   /\ \A i \in DOMAIN Lines : ~IsComment(Lines[i]) => Orderly(Lines[i])) =>
    \A e \in DOMAIN table :
      /\ table[e].min \in 1..table[e].max
      /\ table[e].max <= MAX_TRANSFER
      /\ table[e].max - table[e].min + 1 <= table[e].max

\* The time that a frame takes on the line: ten bits for a byte.
Transmission(bytes, rate) == (bytes * 100000) \div (rate \div 100)
LongEnough(sizes_) ==
  setup = "ready" =>
    \A e \in DOMAIN table :
      \A r \in RatesRunOf(e, baudRateOveride), n \in table[e].min..table[e].max :
        n \in sizes_ => timeoutUsecs(n, r, tmoMultiplier) >= Transmission(n, r)

\* "50 times longer should be more than enough" (calculateTimeout): no frame of a
\* scheduled sweep is given less time than the line takes for it.
TimeoutsEnough == LongEnough(1..MAX_TRANSFER)

\* So it is for frames up to 214 bytes, of which the bits in microseconds are an int32, with
\* a multiplier that is not above the default.
SmallTimeoutsEnough == tmoMultiplier \in 1..1000 => LongEnough(1..214)
===============================================================================
