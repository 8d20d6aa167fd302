------------------------------ MODULE SerialTest ------------------------------
(****************************************************************************)
(* The serial sweep of M-Fit (src/serialFit.c): a monitor (the main thread, *)
(* serialFit), and for every test of the configuration a reader thread      *)
(* (serialPort_r) and a writer thread (serialPort_w), which synchronise     *)
(* through four semaphores and two plain state words, spSt_r and spSt_w.    *)
(*                                                                          *)
(* A step is one access to shared data, together with the thread-local work *)
(* that follows it.  Two tests whose devices are swapped are the two        *)
(* directions of one cable: their readers have to move from one baud rate   *)
(* to the next together.                                                    *)
(****************************************************************************)
EXTENDS Integers, Sequences, FiniteSets

CONSTANTS
  NTests,            \* scheduled entries of spDatDat, numbered in table order
  DevR, DevW,        \* devName_r and devName_w of an entry
  NRates,            \* entries of the receiver's bRate_t table; then a zero one
  RatesRun,          \* per test, the entries that no "continue" skips
  MinFrame, MaxFrame,\* minFrameSize and maxFrameSize
  FrameIter,         \* spdp->iter, the sweeps of a configuration line
  Iterations,        \* option -i
  RxTypes, QuickFails, MonitorLoops,\* what the user may give as -x, -q and -m
  Faults,            \* what the devices and the line may do wrong
  MaxSignals,        \* bound: how many SIGINTs the user sends
  PromptRendezvous   \* scheduling assumption, see MayRun

FaultKinds == {"open", "late", "lose", "rxError", "txError", "txShort", "txStall"}

Test == 1..NTests
Cable(t) == {DevR[t], DevW[t]}
Cables == {Cable(t) : t \in Test}
Loopback(t) == DevR[t] = DevW[t]

\* Two lines of a configuration never share a receiver or a transmitter: their
\* entries would share semaphores (the check that is a TODO in spConfigDat).
ASSUME TestsAssumption ==
  /\ NTests \in Nat \ {0}
  /\ \A t, u \in Test : t # u => DevR[t] # DevR[u] /\ DevW[t] # DevW[u]
ASSUME SweepAssumption ==
  /\ NRates \in Nat
  /\ RatesRun \in [Test -> SUBSET (1..NRates)]
  /\ MinFrame \in Nat \ {0} /\ MaxFrame \in Nat /\ MinFrame <= MaxFrame
  /\ FrameIter \in Nat \ {0}
ASSUME OptionAssumption ==
  /\ Iterations \in Nat
  /\ RxTypes \subseteq 0..3
  /\ QuickFails \subseteq BOOLEAN
  /\ MonitorLoops \subseteq {"waitAndScroll", "waitAndUnblock", "waitAndBlock"}
ASSUME EnvironmentAssumption ==
  /\ Faults \subseteq FaultKinds
  /\ MaxSignals \in Nat
  /\ PromptRendezvous \in BOOLEAN

SpState == {"waitingForMon", "waitingForRx", "waitingForConcurrent", "transmitting",
            "transmitComplete", "receiving", "receiveComplete", "scheduled"}

VARIABLES
  rxType, quickFail, monitorLoop,\* the options, fixed before the threads start
  mp, mp_r, mp_w, spLock,      \* the semaphores, spLock by cable
  spSt_r, spSt_w,              \* the state words the threads poll
  rpc, spTmp, iterCnt, comSize,\* reader: place and locals
  wpc, bCnt,                   \* writer: place and the result of write
  mpc, mt, iter, spd,          \* monitor: place, entry, sweeps left, last copy
  keepGoing, signals,          \* run flag of fit.c; SIGINTs so far
  fd_r, fd_w, lbrp, comSz,     \* fields of the entry shared by its threads
  wire,                        \* bytes written and not yet read, each its frame's size
  portRate,                    \* the rate a cable's ports were last set to
  rxOK, rxNG, txOK, txNG,      \* an entry's counters, summed over its rates
  ftPassed, ftFailed,          \* ftPassCnt # 0; one of the failure counts # 0
  named, verdict               \* tests in errorStr; the line ftComplete prints

sems == <<mp, mp_r, mp_w, spLock>>
words == <<spSt_r, spSt_w>>
readers == <<rpc, spTmp, iterCnt, comSize>>
writers == <<wpc, bCnt>>
monitor == <<mpc, mt, iter, spd, keepGoing, signals, named, verdict>>
entry == <<fd_r, fd_w, lbrp, comSz>>
line == <<wire, portRate>>
rxCount == <<rxOK, rxNG>>
txCount == <<txOK, txNG>>
result == <<ftPassed, ftFailed>>
options == <<rxType, quickFail, monitorLoop>>
vars == <<options, sems, words, readers, writers, monitor, entry, line, rxCount, txCount, result>>

ReaderPC == {"park", "waitMon", "open", "rate", "init", "check", "grant", "mark", "lock",
             "restore", "frame", "poll", "receive", "complete", "postMon", "cancelled"}
WriterPC == {"ready", "waitRx", "taken", "write", "count", "cancelled"}
MonitorPC == {"post", "wait", "cancel", "joinW", "joinR", "done"}

Busy(t) == rpc[t] \notin {"park", "waitMon", "cancelled"}
Sending(t) == wpc[t] \in {"taken", "write", "count"}

Init ==
  /\ rxType \in RxTypes /\ quickFail \in QuickFails /\ monitorLoop \in MonitorLoops
  /\ mp = [t \in Test |-> 0] /\ mp_r = [t \in Test |-> 0] /\ mp_w = [t \in Test |-> 0]
  /\ spLock = [c \in Cables |-> 0]
  /\ spSt_r = [t \in Test |-> "scheduled"] /\ spSt_w = [t \in Test |-> "scheduled"]
  /\ rpc = [t \in Test |-> "park"] /\ spTmp = [t \in Test |-> "scheduled"]
  /\ iterCnt = [t \in Test |-> 0] /\ comSize = [t \in Test |-> MinFrame]
  /\ wpc = [t \in Test |-> "ready"] /\ bCnt = [t \in Test |-> 0]
  /\ mpc = "post" /\ mt = 1 /\ iter = Iterations /\ spd = <<>>
  /\ keepGoing = TRUE /\ signals = 0
  /\ fd_r = [t \in Test |-> FALSE] /\ fd_w = [t \in Test |-> FALSE]
  /\ lbrp = [t \in Test |-> NRates + 1] /\ comSz = [t \in Test |-> 0]
  /\ wire = [t \in Test |-> <<>>] /\ portRate = [c \in Cables |-> 0]
  /\ rxOK = [t \in Test |-> 0] /\ rxNG = [t \in Test |-> 0]
  /\ txOK = [t \in Test |-> 0] /\ txNG = [t \in Test |-> 0]
  /\ ftPassed = FALSE /\ ftFailed = FALSE
  /\ named = {} /\ verdict = "none"

------------------------------------------------------------------------------
(* What the readers are built from.                                         *)

\* Mutant: compares the devices in the same direction.
ConcurrentSameWay(t) == {u \in Test : u # t /\ DevR[u] = DevR[t] /\ DevW[u] = DevW[t]}

\* getConcurrentTest: the running tests of the same cable, other direction.
Concurrent(t) == {u \in Test : u # t /\ DevR[u] = DevW[t] /\ DevW[u] = DevR[t]}

GoTo(t, place) == rpc' = [rpc EXCEPT ![t] = place]
Post(sem, i) == [sem EXCEPT ![i] = @ + 1]
\* Mutant: the call returns without having got a post.
WaitUnchecked(sem, i) == sem' = [sem EXCEPT ![i] = @ - 1]
Wait(sem, i) == sem[i] > 0 /\ sem' = [sem EXCEPT ![i] = @ - 1]

\* initSerialPort on both ports of the cable: set the rate, flush both queues.
InitPorts(t) ==
  /\ portRate' = [portRate EXCEPT ![Cable(t)] = lbrp[t]]
  /\ wire' = [u \in Test |-> IF Cable(u) = Cable(t) THEN <<>> ELSE wire[u]]

\* Start of the iteration and frame size loops of a rate.
FirstFrame(t) ==
  /\ iterCnt' = [iterCnt EXCEPT ![t] = 1]
  /\ comSize' = [comSize EXCEPT ![t] = MinFrame]

\* lbrp++, which passes the zero entry once cancelSpDat has moved lbrp there: the
\* model follows it over one entry of the memory beyond (the bound Beyond).
Beyond == NRates + 2
\* Mutant: steps over an entry.
NextRateByTwo(t) == lbrp' = [lbrp EXCEPT ![t] = IF @ < NRates THEN @ + 2 ELSE NRates + 1]
NextRate(t) == lbrp' = [lbrp EXCEPT ![t] = IF @ <= Beyond THEN @ + 1 ELSE @]

\* The conditions that end the loop over frame sizes and the loop over iterations.
LastSize(t) == comSize[t] >= MaxFrame
LastIter(t) == iterCnt[t] >= FrameIter

\* The ends of the three nested loops after a frame whose result is ok or not.
AfterFrame(t, ok) ==
  \/ /\ quickFail /\ ~ok
     /\ GoTo(t, "complete")
     /\ UNCHANGED <<iterCnt, comSize, lbrp>>
  \/ /\ ~quickFail \/ ok
     /\ ~LastSize(t)
     /\ comSize' = [comSize EXCEPT ![t] = @ + 1]
     /\ GoTo(t, "frame")
     /\ UNCHANGED <<iterCnt, lbrp>>
  \/ /\ ~quickFail \/ ok
     /\ LastSize(t) /\ ~LastIter(t)
     /\ iterCnt' = [iterCnt EXCEPT ![t] = @ + 1]
     /\ comSize' = [comSize EXCEPT ![t] = MinFrame]
     /\ GoTo(t, "frame")
     /\ UNCHANGED lbrp
  \/ /\ ~quickFail \/ ok
     /\ LastSize(t) /\ LastIter(t)
     /\ NextRate(t)
     /\ GoTo(t, "rate")
     /\ UNCHANGED <<iterCnt, comSize>>

------------------------------------------------------------------------------
(* The reader thread: serialPort_r and the receiver half of spExtLpback.    *)

\* Top of the loop of serialPort_r.
Park(t) ==
  /\ rpc[t] = "park"
  /\ spSt_r' = [spSt_r EXCEPT ![t] = "waitingForMon"]
  /\ GoTo(t, "waitMon")
  /\ UNCHANGED <<sems, spSt_w, spTmp, iterCnt, comSize, writers, monitor, entry,
                 line, rxCount, txCount, result>>

Begin(t) ==
  /\ rpc[t] = "waitMon"
  /\ Wait(mp_r, t)
  /\ GoTo(t, "open")
  /\ UNCHANGED <<mp, mp_w, spLock, words, spTmp, iterCnt, comSize, writers, monitor,
                 entry, line, rxCount, txCount, result>>

\* Both opens, and the start of the rate loop.  A port that cannot be opened may
\* be open for another test already; its descriptor is then shared.  Only the
\* failure of the receiver of two different ports is returned without a count.
Open(t) ==
  /\ rpc[t] = "open"
  /\ \E r \in BOOLEAN, w \in BOOLEAN :
       LET gotR == r \/ (~Loopback(t) /\ \E u \in Test : u # t /\ DevW[u] = DevR[t] /\ fd_w[u])
           gotW == IF Loopback(t) THEN gotR
                   ELSE w \/ \E u \in Test : u # t /\ DevR[u] = DevW[t] /\ fd_r[u]
       IN  /\ "open" \in Faults \/ (r /\ w)
           /\ fd_r' = [fd_r EXCEPT ![t] = gotR]
           /\ fd_w' = [fd_w EXCEPT ![t] = IF gotR THEN gotW ELSE @]
           /\ \/ gotR /\ gotW /\ GoTo(t, "rate") /\ lbrp' = [lbrp EXCEPT ![t] = 1]
              \/ ~(gotR /\ gotW) /\ GoTo(t, "postMon") /\ UNCHANGED lbrp
           /\ ftFailed' = (ftFailed \/ (gotR /\ ~gotW) \/ (~gotR /\ Loopback(t)))
  /\ UNCHANGED <<sems, words, spTmp, iterCnt, comSize, writers, monitor, comSz, line,
                 rxCount, txCount, ftPassed>>

\* Head of the rate loop: the zero entry ends it, a rate of the -b option or of
\* the synchronous port rules is skipped, memory beyond the table is anything.
Rate(t) ==
  /\ rpc[t] = "rate"
  /\ \/ lbrp[t] > NRates /\ GoTo(t, "complete") /\ UNCHANGED lbrp
     \/ lbrp[t] <= NRates /\ lbrp[t] \notin RatesRun[t] /\ NextRate(t) /\ UNCHANGED rpc
     \/ /\ lbrp[t] \in RatesRun[t] \cup {Beyond}
        /\ GoTo(t, IF Concurrent(t) = {} THEN "init" ELSE "check")
        /\ UNCHANGED lbrp
  /\ UNCHANGED <<sems, words, spTmp, iterCnt, comSize, writers, monitor, fd_r, fd_w,
                 comSz, line, rxCount, txCount, result>>

\* A loopback, or a cable tested in one direction: no one to wait for.
InitAlone(t) ==
  /\ rpc[t] = "init"
  /\ InitPorts(t) /\ FirstFrame(t)
  /\ GoTo(t, "frame")
  /\ UNCHANGED <<sems, words, spTmp, writers, monitor, entry, rxCount, txCount, result>>

\* Mutant: looks at its own word.
CheckOwnWord(t) ==
  /\ rpc[t] = "check"
  /\ \E c \in Concurrent(t) :
       GoTo(t, IF spSt_r[t] = "waitingForConcurrent" THEN "grant" ELSE "mark")
  /\ UNCHANGED <<sems, words, spTmp, iterCnt, comSize, writers, monitor, entry, line,
                 rxCount, txCount, result>>

\* The rendezvous.  Check reads the word the other reader writes in Mark.
Check(t) ==
  /\ rpc[t] = "check"
  /\ \E c \in Concurrent(t) :
       GoTo(t, IF spSt_r[c] = "waitingForConcurrent" THEN "grant" ELSE "mark")
  /\ UNCHANGED <<sems, words, spTmp, iterCnt, comSize, writers, monitor, entry, line,
                 rxCount, txCount, result>>

Grant(t) ==
  /\ rpc[t] = "grant"
  /\ InitPorts(t) /\ FirstFrame(t)
  /\ spLock' = Post(spLock, Cable(t))
  /\ GoTo(t, "frame")
  /\ UNCHANGED <<mp, mp_r, mp_w, words, spTmp, writers, monitor, entry, rxCount, txCount,
                 result>>

Mark(t) ==
  /\ rpc[t] = "mark"
  /\ spTmp' = [spTmp EXCEPT ![t] = spSt_r[t]]
  /\ spSt_r' = [spSt_r EXCEPT ![t] = "waitingForConcurrent"]
  /\ GoTo(t, "lock")
  /\ UNCHANGED <<sems, spSt_w, iterCnt, comSize, writers, monitor, entry, line, rxCount,
                 txCount, result>>

Lock(t) ==
  /\ rpc[t] = "lock"
  /\ Wait(spLock, Cable(t))
  /\ GoTo(t, "restore")
  /\ UNCHANGED <<mp, mp_r, mp_w, words, spTmp, iterCnt, comSize, writers, monitor, entry,
                 line, rxCount, txCount, result>>

\* Mutant: the word stays waitingForConcurrent.
RestoreForgotten(t) ==
  /\ rpc[t] = "restore"
  /\ FirstFrame(t)
  /\ GoTo(t, "frame")
  /\ UNCHANGED <<sems, words, spTmp, writers, monitor, entry, line, rxCount, txCount, result>>

Restore(t) ==
  /\ rpc[t] = "restore"
  /\ spSt_r' = [spSt_r EXCEPT ![t] = spTmp[t]]
  /\ FirstFrame(t)
  /\ GoTo(t, "frame")
  /\ UNCHANGED <<sems, spSt_w, spTmp, writers, monitor, entry, line, rxCount, txCount,
                 result>>

\* The buffers and comSz are prepared before the writer is known to be ready.
Frame(t) ==
  /\ rpc[t] = "frame"
  /\ comSz' = [comSz EXCEPT ![t] = comSize[t]]
  /\ GoTo(t, "poll")
  /\ UNCHANGED <<sems, words, spTmp, iterCnt, comSize, writers, monitor, fd_r, fd_w, lbrp,
                 line, rxCount, txCount, result>>

StartFrame(t) ==
  /\ rpc[t] = "poll"
  /\ spSt_w[t] = "waitingForRx"
  /\ spSt_r' = [spSt_r EXCEPT ![t] = "receiving"]
  /\ mp_w' = Post(mp_w, t)
  /\ GoTo(t, "receive")
  /\ UNCHANGED <<mp, mp_r, spLock, spSt_w, spTmp, iterCnt, comSize, writers, monitor, entry,
                 line, rxCount, txCount, result>>

\* MAX_WAIT_FOR_TX polls found the writer elsewhere: ftTxTimeout, test abandoned.
TxTimeout(t) ==
  /\ rpc[t] = "poll"
  /\ "txStall" \in Faults
  /\ spSt_w[t] # "waitingForRx"
  /\ ftFailed' = TRUE
  /\ GoTo(t, "postMon")
  /\ UNCHANGED <<sems, words, spTmp, iterCnt, comSize, writers, monitor, entry, line,
                 rxCount, txCount, ftPassed>>

\* Mutant: the monitor is not told.
CompleteSilently(t) ==
  /\ rpc[t] = "complete"
  /\ spSt_r' = [spSt_r EXCEPT ![t] = "receiveComplete"]
  /\ GoTo(t, "park")
  /\ UNCHANGED <<sems, spSt_w, spTmp, iterCnt, comSize, writers, monitor, entry, line,
                 rxCount, txCount, result>>

Complete(t) ==
  /\ rpc[t] = "complete"
  /\ spSt_r' = [spSt_r EXCEPT ![t] = "receiveComplete"]
  /\ GoTo(t, "postMon")
  /\ UNCHANGED <<sems, spSt_w, spTmp, iterCnt, comSize, writers, monitor, entry, line,
                 rxCount, txCount, result>>

PostMon(t) ==
  /\ rpc[t] = "postMon"
  /\ mp' = Post(mp, t)
  /\ GoTo(t, "park")
  /\ UNCHANGED <<mp_r, mp_w, spLock, words, spTmp, iterCnt, comSize, writers, monitor,
                 entry, line, rxCount, txCount, result>>

------------------------------------------------------------------------------
(* What rxTypeZero, rxTypeOne and rxTypeTwo make of the bytes of the wire.  *)

\* memcmp of the n bytes read with buf_w, which holds comSz bytes comSz.
Match(t) == \A i \in 1..comSz[t] : wire[t][i] = comSz[t]
Arrived(t) == Len(wire[t]) >= comSz[t]

\* Nothing more can come for this frame: its writer has been and gone.
Over(t) == mp_w[t] = 0 /\ wpc[t] \notin {"taken", "write"}

\* select can time out, or an error or an empty read can end the receive.
CanMiss(t) == \/ Faults \cap {"late", "rxError"} # {}
              \/ Over(t) /\ ~Arrived(t)

Take(t, n) == wire' = [wire EXCEPT ![t] = SubSeq(@, n + 1, Len(@))]

\* How many bytes a receive that falls short has consumed.
Partial(t) == {n \in 0..(comSz[t] - 1) : n <= Len(wire[t])}

\* Mutant: the measurements are counted, the status is not updated.
VerdictUnreported(t, ok, ng) ==
  /\ rxOK' = [rxOK EXCEPT ![t] = @ + (IF ok THEN 1 ELSE 0)]
  /\ rxNG' = [rxNG EXCEPT ![t] = @ + ng]
  /\ ftPassed' = (ftPassed \/ ok)
  /\ UNCHANGED ftFailed
  /\ AfterFrame(t, ok)

\* One receive: ok frames and ng frames are counted, and the last decides ret.
Verdict(t, ok, ng) ==
  /\ rxOK' = [rxOK EXCEPT ![t] = @ + (IF ok THEN 1 ELSE 0)]
  /\ rxNG' = [rxNG EXCEPT ![t] = @ + ng]
  /\ ftPassed' = (ftPassed \/ ok)
  /\ ftFailed' = (ftFailed \/ ng > 0)
  /\ AfterFrame(t, ok)

Failed(ok) == IF ok THEN 0 ELSE 1

\* One read of the whole size; what arrived in pieces is a failure.
RxTypeZero(t) ==
  /\ rxType = 0
  /\ \/ Arrived(t) /\ Take(t, comSz[t]) /\ Verdict(t, Match(t), Failed(Match(t)))
     \/ \E n \in Partial(t) : (n > 0 \/ CanMiss(t)) /\ Take(t, n) /\ Verdict(t, FALSE, 1)

\* One byte at a time, the whole buffer compared after each of them.  The first byte of
\* a frame of more cannot match, and then the others are read to where no comparison
\* looks: the pointer has been used to print the buffer.
RxTypeOne(t) ==
  /\ rxType = 1
  /\ \/ /\ Arrived(t) /\ Take(t, comSz[t])
        /\ IF comSz[t] = 1 THEN Verdict(t, Match(t), Failed(Match(t)))
                           ELSE Verdict(t, FALSE, comSz[t])
     \/ \E n \in Partial(t) : CanMiss(t) /\ Take(t, n) /\ Verdict(t, FALSE, comSz[t])

\* Short reads are continued until the frame is there or the time-out.
RxTypeTwo(t) ==
  /\ rxType = 2
  /\ \/ Arrived(t) /\ Take(t, comSz[t]) /\ Verdict(t, Match(t), Failed(Match(t)))
     \/ \E n \in Partial(t) : CanMiss(t) /\ Take(t, n) /\ Verdict(t, FALSE, 1)

\* Transmit only: nothing is read or counted, and ret keeps its first value.
RxTypeThree(t) ==
  /\ rxType = 3
  /\ comSz' = [comSz EXCEPT ![t] = MaxFrame]
  /\ AfterFrame(t, FALSE)
  /\ UNCHANGED <<wire, rxCount, result>>

Receive(t) ==
  /\ rpc[t] = "receive"
  /\ \/ (RxTypeZero(t) \/ RxTypeOne(t) \/ RxTypeTwo(t)) /\ UNCHANGED comSz
     \/ RxTypeThree(t)
  /\ UNCHANGED <<sems, words, spTmp, writers, monitor, fd_r, fd_w, portRate, txCount>>

------------------------------------------------------------------------------
(* The writer thread: serialPort_w and the transmitter half of spExtLpback. *)

WriterGoTo(t, place) == wpc' = [wpc EXCEPT ![t] = place]

Ready(t) ==
  /\ wpc[t] = "ready"
  /\ spSt_w' = [spSt_w EXCEPT ![t] = "waitingForRx"]
  /\ WriterGoTo(t, "waitRx")
  /\ UNCHANGED <<sems, spSt_r, readers, bCnt, monitor, entry, line, rxCount, txCount, result>>

\* Mutant: goes on when sem_wait was interrupted.
TakeFrameUnchecked(t) ==
  /\ wpc[t] = "waitRx"
  /\ WriterGoTo(t, "taken")
  /\ UNCHANGED <<sems, words, readers, bCnt, monitor, entry, line, rxCount, txCount, result>>

TakeFrame(t) ==
  /\ wpc[t] = "waitRx"
  /\ Wait(mp_w, t)
  /\ WriterGoTo(t, "taken")
  /\ UNCHANGED <<mp, mp_r, spLock, words, readers, bCnt, monitor, entry, line, rxCount,
                 txCount, result>>

\* spSt_w is scheduled for the time of a call, and then transmitting.
Transmit(t) ==
  /\ wpc[t] = "taken"
  /\ spSt_w' = [spSt_w EXCEPT ![t] = "transmitting"]
  /\ WriterGoTo(t, "write")
  /\ UNCHANGED <<sems, spSt_r, readers, bCnt, monitor, entry, line, rxCount, txCount, result>>

\* write: the comSz bytes that buf_w holds now, fewer, or an error; the line can
\* lose what was written.
Write(t) ==
  /\ wpc[t] = "write"
  /\ \E n \in -1..comSz[t], lost \in BOOLEAN :
       /\ n = -1 => "txError" \in Faults
       /\ n \in 0..(comSz[t] - 1) => "txShort" \in Faults
       /\ lost => "lose" \in Faults
       /\ bCnt' = [bCnt EXCEPT ![t] = n]
       /\ wire' = [wire EXCEPT ![t] = IF lost THEN @ ELSE @ \o [i \in 1..n |-> comSz[t]]]
  /\ WriterGoTo(t, "count")
  /\ UNCHANGED <<sems, words, readers, monitor, entry, portRate, rxCount, txCount, result>>

\* Mutant: an error of write returns before it is counted.
CountResultsOnly(t) ==
  /\ wpc[t] = "count"
  /\ txOK' = [txOK EXCEPT ![t] = @ + (IF bCnt[t] = -1 THEN 0 ELSE 1)]
  /\ spSt_w' = [spSt_w EXCEPT ![t] = "transmitComplete"]
  /\ WriterGoTo(t, "ready")
  /\ UNCHANGED <<sems, spSt_r, readers, bCnt, monitor, entry, line, rxCount, txNG, result>>

\* The result of write is compared with comSz as it is by now.
Count(t) ==
  /\ wpc[t] = "count"
  /\ LET ok == bCnt[t] # -1 /\ (rxType = 2 \/ bCnt[t] = comSz[t])
     IN  /\ txOK' = [txOK EXCEPT ![t] = @ + (IF ok THEN 1 ELSE 0)]
         /\ txNG' = [txNG EXCEPT ![t] = @ + (IF ok THEN 0 ELSE 1)]
         /\ ftPassed' = (ftPassed \/ ok)
         /\ ftFailed' = (ftFailed \/ ~ok)
  /\ spSt_w' = [spSt_w EXCEPT ![t] = "transmitComplete"]
  /\ WriterGoTo(t, "ready")
  /\ UNCHANGED <<sems, spSt_r, readers, bCnt, monitor, entry, line, rxCount>>

------------------------------------------------------------------------------
(* The monitor: the operational loop of serialFit, and cancelSpDat.         *)

Last == mt = NTests
AllRead == <<sems, words, readers, writers, entry, line, rxCount, txCount, result>>

\* Enable the receiver of the next test of the table.
PostReader ==
  /\ mpc = "post"
  /\ mp_r' = Post(mp_r, mt)
  /\ mpc' = IF Last THEN "wait" ELSE "post"
  /\ mt' = IF Last THEN 1 ELSE mt + 1
  /\ UNCHANGED <<mp, mp_w, spLock, words, readers, writers, iter, spd, keepGoing, signals,
                 named, verdict, entry, line, rxCount, txCount, result>>

\* Mutants: a break ends the wait for the other tests; one sweep too many.
NextWaitFirst ==
  /\ mt' = 1
  /\ iter' = iter - 1
  /\ mpc' = IF keepGoing' /\ iter' > 0 THEN "post" ELSE "cancel"
NextWaitOneMore ==
  \/ ~Last /\ mt' = mt + 1 /\ UNCHANGED <<mpc, iter>>
  \/ /\ Last
     /\ mt' = 1
     /\ iter' = iter - 1
     /\ mpc' = IF keepGoing' /\ iter' >= 0 THEN "post" ELSE "cancel"

\* On to the next test of the table, and after the last to the next sweep while
\* keepGoing && (iter > 0), or to the end.
NextWait ==
  \/ ~Last /\ mt' = mt + 1 /\ UNCHANGED <<mpc, iter>>
  \/ /\ Last
     /\ mt' = 1
     /\ iter' = iter - 1
     /\ mpc' = IF keepGoing' /\ iter' > 0 THEN "post" ELSE "cancel"

\* sem_wait, sem_timedwait or sem_trywait got the post of the reader.
WaitTest ==
  /\ mpc = "wait"
  /\ Wait(mp, mt)
  /\ UNCHANGED keepGoing
  /\ NextWait
  /\ UNCHANGED <<mp_r, mp_w, spLock, words, readers, writers, spd, signals, named, verdict,
                 entry, line, rxCount, txCount, result>>

\* The bytes of an entry that memcmp and memcpy see.
Copy(t) == <<t, fd_r[t], fd_w[t], comSz[t], spSt_r[t], spSt_w[t], lbrp[t]>>

\* Mutant: the copy is never taken.
UnblockNoCopy ==
  \/ (spSt_r[mt] = "waitingForMon" \/ spd = Copy(mt)) /\ NextWait /\ UNCHANGED spd
  \/ /\ spSt_r[mt] # "waitingForMon" /\ spd # Copy(mt)
     /\ UNCHANGED <<mpc, mt, iter, spd>>

\* waitAndUnblock after a wait that failed: the test is left when its reader
\* looks idle or nothing in its entry has changed since the last copy.
Unblock ==
  \/ (spSt_r[mt] = "waitingForMon" \/ spd = Copy(mt)) /\ NextWait /\ UNCHANGED spd
  \/ /\ spSt_r[mt] # "waitingForMon" /\ spd # Copy(mt)
     /\ spd' = Copy(mt)
     /\ UNCHANGED <<mpc, mt, iter>>

TimedOut ==
  /\ mpc = "wait" /\ monitorLoop = "waitAndUnblock" /\ mp[mt] = 0
  /\ UNCHANGED keepGoing
  /\ Unblock
  /\ UNCHANGED <<AllRead, signals, named, verdict>>

\* SIGINT clears keepGoing; one that finds the monitor in sem_wait or in
\* sem_timedwait also ends that call with EINTR.
Interrupt ==
  /\ signals < MaxSignals /\ mpc # "done"
  /\ signals' = signals + 1
  /\ keepGoing' = FALSE
  /\ \/ UNCHANGED <<mpc, mt, iter, spd>>
     \/ /\ mpc = "wait" /\ mp[mt] = 0 /\ monitorLoop # "waitAndScroll"
        /\ \/ monitorLoop = "waitAndBlock" /\ NextWait /\ UNCHANGED spd
           \/ monitorLoop = "waitAndUnblock" /\ Unblock
  /\ UNCHANGED <<AllRead, named, verdict>>

\* cancelSpDat frees the measurements, leaving lbrp at the zero entry, and
\* destroys the semaphores before it stops the threads.
Free ==
  /\ mpc = "cancel"
  /\ lbrp' = [lbrp EXCEPT ![mt] = NRates + 1]
  /\ mpc' = "joinW"
  /\ UNCHANGED <<sems, words, readers, writers, mt, iter, spd, keepGoing, signals, named,
                 verdict, fd_r, fd_w, comSz, line, rxCount, txCount, result>>

\* A cancelled thread ends at its next cancellation point.
JoinWriter ==
  /\ mpc = "joinW"
  /\ wpc[mt] \in {"waitRx", "write"}
  /\ WriterGoTo(mt, "cancelled")
  /\ mpc' = "joinR"
  /\ UNCHANGED <<sems, words, readers, bCnt, mt, iter, spd, keepGoing, signals, named,
                 verdict, entry, line, rxCount, txCount, result>>

\* Then the failures of the entry go to errorStr, and after the last entry
\* ftComplete prints the verdict.
JoinReader ==
  /\ mpc = "joinR"
  /\ rpc[mt] \in {"waitMon", "open", "lock", "poll", "receive"}
  /\ GoTo(mt, "cancelled")
  /\ named' = named \cup {t \in {mt} : rxNG[t] > 0 \/ txNG[t] > 0}
  /\ \/ ~Last /\ mt' = mt + 1 /\ mpc' = "cancel" /\ UNCHANGED verdict
     \/ /\ Last /\ mpc' = "done" /\ UNCHANGED mt
        /\ verdict' = IF ftFailed THEN "FAILED" ELSE IF ftPassed THEN "PASSED" ELSE "DID NOT RUN"
  /\ UNCHANGED <<sems, words, spTmp, iterCnt, comSize, writers, iter, spd, keepGoing, signals,
                 entry, line, rxCount, txCount, result>>

Terminated == mpc = "done" /\ UNCHANGED vars

------------------------------------------------------------------------------
(* PromptRendezvous is an assumption about the scheduler, not code: a reader *)
(* is not preempted between Check and Lock, and one that was granted its     *)
(* lock runs before the other has done a step more.                          *)
MidRendezvous(t) == \/ rpc[t] \in {"mark", "restore"}
                    \/ rpc[t] = "lock" /\ spLock[Cable(t)] > 0
MayRun(t) == PromptRendezvous => \A c \in Concurrent(t) : ~MidRendezvous(c)

ReaderStep(t) ==
  \/ Park(t) \/ Begin(t) \/ Open(t) \/ Rate(t) \/ InitAlone(t)
  \/ Check(t) \/ Grant(t) \/ Mark(t) \/ Lock(t) \/ Restore(t)
  \/ Frame(t) \/ StartFrame(t) \/ TxTimeout(t) \/ Receive(t) \/ Complete(t) \/ PostMon(t)
WriterStep(t) == Ready(t) \/ TakeFrame(t) \/ Transmit(t) \/ Write(t) \/ Count(t)
MonitorStep == PostReader \/ WaitTest \/ TimedOut \/ Free \/ JoinWriter \/ JoinReader

Reader(t) == MayRun(t) /\ ReaderStep(t) /\ UNCHANGED options
Writer(t) == WriterStep(t) /\ UNCHANGED options
Monitor == MonitorStep /\ UNCHANGED options

Next == Monitor \/ (Interrupt /\ UNCHANGED options) \/ (\E t \in Test : Reader(t) \/ Writer(t)) \/ Terminated
Spec == Init /\ [][Next]_vars

\* Every thread that can go on does; the user and the faults owe nothing.
Fairness == WF_vars(Monitor) /\ \A t \in Test : WF_vars(Reader(t)) /\ WF_vars(Writer(t))
FairSpec == Spec /\ Fairness

------------------------------------------------------------------------------
(* What should be true.                                                     *)

\* Every variable has its type; beyond the bounded ones, counts are naturals.
OptionTypes == rxType \in RxTypes /\ quickFail \in QuickFails /\ monitorLoop \in MonitorLoops
SemTypes ==
  /\ mp \in [Test -> Nat] /\ mp_r \in [Test -> Nat] /\ mp_w \in [Test -> Nat]
  /\ spLock \in [Cables -> Nat]
WordTypes == spSt_r \in [Test -> SpState] /\ spSt_w \in [Test -> SpState]
ReaderTypes ==
  /\ rpc \in [Test -> ReaderPC] /\ spTmp \in [Test -> SpState]
  /\ iterCnt \in [Test -> 0..FrameIter] /\ comSize \in [Test -> MinFrame..MaxFrame]
WriterTypes == wpc \in [Test -> WriterPC] /\ bCnt \in [Test -> -1..MaxFrame]
MonitorTypes ==
  /\ mpc \in MonitorPC /\ mt \in Test /\ iter \in Int
  /\ keepGoing \in BOOLEAN /\ signals \in 0..MaxSignals
  /\ named \in SUBSET Test /\ verdict \in {"none", "PASSED", "FAILED", "DID NOT RUN"}
EntryTypes ==
  /\ fd_r \in [Test -> BOOLEAN] /\ fd_w \in [Test -> BOOLEAN]
  /\ lbrp \in [Test -> 1..(Beyond + 1)] /\ comSz \in [Test -> 0..MaxFrame]
LineTypes == wire \in [Test -> Seq(1..MaxFrame)] /\ portRate \in [Cables -> 0..(Beyond + 1)]
RxCountTypes == rxOK \in [Test -> Nat] /\ rxNG \in [Test -> Nat]
TxCountTypes == txOK \in [Test -> Nat] /\ txNG \in [Test -> Nat]
ResultTypes == ftPassed \in BOOLEAN /\ ftFailed \in BOOLEAN
TypeOK ==
  /\ OptionTypes /\ SemTypes /\ WordTypes /\ ReaderTypes /\ WriterTypes /\ MonitorTypes
  /\ EntryTypes /\ LineTypes /\ RxCountTypes /\ TxCountTypes /\ ResultTypes

\* The waits of the monitor are never cut short: waitAndScroll polls, and only a
\* signal makes sem_wait return early.  (waitAndUnblock gives up by design.)
WholeWaits == monitorLoop = "waitAndScroll" \/ (monitorLoop = "waitAndBlock" /\ signals = 0)
Stopping == mpc \in {"cancel", "joinW", "joinR", "done"}

\* When the monitor enables the tests of a sweep, or frees and cancels at the end,
\* no reader is still at work on the sweep before.
SweepComplete ==
  /\ mpc = "post" => \A t \in mt..NTests : ~Busy(t) /\ mp_r[t] = 0 /\ mp[t] = 0
  /\ Stopping => \A t \in Test : ~Busy(t) /\ mp_r[t] = 0 /\ mp[t] = 0

\* The loop of serialFit that waits for the tests to complete is a barrier, as long
\* as none of its waits is cut short.
Barrier == WholeWaits => SweepComplete

\* No frame is lost between the two threads of a test: each the reader asked for
\* is waiting for the writer, being sent, or counted as sent exactly when it is
\* being received or counted as received.  (Until the writer is cancelled.)
FrameConservation ==
  rxType \in {0, 2} =>
    \A t \in Test : wpc[t] # "cancelled" =>
      txOK[t] + txNG[t] + mp_w[t] + (IF Sending(t) THEN 1 ELSE 0)
        = rxOK[t] + rxNG[t] + (IF rpc[t] = "receive" THEN 1 ELSE 0)

\* The frames a test has in the sweeps that were run.
Frames(t) ==
  (Iterations - iter) * Cardinality(RatesRun[t]) * FrameIter * (MaxFrame - MinFrame + 1)

\* A run that ends with PASSED has received every frame of every test intact,
\* whatever the devices did: no failure on any path is lost before ftComplete.
\* (A transmit-only run receives nothing.)
PassedMeansAllFrames ==
  (verdict = "PASSED" /\ WholeWaits /\ rxType # 3) => \A t \in Test : rxOK[t] = Frames(t) /\ rxNG[t] = 0 /\ txNG[t] = 0

\* With faultless devices nothing but PASSED is possible, each frame counted once
\* by the reader and once by the writer, however the threads interleave.
FaultFreePasses ==
  (mpc = "done" /\ Faults = {} /\ WholeWaits /\ rxType = 2) =>
    verdict = "PASSED" /\ \A t \in Test : rxOK[t] = Frames(t) /\ txOK[t] = Frames(t)

\* The two directions of a cable change rates together: while a reader is at work
\* on frames, the ports are at the rate it believes it is testing.
RateAgreement ==
  ~Stopping => \A t \in Test :
    rpc[t] \in {"frame", "poll", "receive"} => portRate[Cable(t)] = lbrp[t]

\* A reader about to wake the other one finds it asleep, not yet or already awake.
GrantFindsSleeper ==
  \A t \in Test : rpc[t] = "grant" =>
    \A c \in Concurrent(t) : rpc[c] = "lock" /\ spLock[Cable(t)] = 0

\* At least one of two concurrent readers can go on: they never both sleep on the
\* lock of their cable with nobody left to post it.
NeverBothAsleep ==
  \A t \in Test : \A c \in Concurrent(t) :
    ~(rpc[t] = "lock" /\ rpc[c] = "lock" /\ spLock[Cable(t)] = 0)

\* The program comes to an end and says what the result is.
Terminates == <>(mpc = "done")

\* The threads and semaphores implement SerialSweep, where a sweep is one barrier:
\* a test is running from the post of mp_r to that of mp.
Phase(t) ==
  IF Stopping \/ (mpc = "post" /\ t >= mt) THEN "idle"
  ELSE IF mp[t] > 0 \/ (mpc = "wait" /\ t < mt) THEN "finished" ELSE "running"
Sweep == INSTANCE SerialSweep WITH
  Tests <- Test, MaxSweeps <- Iterations,
  phase <- [t \in Test |-> Phase(t)], sweeps <- Iterations - iter, over <- Stopping
ImplementsSweep == Sweep!FairSpec
===============================================================================
