---------------------------- MODULE FitLinksProofs ----------------------------
(****************************************************************************)
(* Proofs about the tests of FitLinks for every number of iterations,       *)
(* SIGINTs, frames, pieces, events, answers and options, and every choice   *)
(* of faults: what they share, serial_port and serial_echo, powerdown,      *)
(* fio_monitor, display.  EthernetProofs has ethernet and what concerns all *)
(* of them.                                                                 *)
(****************************************************************************)
EXTENDS FitLinks, TLAPS

------------------------------------------------------------------------------
(* serial_port and serial_echo.                                             *)

LEMMA ClientStays ==
  ASSUME [Next]_vars
  PROVE  client' = client
<1>1. EthernetStep => client' = client
  BY DEF EthernetStep, Configure, ForkPing, ForkTimer, Wait, CollectBoth, Collect, Down, NextHost,
       Timeout, LeaveUnreported, EthGo, Complete, chosen
<1>2. FrameStep => client' = client
  BY DEF FrameStep, OpenPorts, NoFile, WriteFrame, Receive, ReceiveNothing, ClosePorts, AfterFrame,
       FrameGo, FrameLeave, Complete, chosen
<1>3. FioStep => client' = client
  BY DEF FioStep, AskType, FioReceive, FioReceiveNothing, TakeType, TakeInputs, ReportInputs, Ask,
       FioGo, FioLeave, Complete, run, chosen
<1>4. PowerStep => client' = client
  BY DEF PowerStep, OpenPower, ReadEvent, ReadInterrupted, ReadClock, SetClock, CompareClock,
       ClockGo, ClockFails, Complete, run, chosen
<1>5. DisplayStep => client' = client
  BY DEF DisplayStep, ParseDisplayOptions, InitPort, ReportAuxSwitch, ResetDisplay, ShowModes, ModeStep,
       StartKeys, ReadKey, ReadKeyAgain, EndKeys, EndDisplay, DisplayGo, DisplayLeave, Complete,
       run, chosen
<1>6. Call \/ Return \/ Interrupt => client' = client
  BY DEF Call, Return, Interrupt, chosen
<1>7. Beside => client' = client
  BY DEF Beside, ChildStep, PingEnds, TimerEnds, CopyActs, CopyEnds, FioArrive, PowerDown, PowerUp,
       Tick, PressKey, LateAnswer, ResetOver, run, chosen
<1>8. QED
  BY <1>1, <1>2, <1>3, <1>4, <1>5, <1>6, <1>7 DEF Next, Progress, vars, run, chosen

LEMMA StepsOfFrames ==
  ASSUME client \in FrameClients, [Next]_vars
  PROVE  \/ (Call \/ Return) /\ UNCHANGED link
         \/ FrameStep
         \/ UNCHANGED <<client, at, failed, verdict, link>>
<1>1. client # "ethernet" /\ client # "fio_monitor" /\ client # "powerdown" /\ client # "rtc"
        /\ client # "display"
  BY DEF FrameClients
<1>2. ~EthernetStep /\ ~FioStep /\ ~PowerStep /\ ~DisplayStep
  BY <1>1 DEF EthernetStep, Configure, ForkPing, ForkTimer, Wait, CollectBoth, Collect, Down, EthIn,
       FioStep, AskType, FioReceive, FioReceiveNothing, TakeType, TakeInputs, ReportInputs, FioIn,
       PowerStep, OpenPower, ReadEvent, ReadInterrupted, ReadClock, SetClock, CompareClock,
       PowerIn, ClockIn, DisplayStep, ParseDisplayOptions, InitPort, ReportAuxSwitch, ResetDisplay, ShowModes,
       ModeStep, StartKeys, ReadKey, ReadKeyAgain, EndKeys, EndDisplay, DisplayIn, Stage
<1>3. Beside => UNCHANGED run
  BY DEF Beside, ChildStep, PingEnds, TimerEnds, CopyActs, CopyEnds, FioArrive, PowerDown, PowerUp,
       Tick, PressKey, LateAnswer, ResetOver
<1>4. QED
  BY <1>2, <1>3 DEF Next, Progress, Beside, Break, Interrupt, vars, clients, run, chosen, loop,
       counters

FrameShape ==
  /\ frameAt \in {"start", "write", "read", "close"} /\ leg \in {1, 2} /\ got \in 0..Size - 1
  /\ line \in [{1, 2} -> Nat] /\ owed \in Int
  /\ frameAt # "read" => got = 0

NothingOwed == owed = 0 /\ line[1] = 0 /\ line[2] = 0

\* Of the frame that is being read, the rest is owed, and no more than it is on its way.
RestOwed ==
  /\ owed = Size - got /\ line[Way(leg)] <= Size - got
  /\ \A l \in {1, 2} : l # Way(leg) => line[l] = 0

\* A test without a failure has read what it wrote, but for the frame it is reading.
FrameInv ==
  client \in FrameClients =>
    /\ FrameShape
    /\ at # "client" => frameAt = "start" /\ (verdict = "PASSED" => NothingOwed)
    /\ (at = "client" /\ ~failed) =>
         /\ frameAt \in {"write", "close"} => NothingOwed
         /\ frameAt = "read" => RestOwed

LEMMA WayIsLeg ==
  ASSUME leg \in {1, 2}
  PROVE  Way(leg) \in {1, 2}
BY DEF Way

\* A test that ends without a failure of its own or of before says what it has.
LEMMA FrameLeaves ==
  ASSUME client \in FrameClients, FrameInv, NEW S, FrameLeave(S),
         ~failed' => (owed' = 0 /\ line'[1] = 0 /\ line'[2] = 0),
         line' \in [{1, 2} -> Nat], owed' \in Int
  PROVE  FrameInv'
<1>1. at' = "returned" /\ frameAt' = "start" /\ leg' = 1 /\ got' = 0
  BY DEF FrameLeave, Complete
<1>2. verdict' = "PASSED" => ~failed'
  BY DEF FrameLeave, Complete, VerdictOf
<1>3. FrameShape'
  BY <1>1, FrameAssumption DEF FrameShape
<1>4. QED
  BY <1>1, <1>2, <1>3 DEF FrameInv, NothingOwed

\* After a frame nothing is owed, unless its status is a failure.
LEMMA AfterFrames ==
  ASSUME client \in FrameClients, FrameInv, FrameIn("read"), NEW S, AfterFrame(S),
         ~failed' => (owed' = 0 /\ line'[1] = 0 /\ line'[2] = 0),
         line' \in [{1, 2} -> Nat], owed' \in Int
  PROVE  FrameInv'
<1>1. at' = "client" /\ frameAt' \in {"write", "close"} /\ leg' \in {1, 2} /\ got' = 0
  BY DEF AfterFrame, FrameGo, FrameIn, loop
<1>2. FrameShape'
  BY <1>1, FrameAssumption DEF FrameShape
<1>3. QED
  BY <1>1, <1>2 DEF FrameInv, NothingOwed

LEMMA Failing ==
  ASSUME NEW s \in FailureStatus, Update({s})
  PROVE  failed'
<1>1. {s} \cap FailureStatus # {}
  OBVIOUS
<1>2. QED
  BY <1>1 DEF Update

LEMMA NotFailing ==
  ASSUME NEW S, Update(S), ~failed'
  PROVE  ~failed
BY DEF Update

LEMMA Settled ==
  ASSUME client \in FrameClients, FrameInv, FrameIn("write") \/ FrameIn("close"), ~failed
  PROVE  NothingOwed
<1>1. at = "client" /\ frameAt \in {"write", "close"}
  BY DEF FrameIn
<1>2. QED
  BY <1>1 DEF FrameInv, NothingOwed

LEMMA FrameStepInv ==
  ASSUME client \in FrameClients, FrameInv, FrameStep
  PROVE  FrameInv'
<1> USE FrameAssumption
<1>1. FrameShape /\ Way(leg) \in {1, 2} /\ Size \in Nat \ {0}
  BY WayIsLeg DEF FrameInv, FrameShape
<1>2. client' = client
  BY DEF FrameStep, OpenPorts, NoFile, WriteFrame, Receive, ReceiveNothing, ClosePorts, AfterFrame,
       FrameGo, FrameLeave, Complete, chosen
<1>3. CASE OpenPorts
  <2>1. line' = <<0, 0>> /\ owed' = 0 /\ FrameIn("start")
    BY <1>3 DEF OpenPorts
  <2>2. line' \in [{1, 2} -> Nat] /\ line'[1] = 0 /\ line'[2] = 0
    BY <2>1
  <2>3. CASE FrameGo({}, "write") /\ UNCHANGED <<leg, turn, got>>
    <3>1. at' = "client" /\ frameAt' = "write" /\ got' = 0 /\ leg' \in {1, 2}
      BY <1>1, <2>1, <2>3 DEF FrameGo, FrameIn, loop, FrameShape
    <3>2. QED
      BY <2>1, <2>2, <3>1 DEF FrameInv, FrameShape, NothingOwed
  <2>4. CASE \E s : FrameLeave({s})
    BY <2>1, <2>2, <2>4, FrameLeaves
  <2>5. QED
    BY <1>3, <2>3, <2>4 DEF OpenPorts
<1>4. CASE NoFile
  <2>1. FrameLeave({"ftError"}) /\ UNCHANGED <<line, owed>>
    BY <1>4 DEF NoFile
  <2>2. failed'
    BY <2>1, Failing DEF FrameLeave, Complete, FailureStatus
  <2>3. QED
    BY <1>1, <2>1, <2>2, FrameLeaves DEF FrameShape
<1>5. CASE WriteFrame
  <2>1. PICK n \in 0..Size, S \in {{}, {"ftTxError"}, {"ftTxFail"}} :
          /\ line' = [line EXCEPT ![Way(leg)] = @ + n]
          /\ UNCHANGED <<leg, got>> /\ owed' \in Int
          /\ \/ owed' = owed + Size /\ FrameGo(S, "read")
             \/ S \in {{"ftTxError"}, {"ftTxFail"}} /\ FrameGo(S, "close")
    BY <1>1, <1>5 DEF WriteFrame, FrameShape
  <2>2. at' = "client" /\ at = "client" /\ frameAt = "write" /\ frameAt' \in {"read", "close"}
    BY <1>5, <2>1 DEF WriteFrame, FrameIn, FrameGo, loop
  <2>3. line' \in [{1, 2} -> Nat]
    BY <1>1, <2>1 DEF FrameShape
  <2>4. FrameShape'
    BY <1>1, <2>1, <2>2, <2>3 DEF FrameShape
  <2>5. CASE S \in {{"ftTxError"}, {"ftTxFail"}} /\ FrameGo(S, "close")
    <3>1. failed'
      BY <2>5, Failing DEF FrameGo, FailureStatus
    <3>2. QED
      BY <2>2, <2>4, <3>1 DEF FrameInv
  <2>6. CASE owed' = owed + Size /\ FrameGo(S, "read")
    <3>1. SUFFICES ASSUME ~failed' PROVE RestOwed'
      BY <2>2, <2>4, <2>6 DEF FrameInv, FrameGo
    <3>2. ~failed
      BY <2>6, <3>1, NotFailing DEF FrameGo
    <3>3. NothingOwed /\ got = 0
      <4>1. got = 0
        BY <1>1, <2>2 DEF FrameShape
      <4>2. FrameIn("write")
        BY <1>5 DEF WriteFrame
      <4>3. QED
        BY <3>2, <4>1, <4>2, Settled
    <3>4. ports' = ports
      BY <1>5 DEF WriteFrame
    <3>5. Way(leg)' = Way(leg)
      BY <2>1, <3>4 DEF Way
    <3>6. line'[Way(leg)] = n /\ \A l \in {1, 2} : l # Way(leg) => line'[l] = 0
      BY <1>1, <2>1, <3>3 DEF NothingOwed, FrameShape
    <3>7. QED
      BY <1>1, <2>1, <2>6, <3>3, <3>5, <3>6 DEF RestOwed, NothingOwed
  <2>7. QED
    BY <2>1, <2>5, <2>6
<1>6. CASE Receive
  <2>1. PICK n \in 1..Size - got :
          /\ n <= line[Way(leg)]
          /\ line' = [line EXCEPT ![Way(leg)] = @ - n]
          /\ owed' = owed - n
          /\ \/ got + n < Size /\ got' = got + n /\ FrameGo({}, "read") /\ UNCHANGED <<leg, turn>>
             \/ got + n = Size /\ AfterFrame({"ftPass"})
             \/ got + n = Size /\ "corrupt" \in faults /\ AfterFrame({"ftRxFail"})
    BY <1>6 DEF Receive
  <2>2. at = "client" /\ frameAt = "read" /\ FrameIn("read") /\ ports' = ports
    BY <1>6 DEF Receive, FrameIn
  <2>3. line' \in [{1, 2} -> Nat] /\ owed' \in Int
    BY <1>1, <2>1 DEF FrameShape
  <2>4. ~failed => /\ owed' = Size - (got + n) /\ line'[Way(leg)] <= Size - (got + n)
                   /\ \A l \in {1, 2} : l # Way(leg) => line'[l] = 0
    BY <1>1, <2>1, <2>2 DEF FrameInv, FrameShape, RestOwed
  <2>5. CASE got + n < Size /\ got' = got + n /\ FrameGo({}, "read") /\ UNCHANGED <<leg, turn>>
    <3>1. at' = "client" /\ frameAt' = "read"
      BY <2>2, <2>5 DEF FrameGo, loop
    <3>2. FrameShape'
      BY <1>1, <2>1, <2>3, <2>5, <3>1 DEF FrameShape
    <3>3. Way(leg)' = Way(leg)
      BY <2>2, <2>5 DEF Way
    <3>4. ~failed' => RestOwed'
      <4>1. ~failed' => ~failed
        BY <2>5, NotFailing DEF FrameGo
      <4>2. QED
        BY <2>4, <2>5, <3>3, <4>1 DEF RestOwed
    <3>5. QED
      BY <3>1, <3>2, <3>4 DEF FrameInv
  <2>6. CASE got + n = Size /\ (AfterFrame({"ftPass"}) \/ AfterFrame({"ftRxFail"}))
    <3>1. ~failed' => ~failed
      BY <2>6, NotFailing DEF AfterFrame, FrameGo
    <3>2. ~failed => owed' = 0 /\ line'[1] = 0 /\ line'[2] = 0
      BY <1>1, <2>1, <2>3, <2>4, <2>6 DEF FrameShape
    <3>3. QED
      BY <2>2, <2>3, <2>6, <3>1, <3>2, AfterFrames
  <2>7. QED
    BY <2>1, <2>5, <2>6
<1>7. CASE ReceiveNothing
  <2>1. PICK s \in {"ftRxTimeout", "ftRxError"} : AfterFrame({s})
    BY <1>7 DEF ReceiveNothing
  <2>2. failed'
    BY <2>1, Failing DEF AfterFrame, FrameGo, FailureStatus
  <2>3. FrameIn("read") /\ UNCHANGED <<line, owed>>
    BY <1>7 DEF ReceiveNothing, wire
  <2>4. QED
    BY <1>1, <2>1, <2>2, <2>3, AfterFrames DEF FrameShape
<1>8. CASE ClosePorts
  <2>1. FrameLeave({}) /\ FrameIn("close") /\ UNCHANGED <<line, owed>>
    BY <1>8 DEF ClosePorts, wire
  <2>2. ~failed' => ~failed
    BY <2>1, NotFailing DEF FrameLeave, Complete
  <2>3. ~failed => NothingOwed
    BY <2>1, Settled
  <2>4. QED
    BY <1>1, <2>1, <2>2, <2>3, FrameLeaves DEF FrameShape, NothingOwed
<1>9. QED
  BY <1>3, <1>4, <1>5, <1>6, <1>7, <1>8 DEF FrameStep

LEMMA FrameInvHolds == Spec => []FrameInv
<1>1. Init => FrameInv
  <2>1. SUFFICES ASSUME Init PROVE FrameInv
    OBVIOUS
  <2>2. <<0, 0>> \in [{1, 2} -> Nat]
    OBVIOUS
  <2>3. QED
    BY <2>1, <2>2, FrameAssumption DEF Init, RunInit, FrameInit, FrameInv, FrameShape
<1>2. FrameInv /\ [Next]_vars => FrameInv'
  <2>1. SUFFICES ASSUME FrameInv, [Next]_vars, client \in FrameClients PROVE FrameInv'
    <3>1. [Next]_vars => client' = client
      BY ClientStays
    <3>2. QED
      BY <3>1 DEF FrameInv
  <2>2. CASE (Call \/ Return) /\ UNCHANGED link
    <3>1. UNCHANGED <<client, verdict, link>> /\ (at = "call" \/ at = "returned")
      BY <2>2 DEF Call, Return, chosen
    <3>2. frameAt = "start"
      BY <2>1, <3>1 DEF FrameInv
    <3>3. QED
      BY <2>1, <3>1, <3>2 DEF FrameInv, FrameShape, NothingOwed, link, frame, wire
  <2>3. CASE FrameStep
    BY <2>1, <2>3, FrameStepInv
  <2>4. CASE UNCHANGED <<client, at, failed, verdict, link>>
    BY <2>1, <2>4 DEF FrameInv, FrameShape, NothingOwed, RestOwed, Way, link, frame, wire
  <2>5. QED
    BY <2>1, <2>2, <2>3, <2>4, StepsOfFrames
<1>3. QED
  BY <1>1, <1>2, PTL DEF Spec

\* serial_port and serial_echo that say PASSED have got back every byte they wrote, for
\* every number and size of frames, also of earlier iterations (FrameTest).
THEOREM PassedMeansReceivedHolds == Spec => []PassedMeansReceived
<1>1. FrameInv => PassedMeansReceived
  <2>1. SUFFICES ASSUME FrameInv, client \in FrameClients, verdict = "PASSED", at # "client"
                 PROVE  owed = 0 /\ line = <<0, 0>>
    BY DEF PassedMeansReceived
  <2>2. NothingOwed /\ line \in [{1, 2} -> Nat]
    BY <2>1 DEF FrameInv, FrameShape
  <2>3. QED
    BY <2>2 DEF NothingOwed
<1>2. QED
  BY <1>1, FrameInvHolds, PTL

------------------------------------------------------------------------------
(* powerdown.                                                               *)

Events == {"down", "up"}
LastEvent == IF supply = "off" THEN "down" ELSE "up"

\* What the device has to say alternates and ends with what the supply is now; after a
\* power-down that was read comes a restoration, or none yet.
Story ==
  /\ events \in Seq(Events)
  /\ \A i \in 1..Len(events) - 1 : events[i] # events[i + 1]
  /\ events # <<>> => events[Len(events)] = LastEvent
  /\ seen = <<"down">> => IF events = <<>> THEN supply = "off" ELSE events[1] = "up"

\* A call has passed as soon as it has read a power-down, and has failed when it reads on.
Judged ==
  (failed = FALSE) => \/ seen = <<>> /\ passed = FALSE
                      \/ seen = <<"down">> /\ passed = TRUE

PowerShape ==
  /\ passed \in BOOLEAN /\ failed \in BOOLEAN /\ keepGoing \in BOOLEAN
  /\ signals \in Nat /\ (signals > 0 => keepGoing = FALSE)
  /\ supply \in {"on", "off"} /\ powerAt \in {"closed", "reading", "broken"}
  /\ seen \in Seq(Events)

\* A call that passed was interrupted, so that no call comes after it.
PowerInv ==
  client = "powerdown" =>
    /\ PowerShape
    /\ at # "client" =>
         /\ powerAt = "closed"
         /\ verdict = "PASSED" => (seen = <<"down">> /\ signals > 0)
    /\ (at = "returned" /\ failed = FALSE /\ passed = TRUE) => signals > 0
    /\ (at = "call" \/ (at = "client" /\ powerAt = "closed")) => (failed = FALSE => passed = FALSE)
    /\ (at = "client" /\ powerAt # "closed") => (Story /\ Judged)
    /\ powerAt = "broken" => signals > 0

LEMMA StepsOfPower ==
  ASSUME client = "powerdown", [Next]_vars
  PROVE  \/ (Call \/ Return) /\ UNCHANGED waits
         \/ PowerStep
         \/ (PowerDown \/ PowerUp)
         \/ Interrupt /\ (ReadBroken \/ UNCHANGED waits)
         \/ UNCHANGED <<run, waits>>
<1>1. ~EthernetStep /\ ~FrameStep /\ ~FioStep /\ ~DisplayStep /\ ~Tick
  BY DEF FrameClients, EthernetStep, Configure, ForkPing, ForkTimer, Wait, CollectBoth, Collect,
       Down, EthIn, FioStep, AskType, FioReceive, FioReceiveNothing, TakeType, TakeInputs,
       ReportInputs, FioIn, FrameStep, OpenPorts, NoFile, WriteFrame, Receive, ReceiveNothing,
       ClosePorts, FrameIn, Tick, ClockIn, DisplayStep, ParseDisplayOptions, InitPort,
       ReportAuxSwitch, ResetDisplay, ShowModes, ModeStep, StartKeys, ReadKey, ReadKeyAgain, EndKeys, EndDisplay,
       DisplayIn, Stage
<1>2. ChildStep \/ FioArrive \/ PressKey \/ LateAnswer => UNCHANGED run
  BY DEF ChildStep, PingEnds, TimerEnds, CopyActs, CopyEnds, FioArrive, PressKey, LateAnswer, ResetOver
<1>3. QED
  BY <1>1, <1>2 DEF Next, Progress, Beside, Break, vars, clients

LEMMA PowerShapeStep ==
  ASSUME client = "powerdown", PowerInv, [Next]_vars
  PROVE  PowerShape'
<1>1. PowerShape
  BY DEF PowerInv
<1>2. CASE (Call \/ Return) /\ UNCHANGED waits
  BY <1>1, <1>2 DEF PowerShape, Call, Return, counters, waits, power
<1>3. CASE PowerStep
  <2>1. UNCHANGED <<supply, keepGoing, signals>>
    BY <1>3 DEF PowerStep, OpenPower, ReadEvent, ReadInterrupted, ReadClock, SetClock,
         CompareClock, ClockGo, ClockFails, Complete, run, loop, power
  <2>2. powerAt' \in {"closed", "reading", "broken"}
    BY <1>1, <1>3 DEF PowerStep, OpenPower, ReadEvent, ReadInterrupted, ReadClock, SetClock,
         CompareClock, PowerShape, power
  <2>3. passed' \in BOOLEAN /\ failed' \in BOOLEAN
    BY <1>1, <1>3 DEF PowerStep, OpenPower, ReadEvent, ReadInterrupted, ReadClock, SetClock,
         CompareClock, ClockGo, ClockFails, Complete, Update, run, counters, PowerShape
  <2>4. seen' \in Seq(Events)
    <3>1. CASE ReadEvent
      <4>1. powerAt # "closed" /\ at = "client"
        BY <3>1 DEF ReadEvent, PowerIn
      <4>2. events \in Seq(Events) /\ events # <<>> /\ seen' = Append(seen, Head(events))
        BY <3>1, <4>1 DEF PowerInv, Story, ReadEvent
      <4>3. Head(events) \in Events
        BY <4>2
      <4>4. QED
        BY <1>1, <4>2, <4>3 DEF PowerShape
    <3>2. CASE ~ReadEvent
      <4>1. seen' = <<>> \/ seen' = seen
        BY <1>3, <3>2 DEF PowerStep, OpenPower, ReadInterrupted, ReadClock, SetClock,
             CompareClock, power
      <4>2. <<>> \in Seq(Events)
        OBVIOUS
      <4>3. QED
        BY <1>1, <4>1, <4>2 DEF PowerShape
    <3>3. QED
      BY <3>1, <3>2
  <2>5. QED
    BY <1>1, <2>1, <2>2, <2>3, <2>4 DEF PowerShape
<1>4. CASE PowerDown \/ PowerUp
  BY <1>1, <1>4 DEF PowerShape, PowerDown, PowerUp, run, counters, loop
<1>5. CASE Interrupt /\ (ReadBroken \/ UNCHANGED waits)
  <2>1. signals' \in Nat /\ keepGoing' = FALSE
    BY <1>1, <1>5 DEF PowerShape, Interrupt
  <2>2. passed' \in BOOLEAN /\ failed' \in BOOLEAN
    BY <1>1, <1>5 DEF PowerShape, Interrupt, counters
  <2>3. supply' \in {"on", "off"} /\ powerAt' \in {"closed", "reading", "broken"}
    BY <1>1, <1>5 DEF PowerShape, ReadBroken, waits, power
  <2>4. seen' \in Seq(Events)
    BY <1>1, <1>5 DEF PowerShape, ReadBroken, waits, power
  <2>5. QED
    BY <2>1, <2>2, <2>3, <2>4 DEF PowerShape
<1>6. CASE UNCHANGED <<run, waits>>
  BY <1>1, <1>6 DEF PowerShape, run, counters, loop, waits, power
<1>7. QED
  BY <1>2, <1>3, <1>4, <1>5, <1>6, StepsOfPower

\* The first event is taken.
LEMMA StoryReads ==
  ASSUME Story, events # <<>>, events' = Tail(events), UNCHANGED supply,
         seen' = Append(seen, Head(events)), seen \in Seq(Events)
  PROVE  Story'
<1>1. events' \in Seq(Events) /\ Len(events') = Len(events) - 1 /\ Len(events) \in Nat \ {0}
  BY DEF Story
<1>2. \A i \in 1..Len(events') : events'[i] = events[i + 1]
  BY <1>1 DEF Story
<1>3. \A i \in 1..Len(events') - 1 : events'[i] # events'[i + 1]
  BY <1>1, <1>2 DEF Story
<1>4. LastEvent' = LastEvent
  BY DEF LastEvent
<1>5. events' # <<>> => events'[Len(events')] = LastEvent
  BY <1>1, <1>2 DEF Story
<1>6. ASSUME seen' = <<"down">>
      PROVE  IF events' = <<>> THEN supply = "off" ELSE events'[1] = "up"
  <2>1. Head(events) = "down" /\ events[1] = "down"
    BY <1>6, <1>1 DEF Story
  <2>2. CASE events' = <<>>
    <3>1. Len(events) = 1
      BY <1>1, <2>2
    <3>2. QED
      BY <2>1, <2>2, <3>1 DEF Story, LastEvent
  <2>3. CASE events' # <<>>
    <3>1. Len(events') >= 1
      BY <1>1, <2>3
    <3>2. events[2] # "down" /\ events[2] \in Events
      BY <1>1, <2>1, <3>1 DEF Story
    <3>3. QED
      BY <1>1, <1>2, <2>3, <3>1, <3>2 DEF Events
  <2>4. QED
    BY <2>2, <2>3
<1>7. QED
  BY <1>1, <1>3, <1>4, <1>5, <1>6 DEF Story

\* The supply changes and the device tells it.
LEMMA StoryGoesOn ==
  ASSUME Story, supply \in {"on", "off"}, UNCHANGED seen,
         \/ supply = "on" /\ supply' = "off" /\ events' = Append(events, "down")
         \/ supply = "off" /\ supply' = "on" /\ events' = Append(events, "up")
  PROVE  Story'
<1>1. LastEvent' # LastEvent /\ events' = Append(events, LastEvent') /\ LastEvent' \in Events
  BY DEF LastEvent, Events
<1>2. events' \in Seq(Events) /\ Len(events') = Len(events) + 1 /\ Len(events) \in Nat
  BY <1>1 DEF Story
<1>3. events' # <<>> /\ events'[Len(events')] = LastEvent'
  BY <1>1, <1>2
<1>4. \A i \in 1..Len(events) : events'[i] = events[i]
  BY <1>1 DEF Story
<1>5. \A i \in 1..Len(events') - 1 : events'[i] # events'[i + 1]
  <2>1. SUFFICES ASSUME NEW i \in 1..Len(events) PROVE events'[i] # events'[i + 1]
    BY <1>2
  <2>2. CASE i = Len(events)
    BY <1>1, <1>2, <1>3, <1>4, <2>2 DEF Story
  <2>3. CASE i < Len(events)
    BY <1>2, <1>4, <2>3 DEF Story
  <2>4. QED
    BY <1>2, <2>2, <2>3
<1>6. ASSUME seen = <<"down">> PROVE events'[1] = "up"
  <2>1. CASE events = <<>>
    BY <1>1, <1>2, <1>3, <1>6, <2>1 DEF Story, LastEvent
  <2>2. CASE events # <<>>
    BY <1>2, <1>4, <1>6, <2>2 DEF Story
  <2>3. QED
    BY <2>1, <2>2
<1>7. QED
  BY <1>2, <1>3, <1>5, <1>6 DEF Story

LEMMA PowerStepInv ==
  ASSUME client = "powerdown", PowerInv, PowerShape', PowerStep
  PROVE  PowerInv'
<1>1. PowerShape
  BY DEF PowerInv
<1>2. ~ReadClock /\ ~SetClock /\ ~CompareClock
  BY DEF ReadClock, SetClock, CompareClock, ClockIn
<1>3. CASE OpenPower
  <2>1. at = "client" /\ powerAt = "closed" /\ events' = <<>> /\ seen' = <<>> /\ supply' = supply
    BY <1>3 DEF OpenPower, PowerIn
  <2>2. failed = FALSE => passed = FALSE
    BY <2>1 DEF PowerInv
  <2>3. CASE UNCHANGED run /\ powerAt' = "reading"
    <3>1. Story'
      BY <2>1 DEF Story
    <3>2. Judged'
      BY <2>1, <2>2, <2>3 DEF Judged, run, counters
    <3>3. QED
      BY <2>1, <2>3, <3>1, <3>2 DEF PowerInv, run, loop
  <2>4. CASE Complete({"ftError"}) /\ UNCHANGED powerAt
    <3>1. at' = "returned" /\ powerAt' = "closed"
      BY <2>1, <2>4 DEF Complete
    <3>2. failed' /\ verdict' = "FAILED"
      BY <2>4, Failing DEF Complete, FailureStatus, VerdictOf
    <3>3. QED
      BY <3>1, <3>2 DEF PowerInv
  <2>5. QED
    BY <1>3, <2>3, <2>4 DEF OpenPower
<1>4. CASE ReadEvent
  <2>1. at = "client" /\ powerAt = "reading" /\ events # <<>> /\ supply' = supply
          /\ events' = Tail(events) /\ seen' = Append(seen, Head(events))
    BY <1>4 DEF ReadEvent, PowerIn
  <2>2. Story /\ Judged
    BY <2>1 DEF PowerInv
  <2>3. CASE Head(events) = "down"
    <3>1. Update({"ftPass"}) /\ at' = "client" /\ powerAt' = "reading"
      BY <1>4, <2>1, <2>3 DEF ReadEvent, loop
    <3>2. Story'
      BY <1>1, <2>1, <2>2, StoryReads DEF PowerShape
    <3>3. Judged'
      <4>1. SUFFICES ASSUME failed' = FALSE PROVE seen' = <<"down">> /\ passed' = TRUE
        BY DEF Judged
      <4>2. failed = FALSE
        BY <1>1, <3>1, <4>1, NotFailing DEF PowerShape
      <4>3. seen # <<"down">>
        BY <2>1, <2>2, <2>3 DEF Story
      <4>4. seen = <<>>
        BY <2>2, <4>2, <4>3 DEF Judged
      <4>5. passed' = TRUE
        BY <3>1 DEF Update
      <4>6. QED
        BY <2>1, <2>3, <4>4, <4>5
    <3>4. QED
      BY <3>1, <3>2, <3>3 DEF PowerInv
  <2>4. CASE Head(events) # "down"
    <3>1. Complete({"ftFail"}) /\ powerAt' = "closed"
      BY <1>4, <2>4 DEF ReadEvent
    <3>2. at' = "returned" /\ failed' /\ verdict' = "FAILED"
      BY <3>1, Failing DEF Complete, FailureStatus, VerdictOf
    <3>3. QED
      BY <3>1, <3>2 DEF PowerInv
  <2>5. QED
    BY <2>3, <2>4
<1>5. CASE ReadInterrupted
  <2>1. at = "client" /\ powerAt = "broken" /\ Complete({}) /\ powerAt' = "closed"
          /\ UNCHANGED <<seen, signals>>
    BY <1>5 DEF ReadInterrupted, PowerIn, Complete
  <2>2. signals > 0 /\ Judged
    BY <2>1 DEF PowerInv
  <2>3. at' = "returned" /\ verdict' = VerdictOf(passed', failed') /\ passed' = passed
          /\ failed' = failed
    BY <1>1, <2>1 DEF Complete, Update, PowerShape
  <2>4. verdict' = "PASSED" => seen = <<"down">>
    BY <1>1, <2>2, <2>3 DEF VerdictOf, Judged, PowerShape
  <2>5. QED
    BY <2>1, <2>2, <2>3, <2>4 DEF PowerInv
<1>6. QED
  BY <1>2, <1>3, <1>4, <1>5 DEF PowerStep

LEMMA PowerInvHolds == Spec => []PowerInv
<1>1. Init => PowerInv
  <2>1. SUFFICES ASSUME Init PROVE PowerInv
    OBVIOUS
  <2>2. PowerShape
    <3>1. passed = FALSE /\ failed = FALSE /\ keepGoing = TRUE /\ signals = 0
      BY <2>1 DEF Init, RunInit
    <3>2. supply = "on" /\ powerAt = "closed" /\ seen = <<>>
      BY <2>1 DEF Init, PowerInit
    <3>3. <<>> \in Seq(Events)
      OBVIOUS
    <3>4. signals \in Nat /\ ~(signals > 0)
      BY <3>1
    <3>5. QED
      BY <3>1, <3>2, <3>3, <3>4, Zenon DEF PowerShape
  <2>3. at = "call" /\ passed = FALSE /\ verdict = "none" /\ powerAt = "closed"
    BY <2>1 DEF Init, RunInit, PowerInit
  <2>4. QED
    BY <2>2, <2>3 DEF PowerInv
<1>2. PowerInv /\ [Next]_vars => PowerInv'
  <2>1. SUFFICES ASSUME PowerInv, [Next]_vars, client = "powerdown" PROVE PowerInv'
    <3>1. [Next]_vars => client' = client
      BY ClientStays
    <3>2. QED
      BY <3>1 DEF PowerInv
  <2>2. PowerShape /\ PowerShape'
    BY <2>1, PowerShapeStep DEF PowerInv
  <2>3. CASE Call /\ UNCHANGED waits
    <3>1. at' = "client" /\ UNCHANGED <<powerAt, signals>> /\ powerAt = "closed"
      BY <2>1, <2>3 DEF Call, waits, power, PowerInv
    <3>2. failed' = FALSE => passed' = FALSE
      BY <2>1, <2>2, <2>3 DEF Call, PowerInv, PowerShape
    <3>3. QED
      BY <2>2, <3>1, <3>2 DEF PowerInv
  <2>4. CASE Return /\ UNCHANGED waits
    <3>1. UNCHANGED <<powerAt, seen, signals, passed, failed, verdict>> /\ at = "returned"
            /\ at' \in {"call", "ended"} /\ (at' = "call" => keepGoing)
      BY <2>4 DEF Return, waits, power, counters
    <3>2. at' = "call" => (failed = FALSE => passed = FALSE)
      BY <2>1, <2>2, <3>1 DEF PowerInv, PowerShape
    <3>3. QED
      BY <2>1, <2>2, <3>1, <3>2 DEF PowerInv
  <2>5. CASE PowerStep
    BY <2>1, <2>2, <2>5, PowerStepInv
  <2>6. CASE PowerDown \/ PowerUp
    <3>1. UNCHANGED <<at, powerAt, seen, signals, passed, failed, verdict>>
      BY <2>6 DEF PowerDown, PowerUp, run, loop, counters
    <3>2. (at = "client" /\ powerAt # "closed") => Story'
      BY <2>1, <2>2, <2>6, StoryGoesOn DEF PowerInv, PowerShape, PowerDown, PowerUp, Tell
    <3>3. Judged => Judged'
      BY <3>1 DEF Judged
    <3>4. QED
      BY <2>1, <2>2, <3>1, <3>2, <3>3 DEF PowerInv
  <2>7. CASE Interrupt /\ (ReadBroken \/ UNCHANGED waits)
    <3>1. UNCHANGED <<at, supply, events, seen, passed, failed, verdict>> /\ signals' > 0
      BY <2>2, <2>7 DEF Interrupt, ReadBroken, waits, power, counters, PowerShape
    <3>2. Judged' = Judged /\ Story' = Story
      BY <3>1 DEF Judged, Story, LastEvent
    <3>3. \/ powerAt' = powerAt
          \/ powerAt = "reading" /\ at = "client" /\ powerAt' = "broken"
      BY <2>7 DEF ReadBroken, PowerIn, waits, power
    <3>4. QED
      BY <2>1, <2>2, <3>1, <3>2, <3>3 DEF PowerInv
  <2>8. CASE UNCHANGED <<run, waits>>
    BY <2>1, <2>2, <2>8 DEF PowerInv, Judged, Story, LastEvent, run, loop, counters, waits, power
  <2>9. QED
    BY <2>1, <2>3, <2>4, <2>5, <2>6, <2>7, <2>8, StepsOfPower
<1>3. QED
  BY <1>1, <1>2, PTL DEF Spec

\* powerdown says PASSED only when it has read the power-down and nothing else, and the user
\* has ended it before it read the restoration, with which the verdict is FAILED; for
\* whatever order and number of events of the supply (PowerTest).
THEOREM PassedMeansDownHolds == Spec => []PassedMeansDown
<1>1. PowerInv => PassedMeansDown
  BY DEF PowerInv, PassedMeansDown
<1>2. QED
  BY <1>1, PowerInvHolds, PTL

------------------------------------------------------------------------------
(* fio_monitor: the answers of the module.                                  *)

LEMMA RepeatIsSeq ==
  ASSUME NEW byte \in Bytes, NEW n \in Nat
  PROVE  /\ Repeat(byte, n) \in Seq(Bytes) /\ Len(Repeat(byte, n)) = n
         /\ \A i \in 1..n : Repeat(byte, n)[i] = byte
BY DEF Repeat

LEMMA TypeAnswerShape ==
  /\ TypeAnswer \in Seq(Bytes) /\ Len(TypeAnswer) = HeaderSize + 1
  /\ TypeAnswer[HeaderSize + 1] = "type"
<1>1. HeaderSize \in Nat /\ "header" \in Bytes /\ "type" \in Bytes
  BY FioAssumption DEF Bytes
<1>2. QED
  BY <1>1, RepeatIsSeq DEF TypeAnswer

LEMMA InputAnswerShape ==
  /\ InputAnswer \in Seq(Bytes) /\ Len(InputAnswer) = InputSize
  /\ module \in {2, 3} => InputAnswer[MONITOR_REG + 1] = "input"
<1>1. /\ HeaderSize \in Nat \ {0} /\ InputSize \in Nat /\ InputSize - HeaderSize \in Nat
      /\ "header" \in Bytes /\ "input" \in Bytes
  BY FioAssumption DEF Bytes, InputSize
<1>2. DEFINE head == Repeat("header", HeaderSize)
             rest == Repeat("input", InputSize - HeaderSize)
<1>3. /\ head \in Seq(Bytes) /\ Len(head) = HeaderSize
      /\ rest \in Seq(Bytes) /\ Len(rest) = InputSize - HeaderSize
      /\ \A i \in 1..(InputSize - HeaderSize) : rest[i] = "input"
  BY <1>1, RepeatIsSeq
<1>4. InputAnswer = head \o rest
  BY DEF InputAnswer
<1> HIDE DEF head, rest
<1>5. InputAnswer \in Seq(Bytes) /\ Len(InputAnswer) = InputSize
  <2>1. InputAnswer \in Seq(Bytes)
    BY <1>3, <1>4
  <2>2. Len(InputAnswer) = Len(head) + Len(rest)
    <3>1. head \in Seq(Bytes) /\ rest \in Seq(Bytes)
      BY <1>3
    <3>2. Len(head \o rest) = Len(head) + Len(rest)
      BY <3>1
    <3>3. QED
      BY <1>4, <3>2
  <2>3. QED
    BY <1>1, <1>3, <2>1, <2>2
<1>6. ASSUME module \in {2, 3} PROVE InputAnswer[MONITOR_REG + 1] = "input"
  <2>1. /\ MONITOR_REG \in Nat /\ HeaderSize < MONITOR_REG + 1 /\ MONITOR_REG + 1 <= InputSize
    BY <1>6, FioAssumption DEF InputSize
  <2>2. InputAnswer[MONITOR_REG + 1] = rest[MONITOR_REG + 1 - HeaderSize]
    BY <1>1, <1>3, <1>4, <2>1
  <2>3. QED
    BY <1>1, <1>3, <2>1, <2>2
<1>7. QED
  BY <1>5, <1>6

LEMMA MinOfTwo ==
  ASSUME NEW a \in Nat, NEW b \in Nat
  PROVE  Min({a, b}) \in {a, b} /\ Min({a, b}) <= a /\ Min({a, b}) <= b
<1>1. \E x \in {a, b} : \A y \in {a, b} : x <= y
  OBVIOUS
<1>2. QED
  BY <1>1 DEF Min

------------------------------------------------------------------------------
(* fio_monitor: the stream of bytes.                                        *)

AnswersInTime == faults \cap {"slow", "io"} = {}

FioShape ==
  /\ fioPort \in Seq(Bytes) /\ coming \in Seq(Bytes)
  /\ rxBuf \in [Looked -> Bytes] /\ fioGot \in Nat
  /\ fioAt \in {"start", "type", "inputs", "report"} /\ module \in 1..6
  /\ keepGoing \in BOOLEAN /\ signals \in Nat /\ (signals > 0 => keepGoing = FALSE)

Silence == fioPort = <<>> /\ coming = <<>>

\* Of an answer, what has been read is in the buffer, and what comes is the rest.
RestOf(answer) ==
  /\ fioGot + Len(fioPort) + Len(coming) = Len(answer)
  /\ \A i \in 1..Len(fioPort) : fioPort[i] = answer[fioGot + i]
  /\ \A i \in 1..Len(coming) : coming[i] = answer[fioGot + Len(fioPort) + i]
ReadOf(answer) == \A i \in Looked : i < fioGot => rxBuf[i] = answer[i + 1]
Awaiting(answer) == (RestOf(answer) \/ (fioGot = 0 /\ Silence)) /\ ReadOf(answer)

FioInv ==
  (client = "fio_monitor" /\ AnswersInTime) =>
    /\ FioShape
    /\ at # "client" => fioAt = "start" /\ (verdict = "PASSED" => modId = module)
    /\ (at = "returned" /\ verdict = "PASSED" /\ module \in {2, 3}) => monitor = "input"
    /\ (at = "call" \/ (at = "client" /\ fioAt = "start")) => Silence
    /\ (at = "returned" /\ keepGoing = TRUE) => Silence
    /\ (at = "client" /\ fioAt = "type") => Awaiting(TypeAnswer)
    /\ (at = "client" /\ fioAt = "inputs") =>
         (modId = module /\ modId \in RawTypes /\ Awaiting(InputAnswer))
    /\ (at = "client" /\ fioAt = "report") =>
         (Silence /\ modId = module /\ (module \in {2, 3} => rxBuf[MONITOR_REG] = "input"))

LEMMA StepsOfFio ==
  ASSUME client = "fio_monitor", [Next]_vars
  PROVE  \/ (Call \/ Return \/ Interrupt) /\ UNCHANGED fio
         \/ FioStep
         \/ FioArrive
         \/ UNCHANGED <<run, fio>>
<1>1. ~EthernetStep /\ ~FrameStep /\ ~PowerStep /\ ~DisplayStep
  BY DEF EthernetStep, Configure, ForkPing, ForkTimer, Wait, CollectBoth, Collect, Down, EthIn,
       FrameClients, FrameStep, OpenPorts, NoFile, WriteFrame, Receive, ReceiveNothing, ClosePorts,
       FrameIn, PowerStep, OpenPower, ReadEvent, ReadInterrupted, ReadClock, SetClock,
       CompareClock, PowerIn, ClockIn, DisplayStep, ParseDisplayOptions, InitPort,
       ReportAuxSwitch, ResetDisplay, ShowModes, ModeStep, StartKeys, ReadKey, ReadKeyAgain, EndKeys, EndDisplay,
       DisplayIn, Stage
<1>2. ChildStep \/ PowerDown \/ PowerUp \/ Tick \/ PressKey \/ LateAnswer => UNCHANGED run
  BY DEF ChildStep, PingEnds, TimerEnds, CopyActs, CopyEnds, PowerDown, PowerUp, Tick, PressKey, LateAnswer, ResetOver
<1>3. QED
  BY <1>1, <1>2 DEF Next, Progress, Beside, Break, vars, clients

\* Bytes that arrive belong to the answer that is awaited.
LEMMA Arriving ==
  ASSUME FioShape, FioArrive, NEW answer \in Seq(Bytes), Awaiting(answer)
  PROVE  Awaiting(answer)'
<1>1. PICK n \in {1, Len(coming)} :
        /\ coming # <<>>
        /\ fioPort' = fioPort \o SubSeq(coming, 1, n)
        /\ coming' = SubSeq(coming, n + 1, Len(coming))
        /\ UNCHANGED <<fioGot, rxBuf>>
  BY DEF FioArrive
<1>2. /\ n \in 1..Len(coming) /\ Len(coming) \in Nat /\ Len(fioPort) \in Nat
      /\ fioGot \in Nat /\ Len(answer) \in Nat
  BY <1>1 DEF FioShape
<1>3. RestOf(answer)
  BY <1>1 DEF Awaiting, Silence
<1>4. Len(fioPort') = Len(fioPort) + n /\ Len(coming') = Len(coming) - n
  BY <1>1, <1>2 DEF FioShape
<1>5. \A i \in 1..Len(fioPort') :
        fioPort'[i] = IF i <= Len(fioPort) THEN fioPort[i] ELSE coming[i - Len(fioPort)]
  BY <1>1, <1>2, <1>4 DEF FioShape
<1>6. \A i \in 1..Len(coming') : coming'[i] = coming[i + n]
  BY <1>1, <1>2, <1>4 DEF FioShape
<1>7. RestOf(answer)'
  <2>1. ASSUME NEW i \in 1..Len(fioPort') PROVE fioPort'[i] = answer[fioGot + i]
    <3>1. CASE i <= Len(fioPort)
      BY <1>2, <1>3, <1>4, <1>5, <3>1 DEF RestOf
    <3>2. CASE i > Len(fioPort)
      <4>1. i - Len(fioPort) \in 1..Len(coming)
        BY <1>2, <1>4, <3>2
      <4>2. fioPort'[i] = coming[i - Len(fioPort)]
        BY <1>2, <1>4, <1>5, <3>2
      <4>3. coming[i - Len(fioPort)] = answer[fioGot + Len(fioPort) + (i - Len(fioPort))]
        BY <1>3, <4>1 DEF RestOf
      <4>4. fioGot + Len(fioPort) + (i - Len(fioPort)) = fioGot + i
        BY <1>2, <1>4
      <4>5. QED
        BY <4>2, <4>3, <4>4
    <3>3. QED
      BY <1>2, <1>4, <3>1, <3>2
  <2>2. ASSUME NEW i \in 1..Len(coming') PROVE coming'[i] = answer[fioGot + Len(fioPort') + i]
    <3>1. i + n \in 1..Len(coming)
      BY <1>2, <1>4
    <3>2. coming[i + n] = answer[fioGot + Len(fioPort) + (i + n)]
      BY <1>3, <3>1 DEF RestOf
    <3>3. fioGot + Len(fioPort) + (i + n) = fioGot + Len(fioPort') + i
      BY <1>2, <1>4
    <3>4. QED
      BY <1>6, <3>2, <3>3
  <2>3. fioGot + Len(fioPort') + Len(coming') = Len(answer)
    <3>1. fioGot + Len(fioPort) + Len(coming) = Len(answer)
      BY <1>3 DEF RestOf
    <3>2. QED
      BY <1>2, <1>4, <3>1
  <2>4. QED
    BY <1>1, <2>1, <2>2, <2>3 DEF RestOf
<1>8. QED
  BY <1>1, <1>7 DEF Awaiting, ReadOf

\* Bytes that are read do, too.
LEMMA Reading ==
  ASSUME FioShape, FioReceive, NEW answer \in Seq(Bytes), Awaiting(answer),
         Len(answer) = Expected
  PROVE  Awaiting(answer)'
<1> DEFINE n == Min({Len(fioPort), Missing})
<1>1. /\ fioPort # <<>> /\ Missing > 0 /\ coming' = coming
      /\ fioGot' = fioGot + n /\ rxBuf' = Overlaid(n)
      /\ fioPort' = SubSeq(fioPort, n + 1, Len(fioPort))
  BY DEF FioReceive
<1>2. RestOf(answer)
  BY <1>1 DEF Awaiting, Silence
<1>3. Len(fioPort) \in Nat \ {0} /\ Len(coming) \in Nat /\ fioGot \in Nat /\ Len(answer) \in Nat
  BY <1>1 DEF FioShape
<1>4. Missing = Len(answer) - fioGot
  BY DEF Missing
<1>5. Missing \in Nat \ {0}
  BY <1>1, <1>3, <1>4
<1>6. n \in {Len(fioPort), Missing} /\ n <= Len(fioPort) /\ n <= Missing
  BY <1>3, <1>5, MinOfTwo
<1> HIDE DEF n
<1>7. n \in 1..Len(fioPort)
  BY <1>3, <1>5, <1>6
<1>8. Len(fioPort') = Len(fioPort) - n /\ \A i \in 1..Len(fioPort') : fioPort'[i] = fioPort[i + n]
  BY <1>1, <1>3, <1>7 DEF FioShape
<1>9. RestOf(answer)'
  <2>1. ASSUME NEW i \in 1..Len(fioPort') PROVE fioPort'[i] = answer[fioGot' + i]
    <3>1. i + n \in 1..Len(fioPort)
      BY <1>3, <1>7, <1>8
    <3>2. fioPort[i + n] = answer[fioGot + (i + n)]
      BY <1>2, <3>1 DEF RestOf
    <3>3. fioGot + (i + n) = fioGot' + i
      BY <1>1, <1>3, <1>7
    <3>4. QED
      BY <1>8, <3>2, <3>3
  <2>2. fioGot' + Len(fioPort') = fioGot + Len(fioPort)
    <3>1. fioGot' = fioGot + n /\ Len(fioPort') = Len(fioPort) - n /\ n \in Nat
      BY <1>1, <1>3, <1>7, <1>8
    <3>2. QED
      BY <1>3, <3>1
  <2>3. QED
    BY <1>1, <1>2, <1>3, <2>1, <2>2 DEF RestOf
<1>10. ReadOf(answer)'
  <2>1. SUFFICES ASSUME NEW i \in Looked, i < fioGot' PROVE rxBuf'[i] = answer[i + 1]
    BY DEF ReadOf
  <2>2. i \in Nat
    BY <2>1, FioAssumption DEF Looked
  <2>3. rxBuf'[i] = IF i \in fioGot..fioGot + n - 1 THEN fioPort[i - fioGot + 1]
                    ELSE IF fioGot = 0 /\ i < Expected THEN "zero" ELSE rxBuf[i]
    BY <1>1, <2>1 DEF Overlaid
  <2>4. CASE i < fioGot
    BY <1>3, <1>7, <2>1, <2>2, <2>3, <2>4 DEF Awaiting, ReadOf
  <2>5. CASE i >= fioGot
    <3>1. i \in fioGot..fioGot + n - 1 /\ i - fioGot + 1 \in 1..Len(fioPort)
      BY <1>1, <1>3, <1>7, <2>1, <2>2, <2>5
    <3>2. fioPort[i - fioGot + 1] = answer[fioGot + (i - fioGot + 1)]
      BY <1>2, <3>1 DEF RestOf
    <3>3. fioGot + (i - fioGot + 1) = i + 1
      BY <1>3, <2>2
    <3>4. QED
      BY <2>3, <3>1, <3>2, <3>3
  <2>6. QED
    BY <1>3, <2>2, <2>4, <2>5
<1>11. QED
  BY <1>9, <1>10 DEF Awaiting

------------------------------------------------------------------------------
(* fio_monitor: the test.                                                   *)

\* A call that fails prints so, and one that gives up leaves the buffers as they are.
LEMMA FioFails ==
  ASSUME NEW s \in FailureStatus, FioLeave({s})
  PROVE  at' = "returned" /\ fioAt' = "start" /\ fioGot' = 0 /\ verdict' = "FAILED"
<1>1. failed'
  BY Failing DEF FioLeave, Complete
<1>2. QED
  BY <1>1 DEF FioLeave, Complete, VerdictOf

LEMMA FioShapeStep ==
  ASSUME client = "fio_monitor", FioShape, [Next]_vars
  PROVE  FioShape'
<1>1. CASE (Call \/ Return \/ Interrupt) /\ UNCHANGED fio
  <2>1. signals' \in Nat /\ (signals' = signals \/ keepGoing' = FALSE)
    BY <1>1 DEF FioShape, Call, Return, Interrupt
  <2>2. keepGoing' = keepGoing \/ keepGoing' = FALSE
    BY <1>1 DEF Call, Return, Interrupt
  <2>3. QED
    BY <1>1, <2>1, <2>2 DEF FioShape, fio
<1>2. CASE FioStep
  <2>1. UNCHANGED <<module, keepGoing, signals>>
    BY <1>2 DEF FioStep, AskType, FioReceive, FioReceiveNothing, TakeType, TakeInputs, ReportInputs,
         Ask, FioGo, FioLeave, Complete, run, loop
  <2>2. fioAt' \in {"start", "type", "inputs", "report"}
    BY <1>2 DEF FioShape, FioStep, AskType, FioReceive, FioReceiveNothing, TakeType, TakeInputs,
         ReportInputs, Ask, FioGo, FioLeave
  <2>3. fioPort' \in Seq(Bytes) /\ fioGot' \in Nat
    <3>1. CASE FioReceive
      <4>1. Len(fioPort) \in Nat /\ Missing \in Int /\ Missing > 0
        BY <3>1, FioAssumption DEF FioReceive, FioShape, Missing, Expected
      <4>2. Min({Len(fioPort), Missing}) \in Nat /\ Min({Len(fioPort), Missing}) <= Len(fioPort)
        BY <4>1, MinOfTwo
      <4>3. PICK n \in Nat : /\ n <= Len(fioPort) /\ fioGot' = fioGot + n
                            /\ fioPort' = SubSeq(fioPort, n + 1, Len(fioPort))
        BY <3>1, <4>2 DEF FioReceive
      <4>4. \A i \in n + 1..Len(fioPort) : fioPort[i] \in Bytes
        BY <4>1, <4>3 DEF FioShape
      <4>5. fioPort' \in Seq(Bytes)
        BY <4>1, <4>3, <4>4 DEF FioShape
      <4>6. fioGot' \in Nat
        BY <4>3 DEF FioShape
      <4>7. QED
        BY <4>5, <4>6
    <3>2. CASE ~FioReceive
      BY <1>2, <3>2 DEF FioShape, FioStep, AskType, FioReceiveNothing, TakeType, TakeInputs,
           ReportInputs, Ask, FioLeave
    <3>3. QED
      BY <3>1, <3>2
  <2>4. coming' \in Seq(Bytes)
    <3>1. TypeAnswer \in Seq(Bytes) /\ InputAnswer \in Seq(Bytes)
      BY TypeAnswerShape, InputAnswerShape
    <3>2. coming' = coming \/ coming' = coming \o TypeAnswer \/ coming' = coming \o InputAnswer
      BY <1>2 DEF FioStep, AskType, FioReceive, FioReceiveNothing, TakeType, TakeInputs,
           ReportInputs, Ask
    <3>3. \A a, b \in Seq(Bytes) : a \o b \in Seq(Bytes)
      OBVIOUS
    <3>4. QED
      BY <3>1, <3>2, <3>3 DEF FioShape
  <2>5. rxBuf' \in [Looked -> Bytes]
    <3>1. CASE FioReceive
      <4>1. Len(fioPort) \in Nat /\ Missing \in Int /\ Missing > 0 /\ fioGot \in Nat
        BY <3>1, FioAssumption DEF FioReceive, FioShape, Missing, Expected
      <4>2. Min({Len(fioPort), Missing}) \in Nat /\ Min({Len(fioPort), Missing}) <= Len(fioPort)
        BY <4>1, MinOfTwo
      <4>3. PICK n \in Nat : n <= Len(fioPort) /\ rxBuf' = Overlaid(n)
        BY <3>1, <4>2 DEF FioReceive
      <4>4. \A i \in Looked : i \in fioGot..fioGot + n - 1 => fioPort[i - fioGot + 1] \in Bytes
        BY <4>1, <4>3 DEF FioShape
      <4>5. QED
        BY <4>3, <4>4 DEF Overlaid, FioShape, Bytes
    <3>2. CASE FioReceiveNothing
      <4>1. \A i \in fioGot..fioGot + 0 - 1 : FALSE
        BY DEF FioShape
      <4>2. QED
        BY <3>2, <4>1 DEF FioReceiveNothing, Overlaid, FioShape, Bytes
    <3>3. CASE ~FioReceive /\ ~FioReceiveNothing
      BY <1>2, <3>3 DEF FioShape, FioStep, AskType, TakeType, TakeInputs, ReportInputs
    <3>4. QED
      BY <3>1, <3>2, <3>3
  <2>6. QED
    BY <2>1, <2>2, <2>3, <2>4, <2>5 DEF FioShape
<1>3. CASE FioArrive
  <2>1. PICK n \in {1, Len(coming)} :
          /\ coming # <<>>
          /\ fioPort' = fioPort \o SubSeq(coming, 1, n)
          /\ coming' = SubSeq(coming, n + 1, Len(coming))
    BY <1>3 DEF FioArrive
  <2>2. n \in 1..Len(coming) /\ Len(coming) \in Nat
    BY <2>1 DEF FioShape
  <2>3. fioPort' \in Seq(Bytes) /\ coming' \in Seq(Bytes)
    BY <2>1, <2>2 DEF FioShape
  <2>4. UNCHANGED <<module, fioAt, fioGot, rxBuf, keepGoing, signals>>
    BY <1>3 DEF FioArrive, run, loop
  <2>5. QED
    BY <2>3, <2>4 DEF FioShape
<1>4. CASE UNCHANGED <<run, fio>>
  BY <1>4 DEF FioShape, run, loop, fio
<1>5. QED
  BY <1>1, <1>2, <1>3, <1>4, StepsOfFio

\* A request goes out when nothing else is on its way.
LEMMA Asking ==
  ASSUME NEW answer \in Seq(Bytes), NEW where, Ask(answer, where), AnswersInTime, Silence,
         UNCHANGED <<fioPort>>, FioShape'
  PROVE  Awaiting(answer)' /\ fioAt' = where /\ UNCHANGED run
<1>1. fioGot' = 0 /\ FioGo(where) /\ (coming' = coming \o answer \/ coming' = coming)
  BY DEF Ask, AnswersInTime
<1>2. fioPort' = <<>> /\ (coming' = answer \/ coming' = <<>>)
  <2>1. <<>> \o answer = answer
    OBVIOUS
  <2>2. QED
    BY <1>1, <2>1 DEF Silence
<1>3. ReadOf(answer)'
  <2>1. \A i \in Looked : ~(i < 0)
    BY FioAssumption DEF Looked
  <2>2. QED
    BY <1>1, <2>1 DEF ReadOf
<1>4. CASE coming' = <<>>
  BY <1>1, <1>2, <1>3, <1>4 DEF Awaiting, Silence, FioGo
<1>5. CASE coming' = answer
  <2>1. Len(answer) \in Nat /\ Len(fioPort') = 0
    BY <1>2
  <2>2. \A i \in 1..Len(coming') : coming'[i] = answer[fioGot' + Len(fioPort') + i]
    <3>1. ASSUME NEW i \in 1..Len(answer) PROVE 0 + 0 + i = i
      OBVIOUS
    <3>2. QED
      BY <1>1, <1>5, <2>1, <3>1
  <2>3. \A i \in 1..Len(fioPort') : FALSE
    BY <2>1
  <2>4. RestOf(answer)'
    BY <1>1, <1>5, <2>1, <2>2, <2>3 DEF RestOf
  <2>5. QED
    BY <1>1, <1>3, <2>4 DEF Awaiting, FioGo
<1>6. QED
  BY <1>2, <1>4, <1>5

\* When an answer is complete nothing else is on its way.
LEMMA Answered ==
  ASSUME FioShape, NEW answer \in Seq(Bytes), Awaiting(answer), fioGot = Len(answer),
         answer # <<>>
  PROVE  Silence /\ ReadOf(answer)
<1>1. Len(answer) \in Nat \ {0}
  OBVIOUS
<1>2. RestOf(answer)
  BY <1>1 DEF Awaiting
<1>3. Len(fioPort) \in Nat /\ Len(coming) \in Nat /\ fioGot \in Nat
  BY DEF FioShape
<1>4. Len(fioPort) = 0 /\ Len(coming) = 0
  BY <1>2, <1>3 DEF RestOf
<1>5. QED
  BY <1>4 DEF Awaiting, Silence, FioShape

\* The type that is taken is that of the module, and nothing else is on its way.
LEMMA TypeTaken ==
  ASSUME client = "fio_monitor", AnswersInTime, FioInv, TakeType
  PROVE  Silence /\ modId' = module /\ module \in 1..6 /\ modId' # 0
<1> USE FioAssumption
<1>1. FioShape /\ at = "client" /\ TypeAnswer \in Seq(Bytes)
  BY TypeAnswerShape DEF FioInv, TakeType, FioIn
<1>2. fioAt = "type" /\ Missing = 0 /\ modId' \in ReadAs(rxBuf[HeaderSize])
  BY DEF TakeType, FioIn
<1>3. Awaiting(TypeAnswer) /\ fioGot = Len(TypeAnswer) /\ TypeAnswer # <<>>
  <2>1. fioGot = HeaderSize + 1
    BY <1>1, <1>2 DEF Missing, Expected, FioShape
  <2>2. TypeAnswer # <<>>
    BY TypeAnswerShape
  <2>3. QED
    BY <1>1, <1>2, <2>1, <2>2, TypeAnswerShape DEF FioInv
<1>4. Silence /\ ReadOf(TypeAnswer)
  BY <1>1, <1>3, Answered
<1>5. modId' = module
  <2>1. HeaderSize \in Looked /\ HeaderSize < fioGot
    BY <1>3, TypeAnswerShape DEF Looked
  <2>2. rxBuf[HeaderSize] = "type"
    BY <1>4, <2>1, TypeAnswerShape DEF ReadOf
  <2>3. QED
    BY <1>2, <2>2 DEF ReadAs
<1>6. QED
  BY <1>1, <1>4, <1>5 DEF FioShape

LEMMA FioStepInv ==
  ASSUME client = "fio_monitor", AnswersInTime, FioInv, FioShape', FioStep
  PROVE  FioInv'
<1> USE FioAssumption
<1>1. FioShape /\ at = "client" /\ client' = client /\ faults' = faults /\ module' = module
  BY DEF FioInv, FioStep, AskType, FioReceive, FioReceiveNothing, TakeType, TakeInputs,
     ReportInputs, FioIn, Ask, FioGo, FioLeave, Complete, run, chosen
<1>2. TypeAnswer' = TypeAnswer /\ InputAnswer' = InputAnswer
  BY <1>1 DEF TypeAnswer, InputAnswer, InputSize
<1>3. TypeAnswer \in Seq(Bytes) /\ InputAnswer \in Seq(Bytes)
  BY TypeAnswerShape, InputAnswerShape
<1>4. CASE AskType
  <2>1. Silence
    BY <1>4 DEF FioInv, AskType, FioIn
  <2>2. CASE Ask(TypeAnswer, "type")
    <3>1. Awaiting(TypeAnswer)' /\ fioAt' = "type" /\ at' = at
      BY <1>2, <1>3, <1>4, <2>1, <2>2, Asking DEF AskType, run, loop
    <3>2. QED
      BY <1>1, <3>1 DEF FioInv
  <2>3. CASE FioLeave({"ftError"}) /\ UNCHANGED coming
    <3>1. at' = "returned" /\ fioAt' = "start" /\ verdict' = "FAILED"
      BY <2>3, FioFails DEF FailureStatus
    <3>2. Silence'
      BY <1>4, <2>1, <2>3 DEF AskType, Silence
    <3>3. QED
      BY <3>1, <3>2 DEF FioInv
  <2>4. QED
    BY <1>4, <2>2, <2>3 DEF AskType
<1>5. CASE FioReceive
  <2>1. fioAt' = fioAt /\ at' = at /\ modId' = modId /\ fioAt \in {"type", "inputs"}
    BY <1>5 DEF FioReceive, FioGo, Receiving, run, loop
  <2>2. CASE fioAt = "type"
    <3>1. Awaiting(TypeAnswer) /\ Expected = Len(TypeAnswer)
      BY <1>1, <2>2, TypeAnswerShape DEF FioInv, Expected
    <3>2. Awaiting(TypeAnswer)'
      BY <1>1, <1>2, <1>3, <1>5, <3>1, Reading
    <3>3. QED
      BY <1>1, <2>1, <2>2, <3>2 DEF FioInv
  <2>3. CASE fioAt = "inputs"
    <3>1. Awaiting(InputAnswer) /\ modId = module /\ modId \in RawTypes
            /\ Expected = Len(InputAnswer)
      BY <1>1, <2>3, InputAnswerShape DEF FioInv, Expected, InputSize
    <3>2. Awaiting(InputAnswer)'
      BY <1>1, <1>2, <1>3, <1>5, <3>1, Reading
    <3>3. QED
      BY <1>1, <2>1, <2>3, <3>1, <3>2 DEF FioInv
  <2>4. QED
    BY <2>1, <2>2, <2>3
<1>6. CASE FioReceiveNothing
  <2>1. \/ Silence /\ FioLeave({"ftRxTimeout"})
        \/ signals > 0 /\ FioLeave({"ftRxError"})
    BY <1>6 DEF FioReceiveNothing, AnswersInTime, Silence
  <2>2. at' = "returned" /\ fioAt' = "start" /\ verdict' = "FAILED"
    BY <2>1, FioFails DEF FailureStatus
  <2>3. keepGoing' = keepGoing /\ UNCHANGED <<fioPort, coming>>
    BY <1>6, <2>1 DEF FioReceiveNothing, FioLeave, Complete
  <2>4. keepGoing' = TRUE => Silence'
    BY <1>1, <2>1, <2>3 DEF FioShape, Silence
  <2>5. QED
    BY <2>2, <2>4 DEF FioInv
<1>7. CASE TakeType
  <2>1. UNCHANGED <<rxBuf, fioPort>>
    BY <1>7 DEF TakeType
  <2>2. Silence /\ modId' = module /\ modId' # 0
    BY <1>7, TypeTaken
  <2>3. CASE modId' \in RawTypes /\ Ask(InputAnswer, "inputs")
    <3>1. Awaiting(InputAnswer)' /\ fioAt' = "inputs" /\ at' = at
      BY <1>2, <1>3, <2>1, <2>2, <2>3, Asking DEF run, loop
    <3>2. RawTypes' = RawTypes
      BY DEF RawTypes
    <3>3. QED
      BY <1>1, <2>2, <2>3, <3>1, <3>2 DEF FioInv
  <2>4. CASE modId' \notin RawTypes \cup {0} /\ FioGo("report") /\ UNCHANGED coming
    <3>1. fioAt' = "report" /\ at' = at /\ Silence'
      BY <2>1, <2>2, <2>4 DEF FioGo, run, loop, Silence
    <3>2. module \notin {2, 3}
      BY <2>2, <2>4 DEF RawTypes
    <3>3. QED
      BY <1>1, <2>2, <3>1, <3>2 DEF FioInv
  <2>5. QED
    BY <1>7, <2>2, <2>3, <2>4 DEF TakeType
<1>8. CASE TakeInputs
  <2>1. fioAt = "inputs" /\ Missing = 0 /\ fioAt' = "report" /\ at' = at
          /\ UNCHANGED <<modId, rxBuf, fioPort, coming>>
    BY <1>8 DEF TakeInputs, FioIn, FioGo, run, loop
  <2>2. modId = module /\ Awaiting(InputAnswer)
    BY <1>1, <2>1 DEF FioInv
  <2>3. fioGot = Len(InputAnswer) /\ InputAnswer # <<>>
    <3>1. fioGot = InputSize /\ InputSize \in Nat \ {0}
      BY <1>1, <2>1, <2>2 DEF Missing, Expected, InputSize, FioShape
    <3>2. QED
      BY <3>1, InputAnswerShape
  <2>4. Silence /\ ReadOf(InputAnswer)
    BY <1>1, <1>3, <2>2, <2>3, Answered
  <2>5. module \in {2, 3} => rxBuf[MONITOR_REG] = "input"
    <3>1. module \in {2, 3} => MONITOR_REG \in Looked /\ MONITOR_REG < fioGot
      BY <2>3, InputAnswerShape DEF Looked, InputSize
    <3>2. QED
      BY <2>4, <3>1, InputAnswerShape DEF ReadOf
  <2>6. Silence'
    BY <2>1, <2>4 DEF Silence
  <2>7. QED
    BY <1>1, <2>1, <2>2, <2>5, <2>6 DEF FioInv
<1>9. CASE ReportInputs
  <2>1. fioAt = "report" /\ at' = "returned" /\ fioAt' = "start" /\ monitor' = rxBuf[MONITOR_REG]
          /\ UNCHANGED <<modId, fioPort, coming>>
    BY <1>9 DEF ReportInputs, FioIn, FioLeave, Complete
  <2>2. Silence /\ modId = module /\ (module \in {2, 3} => rxBuf[MONITOR_REG] = "input")
    BY <1>1, <2>1 DEF FioInv
  <2>3. Silence'
    BY <2>1, <2>2 DEF Silence
  <2>4. QED
    BY <1>1, <2>1, <2>2, <2>3 DEF FioInv
<1>10. QED
  BY <1>4, <1>5, <1>6, <1>7, <1>8, <1>9 DEF FioStep

LEMMA FioInvHolds == Spec => []FioInv
<1>1. Init => FioInv
  <2>1. SUFFICES ASSUME Init, client = "fio_monitor" PROVE FioInv
    BY DEF FioInv
  <2>2. fioPort = <<>> /\ coming = <<>> /\ fioAt = "start" /\ fioGot = 0 /\ module \in Modules
          /\ rxBuf = [i \in Looked |-> "zero"]
    BY <2>1 DEF Init, FioInit
  <2>3. at = "call" /\ verdict = "none" /\ keepGoing = TRUE /\ signals = 0
    BY <2>1 DEF Init, RunInit
  <2>4. FioShape
    <3>1. <<>> \in Seq(Bytes) /\ rxBuf \in [Looked -> Bytes]
      BY <2>2 DEF Bytes
    <3>2. signals \in Nat /\ ~(signals > 0)
      BY <2>3
    <3>3. module \in 1..6 /\ fioGot \in Nat
      BY <2>2, FioAssumption
    <3>4. QED
      BY <2>2, <2>3, <3>1, <3>2, <3>3, Zenon DEF FioShape
  <2>5. QED
    BY <2>2, <2>3, <2>4 DEF FioInv, Silence
<1>2. FioInv /\ [Next]_vars => FioInv'
  <2>1. SUFFICES ASSUME FioInv, [Next]_vars, client = "fio_monitor", AnswersInTime'
                 PROVE  FioInv'
    <3>1. [Next]_vars => client' = client
      BY ClientStays
    <3>2. QED
      BY <3>1 DEF FioInv
  <2>2. faults' = faults
    BY <2>1, StepsOfFio DEF FioStep, AskType, FioReceive, FioReceiveNothing, TakeType, TakeInputs,
       ReportInputs, Ask, FioGo, FioLeave, Complete, FioArrive, Call, Return, Interrupt, run, chosen
  <2>3. AnswersInTime /\ FioShape
    BY <2>1, <2>2 DEF AnswersInTime, FioInv
  <2>4. FioShape'
    BY <2>1, <2>3, FioShapeStep
  <2>5. CASE (Call \/ Return \/ Interrupt) /\ UNCHANGED fio
    <3>1. UNCHANGED <<module, fioAt, modId, fioGot, rxBuf, fioPort, coming, monitor, verdict>>
      BY <2>5 DEF Call, Return, Interrupt, fio
    <3>2. /\ Silence' = Silence /\ Awaiting(TypeAnswer)' = Awaiting(TypeAnswer)
          /\ Awaiting(InputAnswer)' = Awaiting(InputAnswer)
      BY <3>1 DEF Silence, Awaiting, RestOf, ReadOf, Silence, TypeAnswer, InputAnswer, InputSize
    <3>3. CASE Call
      <4>1. at = "call" /\ at' = "client"
        BY <3>3 DEF Call
      <4>2. QED
        BY <2>1, <2>3, <2>4, <3>1, <3>2, <4>1 DEF FioInv
    <3>4. CASE Return
      <4>1. at = "returned" /\ at' \in {"call", "ended"} /\ (at' = "call" => keepGoing = TRUE)
        BY <2>3, <3>4 DEF Return, FioShape
      <4>2. QED
        BY <2>1, <2>3, <2>4, <3>1, <3>2, <4>1 DEF FioInv
    <3>5. CASE Interrupt
      <4>1. at' = at /\ keepGoing' = FALSE
        BY <3>5 DEF Interrupt
      <4>2. QED
        BY <2>1, <2>3, <2>4, <3>1, <3>2, <4>1 DEF FioInv
    <3>6. QED
      BY <2>5, <3>3, <3>4, <3>5
  <2>6. CASE FioStep
    BY <2>1, <2>3, <2>4, <2>6, FioStepInv
  <2>7. CASE FioArrive
    <3>1. /\ UNCHANGED <<module, fioAt, modId, fioGot, rxBuf, monitor, at, verdict, keepGoing>>
          /\ ~Silence
      BY <2>7 DEF FioArrive, run, loop, Silence
    <3>2. TypeAnswer' = TypeAnswer /\ InputAnswer' = InputAnswer
      BY <3>1 DEF TypeAnswer, InputAnswer, InputSize
    <3>3. Awaiting(TypeAnswer) => Awaiting(TypeAnswer)'
      BY <2>3, <2>7, <3>2, Arriving, TypeAnswerShape
    <3>4. Awaiting(InputAnswer) => Awaiting(InputAnswer)'
      BY <2>3, <2>7, <3>2, Arriving, InputAnswerShape
    <3>5. QED
      BY <2>1, <2>3, <2>4, <3>1, <3>3, <3>4 DEF FioInv
  <2>8. CASE UNCHANGED <<run, fio>>
    BY <2>1, <2>3, <2>4, <2>8 DEF FioInv, Silence, Awaiting, RestOf, ReadOf, TypeAnswer, InputAnswer,
       InputSize, run, loop, fio
  <2>9. QED
    BY <2>1, <2>5, <2>6, <2>7, <2>8, StepsOfFio
<1>3. QED
  BY <1>1, <1>2, PTL DEF Spec

\* Where no answer comes late and no read fails, the type that fio_monitor reports with its
\* PASSED is that of the attached module, in whatever pieces its answers come and whichever
\* of them are lost (FioTest).  The late answer of an iteration before may be taken for that
\* of the next, and nothing is claimed then.
THEOREM PassedMeansIdentifiedHolds == Spec => []PassedMeansIdentified
<1>1. FioInv => PassedMeansIdentified
  BY DEF FioInv, PassedMeansIdentified, AnswersInTime
<1>2. QED
  BY <1>1, FioInvHolds, PTL

\* Under the same premise the monitor bits that it reports of a module that has them are an
\* input that the module has sent, and not a byte that an earlier call left in the buffer
\* (FioTest).
THEOREM MonitorReceivedHolds == Spec => []MonitorReceived
<1>1. FioInv => MonitorReceived
  BY DEF FioInv, MonitorReceived, AnswersInTime
<1>2. QED
  BY <1>1, FioInvHolds, PTL
------------------------------------------------------------------------------
(* display.                                                                 *)

LEMMA StepsOfDisplay ==
  ASSUME client = "display", [Next]_vars
  PROVE  \/ (Call \/ Return \/ Interrupt) /\ UNCHANGED display
         \/ DisplayStep
         \/ PressKey
         \/ ResetOver /\ (UNCHANGED run \/ Interrupt)
         \/ UNCHANGED <<run, display>>
<1>1. ~EthernetStep /\ ~FrameStep /\ ~PowerStep /\ ~FioStep
  BY DEF EthernetStep, Configure, ForkPing, ForkTimer, Wait, CollectBoth, Collect, Down, EthIn,
       FrameClients, FrameStep, OpenPorts, NoFile, WriteFrame, Receive, ReceiveNothing, ClosePorts,
       FrameIn, PowerStep, OpenPower, ReadEvent, ReadInterrupted, ReadClock, SetClock,
       CompareClock, PowerIn, ClockIn, FioStep, AskType, FioReceive, FioReceiveNothing, TakeType,
       TakeInputs, ReportInputs, FioIn
<1>2. ChildStep \/ PowerDown \/ PowerUp \/ Tick \/ FioArrive => UNCHANGED run
  BY DEF ChildStep, PingEnds, TimerEnds, CopyActs, CopyEnds, PowerDown, PowerUp, Tick, FioArrive
<1>3. QED
  BY <1>1, <1>2 DEF Next, Progress, Beside, Break, LateAnswer, BreakReset, vars, clients

\* The reset, whether its read ends at once or not, changes only what is still to do.
LEMMA ResetKeeps ==
  ASSUME ResetDisplay \/ (ResetOver /\ (UNCHANGED run \/ Interrupt))
  PROVE  /\ displayAt = "stages" /\ at = "client"
         /\ UNCHANGED <<client, at, faults, calls, verdict, command, unread, runKeypadTest>>
         /\ UNCHANGED <<displayAt, fpdOpen, modes, done>>
         /\ \A step : step \notin {"reset", "answer"} => (step \in stages' <=> step \in stages)
<1>1. \/ Over("reset") \/ Over("answer")
      \/ stages' = (stages \ {"reset"}) \cup {"answer"} /\ UNCHANGED done
  BY DEF ResetDisplay, ResetOver
<1>2. {"reset", "answer"} \cap Tests = {}
  BY DEF Tests
<1>3. done' = done /\ \A step : step \notin {"reset", "answer"} => (step \in stages' <=> step \in stages)
  BY <1>1, <1>2 DEF Over
<1>4. QED
  BY <1>3 DEF ResetDisplay, ResetOver, Stage, DisplayIn, Interrupt, screen, run, chosen, loop

\* The steps of the display test come in their order.
LEMMA StagesInOrder ==
  /\ Stage("blink") => "reverse" \notin stages
  /\ Stage("d") => "blink" \notin stages /\ "reverseBlink" \notin stages
<1>1. /\ DOMAIN Steps = 1..14
      /\ Steps[1] = "a" /\ Steps[2] = "z" /\ Steps[3] = "keys" /\ Steps[4] = "k"
      /\ Steps[5] = "reset" /\ Steps[6] = "answer" /\ Steps[7] = "tabs" /\ Steps[8] = "t"
      /\ Steps[9] = "specials" /\ Steps[10] = "text" /\ Steps[11] = "reverse"
      /\ Steps[12] = "reverseBlink" /\ Steps[13] = "blink" /\ Steps[14] = "d"
  BY DEF Steps
<1>2. /\ \A i \in 1..14 : Steps[i] = "blink" => i = 13
      /\ \A i \in 1..14 : Steps[i] = "d" => i = 14
  BY <1>1
<1>3. 11 \in 1..13 - 1 /\ 12 \in 1..14 - 1 /\ 13 \in 1..14 - 1
  OBVIOUS
<1>4. Stage("blink") => "reverse" \notin stages
  BY <1>1, <1>2, <1>3 DEF Stage
<1>5. Stage("d") => "blink" \notin stages /\ "reverseBlink" \notin stages
  BY <1>1, <1>2, <1>3 DEF Stage
<1>6. QED
  BY <1>4, <1>5

\* A test has the step of its name, and those of the display test belong to no other.
LEMMA StepsOfTests ==
  ASSUME NEW S \in SUBSET Tests
  PROVE  /\ (UNION {StepsOf(test) : test \in S}) \cap Tests = S
         /\ \A step \in {"reverse", "reverseBlink", "blink", "d"} :
              step \in UNION {StepsOf(test) : test \in S} <=> "d" \in S
<1>1. \A test \in Tests : StepsOf(test) \cap Tests = {test}
  BY DEF StepsOf, Tests
<1>2. \A test \in Tests : \A step \in {"reverse", "reverseBlink", "blink", "d"} :
        step \in StepsOf(test) <=> test = "d"
  BY DEF StepsOf, Tests
<1>3. QED
  BY <1>1, <1>2

\* What switches reverse video or blinking off is still to come as long as it is on.
Ordered ==
  /\ "reverse" \in stages => "blink" \in stages
  /\ {"reverseBlink", "blink"} \cap stages # {} => "d" \in stages
Loud == {"reverse", "underline", "blink"}
SoonQuiet ==
  /\ "underline" \notin modes
  /\ "reverse" \in modes => "blink" \in stages
  /\ "blink" \in modes => "d" \in stages

QuietInv ==
  (client = "display" /\ "io" \notin faults) =>
    /\ Ordered
    /\ at # "client" => displayAt = "start"
    /\ fpdOpen => IF displayAt = "stages" THEN SoonQuiet ELSE modes \cap Loud = {}

LEMMA ToRunIsTests == ToRun \subseteq Tests
BY DEF ToRun, Tests

LEMMA QuietModes ==
  ASSUME client = "display", "io" \notin faults, QuietInv,
         NEW step, NEW on, NEW off, ModeStep(step, on, off),
         \/ on \cap Loud = {} /\ step \notin {"reverse", "reverseBlink", "blink", "d"}
         \/ Loud \subseteq off /\ step \notin {"reverse", "reverseBlink", "blink", "d"}
         \/ step = "t" /\ on = {"reverse", "backlight"} /\ off = {"reverse"}
         \/ step = "reverse" /\ on = {"reverse", "backlight"} /\ off = {}
         \/ step = "reverseBlink" /\ on = {"blink"} /\ off = {}
         \/ step = "blink" /\ on = {"blink", "backlight"} /\ off = {"reverse"}
         \/ step = "d" /\ on = {} /\ off = {"blink", "scroll"}
  PROVE  QuietInv'
<1>1. /\ Stage(step) /\ displayAt = "stages" /\ step \in stages /\ stages' = stages \ {step}
      /\ displayAt' = "stages" /\ UNCHANGED <<client, at, faults, fpdOpen>> /\ at = "client"
  BY DEF ModeStep, Stage, DisplayIn, DisplayGo, Over, run, chosen, loop
<1>2. Ordered /\ (fpdOpen => SoonQuiet)
  BY <1>1 DEF QuietInv
<1>3. fpdOpen => modes' = (modes \cup on) \ off
  BY <1>1 DEF ModeStep, Switched
<1>4. CASE step \notin {"reverse", "reverseBlink", "blink", "d"}
  <2>1. Ordered'
    BY <1>1, <1>2, <1>4 DEF Ordered
  <2>2. fpdOpen => SoonQuiet'
    BY <1>1, <1>2, <1>3, <1>4 DEF SoonQuiet, Loud
  <2>3. QED
    BY <1>1, <2>1, <2>2 DEF QuietInv
<1>5. CASE step = "reverse" \/ step = "reverseBlink"
  <2>1. Ordered'
    BY <1>1, <1>2, <1>5 DEF Ordered
  <2>2. fpdOpen => SoonQuiet'
    BY <1>1, <1>2, <1>3, <1>5 DEF SoonQuiet, Ordered
  <2>3. QED
    BY <1>1, <2>1, <2>2 DEF QuietInv
<1>6. CASE step = "blink"
  <2>1. "reverse" \notin stages
    BY <1>1, <1>6, StagesInOrder
  <2>2. Ordered'
    BY <1>1, <1>2, <1>6, <2>1 DEF Ordered
  <2>3. fpdOpen => SoonQuiet'
    BY <1>1, <1>2, <1>3, <1>6 DEF SoonQuiet, Ordered
  <2>4. QED
    BY <1>1, <2>2, <2>3 DEF QuietInv
<1>7. CASE step = "d"
  <2>1. "blink" \notin stages /\ "reverseBlink" \notin stages
    BY <1>1, <1>7, StagesInOrder
  <2>2. Ordered'
    BY <1>1, <1>2, <1>7, <2>1 DEF Ordered
  <2>3. fpdOpen => SoonQuiet'
    BY <1>1, <1>2, <1>3, <1>7, <2>1 DEF SoonQuiet
  <2>4. QED
    BY <1>1, <2>2, <2>3 DEF QuietInv
<1>8. QED
  BY <1>4, <1>5, <1>6, <1>7

LEMMA QuietStep ==
  ASSUME client = "display", "io" \notin faults, QuietInv, DisplayStep
  PROVE  QuietInv'
<1>1. UNCHANGED <<client, faults>> /\ at = "client"
  BY DEF DisplayStep, ParseDisplayOptions, InitPort, ReportAuxSwitch, ResetDisplay, ShowModes, ModeStep, Stage,
         StartKeys, ReadKey, ReadKeyAgain, EndKeys, EndDisplay, DisplayIn, DisplayGo, DisplayLeave,
         Complete, run, chosen
<1>2. Ordered
  BY DEF QuietInv
<1>3. CASE ParseDisplayOptions
  <2>1. displayAt = "start" /\ UNCHANGED <<fpdOpen, modes>>
    BY <1>3 DEF ParseDisplayOptions, DisplayIn, screen
  <2>2. fpdOpen' => modes' \cap Loud = {}
    BY <2>1 DEF QuietInv
  <2>3. CASE displayAt' = "start" /\ UNCHANGED stages
    BY <1>1, <1>2, <2>2, <2>3 DEF QuietInv, Ordered
  <2>4. CASE DisplayGo("port") /\ stages' = UNION {StepsOf(test) : test \in ToRun}
    <3>1. Ordered'
      BY <2>4, ToRunIsTests, StepsOfTests DEF Ordered
    <3>2. displayAt' = "port" /\ at' = at
      BY <2>4 DEF DisplayGo, run, loop
    <3>3. QED
      BY <1>1, <2>2, <3>1, <3>2 DEF QuietInv
  <2>5. QED
    BY <1>3, <2>3, <2>4 DEF ParseDisplayOptions, DisplayLeave
<1>4. CASE InitPort
  <2>1. stages' = stages /\ displayAt' \in {"start", "stages"} /\ (displayAt' = "stages" => at' = at)
    BY <1>4 DEF InitPort, DisplayLeave, DisplayGo, run, loop
  <2>2. fpdOpen' => modes' = modes \ initDisplay
    BY <1>4 DEF InitPort, Switched
  <2>3. Loud \subseteq initDisplay
    BY DEF Loud, initDisplay, Modes
  <2>4. fpdOpen' => modes' \cap Loud = {}
    BY <2>2, <2>3
  <2>5. Ordered'
    BY <1>2, <2>1 DEF Ordered
  <2>6. QED
    BY <1>1, <2>1, <2>4, <2>5 DEF QuietInv, SoonQuiet, Loud
<1>5. CASE ShowModes \/ StartKeys
  <2>1. /\ Loud \subseteq initDisplay \ {"cursor"} /\ Loud \subseteq initDisplay
        /\ Loud \subseteq initDisplay \ {"scroll"} /\ Loud \subseteq initDisplay \ {"cursor", "wrap"}
        /\ {"scroll", "wrap"} \cap Loud = {}
    BY DEF Loud, initDisplay, Modes
  <2>2. \E step, on, off :
         /\ ModeStep(step, on, off)
         /\ \/ on \cap Loud = {} /\ step \notin {"reverse", "reverseBlink", "blink", "d"}
            \/ Loud \subseteq off /\ step \notin {"reverse", "reverseBlink", "blink", "d"}
            \/ step = "t" /\ on = {"reverse", "backlight"} /\ off = {"reverse"}
            \/ step = "reverse" /\ on = {"reverse", "backlight"} /\ off = {}
            \/ step = "reverseBlink" /\ on = {"blink"} /\ off = {}
            \/ step = "blink" /\ on = {"blink", "backlight"} /\ off = {"reverse"}
            \/ step = "d" /\ on = {} /\ off = {"blink", "scroll"}
    BY <1>5, <2>1 DEF ShowModes, StartKeys
  <2>3. QED
    BY <2>2, QuietModes
<1>6. CASE ReportAuxSwitch \/ EndKeys
  <2>1. PICK step \in {"a", "k"} :
          /\ displayAt = "stages" /\ displayAt' = "stages" /\ UNCHANGED <<at, fpdOpen, modes>>
          /\ stages' = stages \ {step}
    BY <1>6 DEF ReportAuxSwitch, EndKeys, Stage, DisplayIn, DisplayGo, Over, screen, run, loop
  <2>2. Ordered'
    BY <1>2, <2>1 DEF Ordered
  <2>3. QED
    BY <1>1, <2>1, <2>2 DEF QuietInv, SoonQuiet
<1>7. CASE ReadKey \/ ReadKeyAgain
  <2>1. UNCHANGED <<at, displayAt, stages, fpdOpen, modes>>
    BY <1>7 DEF ReadKey, ReadKeyAgain, screen, display, run, loop
  <2>2. QED
    BY <1>1, <2>1 DEF QuietInv, SoonQuiet, Ordered
<1>8. CASE ResetDisplay
  <2>1. displayAt = "stages" /\ UNCHANGED <<at, displayAt, fpdOpen, modes>>
    BY <1>8, ResetKeeps
  <2>2. \A step \in {"reverse", "reverseBlink", "blink", "d"} : step \in stages' <=> step \in stages
    BY <1>8, ResetKeeps
  <2>3. Ordered'
    BY <1>2, <2>2 DEF Ordered
  <2>4. SoonQuiet => SoonQuiet'
    BY <2>1, <2>2 DEF SoonQuiet
  <2>5. QED
    BY <1>1, <2>1, <2>3, <2>4 DEF QuietInv
<1>9. CASE EndDisplay
  <2>1. stages = {} /\ displayAt = "stages" /\ displayAt' = "start" /\ UNCHANGED <<stages, fpdOpen, modes>>
    BY <1>9 DEF EndDisplay, DisplayIn, DisplayLeave, screen
  <2>2. fpdOpen => modes \cap Loud = {}
    BY <2>1 DEF QuietInv, SoonQuiet, Loud
  <2>3. QED
    BY <1>1, <1>2, <2>1, <2>2 DEF QuietInv, Ordered
<1>10. QED
  BY <1>3, <1>4, <1>5, <1>6, <1>7, <1>8, <1>9 DEF DisplayStep

\* The display test leaves neither reverse video nor blinking behind, whatever its options
\* and whenever a SIGINT comes, as long as what it writes gets through (DisplayTest).
THEOREM ScreenQuietHolds == Spec => []ScreenQuiet
<1>1. Init => QuietInv
  BY DEF Init, DisplayInit, QuietInv, Ordered
<1>2. QuietInv /\ [Next]_vars => QuietInv'
  <2>1. SUFFICES ASSUME QuietInv, [Next]_vars, client = "display", "io" \notin faults' PROVE QuietInv'
    <3>1. [Next]_vars => client' = client
      BY ClientStays
    <3>2. QED
      BY <3>1 DEF QuietInv
  <2>2. faults' = faults /\ client' = client
    BY <2>1, StepsOfDisplay, ClientStays
       DEF DisplayStep, ParseDisplayOptions, InitPort, ReportAuxSwitch, ResetDisplay, ShowModes, ModeStep,
         StartKeys, ReadKey, ReadKeyAgain, EndKeys, EndDisplay, DisplayGo, DisplayLeave,
         Complete, PressKey, ResetOver, Call, Return, Interrupt, run, chosen
  <2>3. CASE DisplayStep
    BY <2>1, <2>2, <2>3, QuietStep
  <2>4. CASE \/ (Call \/ Return \/ Interrupt) /\ UNCHANGED display
             \/ PressKey \/ UNCHANGED <<run, display>>
    <3>1. UNCHANGED <<displayAt, stages, fpdOpen, modes>>
      BY <2>4 DEF PressKey, display, screen
    <3>2. at' # "client" => displayAt = "start"
      BY <2>1, <2>2, <2>4 DEF QuietInv, Call, Return, Interrupt, PressKey, run, loop
    <3>3. QED
      BY <2>1, <2>2, <3>1, <3>2 DEF QuietInv, SoonQuiet, Ordered
  <2>5. CASE ResetOver /\ (UNCHANGED run \/ Interrupt)
    <3>1. at = "client" /\ UNCHANGED <<at, displayAt, fpdOpen, modes>>
      BY <2>5, ResetKeeps
    <3>2. \A step \in {"reverse", "reverseBlink", "blink", "d"} : step \in stages' <=> step \in stages
      BY <2>5, ResetKeeps
    <3>3. (Ordered => Ordered') /\ (SoonQuiet => SoonQuiet')
      BY <3>1, <3>2 DEF Ordered, SoonQuiet
    <3>4. QED
      BY <2>1, <2>2, <3>1, <3>3 DEF QuietInv
  <2>6. QED
    BY <2>1, <2>3, <2>4, <2>5, StepsOfDisplay
<1>3. QuietInv => ScreenQuiet
  BY DEF QuietInv, ScreenQuiet, Loud
<1>4. QED
  BY <1>1, <1>2, <1>3, PTL DEF Spec

\* What the options ask for; and a call that goes by them.
Asked == IF command = <<>> THEN {"d"} ELSE ToSet(command)
ByOptions == calls = 1 \/ command = <<>>

\* What a call has still to do and what it has done are what the options ask for.
AskedInv ==
  (client = "display" /\ ToSet(command) \cap Ending = {}) =>
    /\ command \in Seq(Tests \cup Ending) /\ calls \in Nat
    /\ at # "client" => displayAt = "start"
    /\ command = <<>> => unread = <<>>
    /\ ((at = "call" /\ calls = 0) \/ (at = "client" /\ displayAt = "start" /\ calls = 1))
         => unread = command /\ runKeypadTest = FALSE
    /\ at \in {"client", "returned"} => calls > 0
    /\ (ByOptions /\ at = "client" /\ displayAt # "start") => done \cup (stages \cap Tests) = Asked
    /\ (ByOptions /\ at = "returned" /\ verdict = "PASSED") => done = Asked

\* A step that is over has been gone through.
LEMMA OverKeeps ==
  ASSUME NEW step \in stages, Over(step)
  PROVE  (done \cup (stages \cap Tests))' = done \cup (stages \cap Tests)
BY DEF Over

LEMMA OptionsAsk ==
  ASSUME ToSet(command) \cap Ending = {}, command \in Seq(Tests \cup Ending),
         (calls = 1 /\ unread = command /\ runKeypadTest = FALSE) \/ (command = <<>> /\ unread = <<>>)
  PROVE  Enders = {} /\ ToRun = Asked /\ ToRun \subseteq Tests /\ (command = <<>> => Left = <<>>)
<1>1. Asked \subseteq Tests
  BY DEF ToSet, Asked, Tests
<1>2. unread = command
  OBVIOUS
<1>3. Enders = {}
  BY <1>2 DEF Enders, ToSet
<1>4. Parsed = command
  BY <1>2, <1>3 DEF Parsed
<1>5. ToRun = Asked
  <2>1. CASE command = <<>>
    BY <2>1 DEF ToRun, Asked
  <2>2. CASE command # <<>>
    BY <1>1, <1>4, <2>2 DEF ToRun, Asked
  <2>3. QED
    BY <2>1, <2>2
<1>6. command = <<>> => Left = <<>>
  <2>1. SUFFICES ASSUME command = <<>> PROVE Left = <<>>
    OBVIOUS
  <2>2. Left = SubSeq(<<>>, 1, 0)
    BY <1>2, <1>3, <1>4, <2>1 DEF Left
  <2>3. QED
    BY <2>2
<1>7. QED
  BY <1>1, <1>3, <1>5, <1>6

LEMMA AskedStep ==
  ASSUME client = "display", AskedInv, DisplayStep, ToSet(command) \cap Ending = {}
  PROVE  AskedInv'
<1>1. UNCHANGED <<client, calls, command>> /\ at = "client" /\ at' \in {"client", "returned"}
  BY DEF DisplayStep, ParseDisplayOptions, InitPort, ReportAuxSwitch, ResetDisplay, ShowModes, ModeStep, Stage,
         StartKeys, ReadKey, ReadKeyAgain, EndKeys, EndDisplay, DisplayIn, DisplayGo, DisplayLeave,
         Complete, run, chosen, loop, display
<1>2. /\ command \in Seq(Tests \cup Ending) /\ calls \in Nat /\ calls > 0
      /\ command = <<>> => unread = <<>>
  BY <1>1 DEF AskedInv
<1>3. Asked' = Asked /\ ByOptions' = ByOptions
  BY <1>1 DEF Asked, ByOptions
<1>4. CASE ParseDisplayOptions
  <2>1. displayAt = "start" /\ unread' = Left /\ done' = {}
    BY <1>4 DEF ParseDisplayOptions, DisplayIn
  <2>2. ByOptions => /\ (calls = 1 /\ unread = command /\ runKeypadTest = FALSE)
                        \/ (command = <<>> /\ unread = <<>>)
    BY <1>1, <1>2, <2>1 DEF AskedInv, ByOptions
  <2>3. CASE ~ByOptions
    <3>1. command # <<>> /\ calls # 1 /\ (at' # "client" => displayAt' = "start")
      BY <1>1, <1>4, <2>3 DEF ByOptions, ParseDisplayOptions, DisplayLeave, DisplayGo, run, loop
    <3>2. QED
      BY <1>1, <1>2, <1>3, <2>3, <3>1 DEF AskedInv
  <2>4. CASE ByOptions
    <3>1. Enders = {} /\ ToRun = Asked /\ ToRun \subseteq Tests /\ (command = <<>> => Left = <<>>)
      BY <1>2, <2>2, <2>4, OptionsAsk
    <3>2. DisplayGo("port") /\ stages' = UNION {StepsOf(test) : test \in ToRun}
      BY <1>4, <3>1 DEF ParseDisplayOptions
    <3>3. done' \cup (stages' \cap Tests) = Asked
      BY <2>1, <3>1, <3>2, StepsOfTests
    <3>4. at' = "client" /\ displayAt' = "port"
      BY <1>1, <3>2 DEF DisplayGo, run, loop
    <3>5. QED
      BY <1>1, <1>2, <1>3, <2>1, <3>1, <3>3, <3>4 DEF AskedInv
  <2>5. QED
    BY <2>3, <2>4
<1>5. CASE InitPort
  <2>1. displayAt = "port" /\ UNCHANGED <<unread, stages, done>>
    BY <1>5 DEF InitPort, DisplayIn
  <2>2. CASE DisplayGo("stages")
    <3>1. at' = "client" /\ displayAt' = "stages"
      BY <1>1, <2>2 DEF DisplayGo, run, loop
    <3>2. QED
      BY <1>1, <1>2, <1>3, <2>1, <3>1 DEF AskedInv
  <2>3. CASE DisplayLeave({"ftError"})
    <3>1. at' = "returned" /\ displayAt' = "start" /\ failed' /\ verdict' = VerdictOf(passed', failed')
      BY <2>3, Failing DEF DisplayLeave, Complete, FailureStatus
    <3>2. verdict' # "PASSED"
      BY <3>1 DEF VerdictOf
    <3>3. QED
      BY <1>1, <1>2, <1>3, <2>1, <3>1, <3>2 DEF AskedInv
  <2>4. QED
    BY <1>5, <2>2, <2>3 DEF InitPort
<1>6. CASE ShowModes \/ StartKeys \/ ReportAuxSwitch \/ EndKeys
  <2>1. PICK step : step \in stages /\ Over(step)
    BY <1>6 DEF ShowModes, StartKeys, ReportAuxSwitch, EndKeys, ModeStep, Stage
  <2>2. displayAt = "stages" /\ displayAt' = "stages" /\ at' = "client" /\ unread' = unread
    BY <1>1, <1>6 DEF ShowModes, StartKeys, ReportAuxSwitch, EndKeys, ModeStep, Stage, DisplayIn,
         DisplayGo, run, loop
  <2>3. (done \cup (stages \cap Tests))' = done \cup (stages \cap Tests)
    BY <2>1, OverKeeps
  <2>4. QED
    BY <1>1, <1>2, <1>3, <2>2, <2>3 DEF AskedInv
<1>7. CASE ReadKey \/ ReadKeyAgain
  <2>1. displayAt = "stages" /\ UNCHANGED <<at, unread, displayAt, stages, done>>
    BY <1>7 DEF ReadKey, ReadKeyAgain, Stage, DisplayIn, display, run, loop
  <2>2. QED
    BY <1>1, <1>2, <1>3, <2>1 DEF AskedInv
<1>8. CASE ResetDisplay
  <2>1. displayAt = "stages" /\ UNCHANGED <<at, unread, displayAt, done>>
    BY <1>8, ResetKeeps
  <2>2. \A step \in Tests : step \in stages' <=> step \in stages
    BY <1>8, ResetKeeps DEF Tests
  <2>3. stages' \cap Tests = stages \cap Tests
    BY <2>2
  <2>4. QED
    BY <1>1, <1>2, <1>3, <2>1, <2>3 DEF AskedInv
<1>9. CASE EndDisplay
  <2>1. /\ stages = {} /\ displayAt = "stages" /\ displayAt' = "start" /\ at' = "returned"
        /\ UNCHANGED <<unread, stages, done>>
    BY <1>9 DEF EndDisplay, DisplayIn, DisplayLeave, Complete
  <2>2. ByOptions => done = Asked
    BY <1>1, <2>1 DEF AskedInv
  <2>3. QED
    BY <1>1, <1>2, <1>3, <2>1, <2>2 DEF AskedInv
<1>10. QED
  BY <1>4, <1>5, <1>6, <1>7, <1>8, <1>9 DEF DisplayStep

\* A second call is told from the first one.
SecondCallSeen == MaxCalls > 1

\* The display test says PASSED in its first call only when every test that its options ask
\* for has been gone through to its end, whatever the options are, whenever a SIGINT comes
\* and whatever fails; without options in every call (DisplayTest).
THEOREM AskedTestsRunHolds ==
  ASSUME SecondCallSeen
  PROVE  Spec => []AskedTestsRun
<1>1. Init => AskedInv
  <2>1. SUFFICES ASSUME Init, client = "display" PROVE AskedInv
    BY DEF AskedInv
  <2>2. /\ command \in Commands /\ unread = command /\ runKeypadTest = FALSE
        /\ displayAt = "start" /\ at = "call" /\ calls = 0
    BY <2>1 DEF Init, RunInit, DisplayInit
  <2>3. command \in Seq(Tests \cup Ending)
    BY <2>2, DisplayAssumption
  <2>4. QED
    BY <2>2, <2>3 DEF AskedInv
<1>2. AskedInv /\ [Next]_vars => AskedInv'
  <2>1. SUFFICES ASSUME AskedInv, [Next]_vars, client = "display", ToSet(command') \cap Ending = {}
                 PROVE  AskedInv'
    <3>1. [Next]_vars => client' = client
      BY ClientStays
    <3>2. QED
      BY <3>1 DEF AskedInv, ToSet
  <2>2. client' = client /\ command' = command
    BY <2>1, StepsOfDisplay, ClientStays
       DEF DisplayStep, ParseDisplayOptions, InitPort, ReportAuxSwitch, ResetDisplay, ShowModes, StartKeys,
         ReadKey, ReadKeyAgain, EndKeys, EndDisplay, PressKey, ResetOver, display
  <2>3. Asked' = Asked /\ ToSet(command) \cap Ending = {}
    BY <2>1, <2>2 DEF Asked
  <2>4. CASE DisplayStep
    BY <2>1, <2>3, <2>4, AskedStep
  <2>5. CASE Call /\ UNCHANGED display
    <3>1. /\ at = "call" /\ at' = "client" /\ UNCHANGED <<unread, runKeypadTest, displayAt>>
          /\ calls' = IF calls < MaxCalls THEN calls + 1 ELSE calls
      BY <2>5 DEF Call, display
    <3>2. calls \in Nat /\ calls' \in Nat /\ calls' > 0 /\ (calls' = 1 => calls = 0)
      BY <2>1, <2>3, <3>1, RunAssumption DEF AskedInv, SecondCallSeen
    <3>3. QED
      BY <2>1, <2>2, <2>3, <3>1, <3>2 DEF AskedInv
  <2>6. CASE Return /\ UNCHANGED display
    <3>1. at = "returned" /\ at' \in {"call", "ended"} /\ UNCHANGED <<unread, displayAt, calls>>
      BY <2>6 DEF Return, display
    <3>2. QED
      BY <2>1, <2>2, <2>3, <3>1 DEF AskedInv
  <2>7. CASE \/ Interrupt /\ UNCHANGED display
             \/ PressKey \/ UNCHANGED <<run, display>>
    <3>1. UNCHANGED <<at, calls, verdict, unread, runKeypadTest, displayAt, stages, done>>
      BY <2>7 DEF Interrupt, PressKey, display, run, loop
    <3>2. QED
      BY <2>1, <2>2, <2>3, <3>1 DEF AskedInv, ByOptions
  <2>8. CASE ResetOver /\ (UNCHANGED run \/ Interrupt)
    <3>1. at = "client" /\ UNCHANGED <<at, calls, verdict, unread, runKeypadTest, displayAt, done>>
      BY <2>8, ResetKeeps
    <3>2. \A step \in Tests : step \in stages' <=> step \in stages
      BY <2>8, ResetKeeps DEF Tests
    <3>3. stages' \cap Tests = stages \cap Tests
      BY <3>2
    <3>4. QED
      BY <2>1, <2>2, <2>3, <3>1, <3>3 DEF AskedInv, ByOptions
  <2>9. QED
    BY <2>1, <2>4, <2>5, <2>6, <2>7, <2>8, StepsOfDisplay
<1>3. AskedInv => AskedTestsRun
  BY DEF AskedInv, AskedTestsRun, Asked, ByOptions
<1>4. QED
  BY <1>1, <1>2, <1>3, PTL DEF Spec
===============================================================================
