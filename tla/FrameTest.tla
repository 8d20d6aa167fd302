------------------------------- MODULE FrameTest -------------------------------
(****************************************************************************)
(* The tests of a single pair of serial ports: serial_port                  *)
(* (src/serialPortFit.c) sends a frame from one to the other, serial_echo   *)
(* (src/serialEchoFit.c) sends it back as well, a number of times.  All     *)
(* frames of a call are alike, so that a late one is taken for the one      *)
(* awaited; a reader counts bytes and takes what it gets in pieces.         *)
(****************************************************************************)
EXTENDS FitRun

CONSTANTS
  Turns,         \* what the configuration file may give as the number of frames
  Size           \* bound: the pieces a frame may come in

ASSUME FrameAssumption == Turns \subseteq Nat \ {0} /\ Size \in Nat \ {0}

VARIABLES
  frameAt, leg,  \* what the test is about, with the frame there, 1, or the one back, 2
  turn, turns,   \* i and commp->iter
  got,           \* the pieces of the frame that have been read
  options,       \* getopt has not been through the arguments
  ports,         \* those under test: of the file, default, or none
  line,          \* the pieces written and not read, by leg, but for those lost
  owed           \* the pieces that were written in this call and never read

frame == <<frameAt, leg, turn, turns, got>>
wire == <<options, ports, line, owed>>
link == <<frame, wire>>

FrameClients == {"serial_echo", "serial_port"}
TXNUM == 2

FrameInit ==
  /\ frameAt = "start" /\ leg = 1 /\ turn = 1 /\ turns = TXNUM /\ got = 0
  /\ options = TRUE /\ ports = "none" /\ line = <<0, 0>> /\ owed = 0

------------------------------------------------------------------------------
FrameIn(where) == at = "client" /\ client \in FrameClients /\ frameAt = where

FrameGo(S, where) == Update(S) /\ frameAt' = where /\ UNCHANGED <<chosen, loop, verdict>>
FrameLeave(S) ==
  /\ Complete(S)
  /\ frameAt' = "start" /\ leg' = 1 /\ turn' = 1 /\ got' = 0

\* The default ports are one: what goes out comes in, with a loopback plug.
Way(l) == IF ports = "default" THEN 1 ELSE l

\* initSerialPort flushes what a port holds.
OpenPorts ==
  /\ FrameIn("start")
  /\ options' = FALSE
  /\ IF options
     THEN ports' = "file" /\ turns' \in Turns
     ELSE ports' = "default" /\ turns' = TXNUM
  /\ \/ FrameGo({}, "write") /\ UNCHANGED <<leg, turn, got>>
     \/ "open" \in faults /\ \E s \in {"ftError", "ftTxError", "ftRxError"} : FrameLeave({s})
  /\ line' = <<0, 0>> /\ owed' = 0

\* Without a configuration file the test ends in the middle of its options.
NoFile ==
  /\ FrameIn("start") /\ options /\ "file" \in faults
  /\ FrameLeave({"ftError"})
  /\ UNCHANGED <<turns, options, ports, line, owed>>

\* The same frame again.
WriteFrame ==
  /\ FrameIn("write")
  /\ \/ \E n \in 0..Size :
          /\ n < Size => "lost" \in faults
          /\ line' = [line EXCEPT ![Way(leg)] = @ + n]
          /\ owed' = owed + Size
          /\ FrameGo({}, "read")
     \/ /\ "io" \in faults \/ signals > 0
        /\ \E s \in {"ftTxError", "ftTxFail"}, n \in 0..Size - 1 :
             /\ line' = [line EXCEPT ![Way(leg)] = @ + n]
             /\ owed' = owed + n
             /\ FrameGo({s}, "close")
  /\ UNCHANGED <<leg, turn, turns, got, options, ports>>

Returns(S) == leg = 1 /\ client = "serial_echo" /\ S = {"ftPass"}

\* The status is counted; a good frame is returned, or else it is the next turn's.
AfterFrame(S) ==
  /\ got' = 0
  /\ \/ Returns(S) /\ FrameGo(S, "write") /\ leg' = 2 /\ UNCHANGED turn
     \/ /\ ~Returns(S)
        /\ leg' = 1 /\ turn' = turn + 1
        /\ FrameGo(S, IF turn < turns THEN "write" ELSE "close")

\* Mutant: a read that gets something is taken for the frame.
ReceivePiece ==
  /\ FrameIn("read")
  /\ \E n \in 1..Size :
       /\ n <= line[Way(leg)]
       /\ line' = [line EXCEPT ![Way(leg)] = @ - n]
       /\ owed' = owed - n
       /\ AfterFrame({"ftPass"})
  /\ UNCHANGED <<turns, options, ports>>

\* One read of what there is, up to the end of the frame.
Receive ==
  /\ FrameIn("read")
  /\ \E n \in 1..Size - got :
       /\ n <= line[Way(leg)]
       /\ line' = [line EXCEPT ![Way(leg)] = @ - n]
       /\ owed' = owed - n
       /\ \/ got + n < Size /\ got' = got + n /\ FrameGo({}, "read") /\ UNCHANGED <<leg, turn>>
          \/ got + n = Size /\ AfterFrame({"ftPass"})
          \/ got + n = Size /\ "corrupt" \in faults /\ AfterFrame({"ftRxFail"})
  /\ UNCHANGED <<turns, options, ports>>

\* select times out when nothing comes, or not yet; it fails, or the read does.
ReceiveNothing ==
  /\ FrameIn("read")
  /\ \/ (line[Way(leg)] = 0 \/ "slow" \in faults) /\ AfterFrame({"ftRxTimeout"})
     \/ ("io" \in faults \/ signals > 0) /\ AfterFrame({"ftRxError"})
  /\ UNCHANGED <<turns, wire>>

ClosePorts ==
  /\ FrameIn("close")
  /\ FrameLeave({})
  /\ UNCHANGED <<turns, wire>>

FrameStep == OpenPorts \/ NoFile \/ WriteFrame \/ Receive \/ ReceiveNothing \/ ClosePorts

------------------------------------------------------------------------------
FrameTypes ==
  /\ frameAt \in {"start", "write", "read", "close"} /\ leg \in {1, 2}
  /\ turns \in Turns \cup {TXNUM} /\ turn \in 1..turns + 1 /\ got \in 0..Size - 1
  /\ options \in BOOLEAN /\ ports \in {"none", "file", "default"}
  /\ line \in [{1, 2} -> Nat] /\ owed \in Nat

\* A test that says PASSED has got back every byte that it wrote: a late frame that is
\* taken for a later one, in whichever turn, does not hide that one was missed.
PassedMeansReceived ==
  (client \in FrameClients /\ verdict = "PASSED" /\ at # "client") => owed = 0 /\ line = <<0, 0>>
===============================================================================
