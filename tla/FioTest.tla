-------------------------------- MODULE FioTest --------------------------------
(****************************************************************************)
(* The test of the field I/O module (src/fioMonitorFit.c): it asks the      *)
(* module at the end of /dev/sp5s for its type, and then for its inputs if  *)
(* the type has some.  An answer is so many bytes, taken from whatever the  *)
(* port holds: nothing says which request they answer.                      *)
(****************************************************************************)
EXTENDS FitRun, SequencesExt

CONSTANTS
  Modules,           \* the types of module that may be attached
  HeaderSize,        \* sizes, 3, 15, 22 and 17 in the code: of what starts an answer,
  ShortSize,         \* of the inputs of a 2070-2
  LongSize,          \* and of the others, each with the header,
  MONITOR_REG,       \* and where the monitor register is
  MaxBacklog         \* bound: how many bytes that nobody reads the driver keeps

ASSUME FioAssumption ==
  /\ Modules \subseteq 1..6 /\ MaxBacklog \in Nat /\ "fio_monitor" \notin OwnCounters
  /\ {HeaderSize, ShortSize, LongSize, MONITOR_REG} \subseteq Nat \ {0}
  /\ HeaderSize < ShortSize /\ ShortSize <= MONITOR_REG /\ MONITOR_REG < LongSize

VARIABLES
  module,            \* the type of the attached module
  fioAt, modId,      \* where fioMonitorFit is, and the type it has read
  fioGot, rxBuf,     \* the bytes that rxFio has got; rxBuf where something looks at it
  fioPort, coming,   \* bytes to be read, and those of an answer that is on its way
  monitor            \* what has been reported as the monitor register

fio == <<module, fioAt, modId, fioGot, rxBuf, fioPort, coming, monitor>>

\* What a byte is: of the header, the type, an input, or cleared by memset.
Bytes == {"header", "type", "input", "zero"}
Repeat(byte, n) == [i \in 1..n |-> byte]

Looked == {HeaderSize, MONITOR_REG}
RawTypes == 1..3

\* What the module sends.
TypeAnswer == Append(Repeat("header", HeaderSize), "type")
InputSize == IF module = 1 THEN ShortSize ELSE LongSize
InputAnswer == Repeat("header", HeaderSize) \o Repeat("input", InputSize - HeaderSize)

\* What the test awaits: rxsz of getModuleIdCmd, getRawInputsCmd2 and getRawInputsCmd8.
\* Mutant: all modules have as many inputs.
ExpectedAlike == IF fioAt = "type" THEN HeaderSize + 1 ELSE ShortSize
Expected ==
  IF fioAt = "type" THEN HeaderSize + 1 ELSE IF modId = 1 THEN ShortSize ELSE LongSize

FioInit ==
  /\ module \in (IF client = "fio_monitor" THEN Modules ELSE {1})
  /\ fioAt = "start" /\ modId = 0 /\ fioGot = 0
  /\ rxBuf = [i \in Looked |-> "zero"]
  /\ fioPort = <<>> /\ coming = <<>> /\ monitor = "none"

------------------------------------------------------------------------------
FioIn(where) == at = "client" /\ client = "fio_monitor" /\ fioAt = where
FioGo(where) == UNCHANGED run /\ fioAt' = where

\* The port is left open unless all went well, and what it holds is not flushed.
FioLeave(S) == Complete(S) /\ fioAt' = "start" /\ fioGot' = 0

Backlog == Len(fioPort) + Len(coming)

\* txFio: the module answers, or the answer is lost or is still to come.
Ask(answer, where) ==
  \/ /\ FioGo(where) /\ fioGot' = 0
     /\ \/ Backlog < MaxBacklog /\ coming' = coming \o answer
        \/ (Backlog >= MaxBacklog \/ "lost" \in faults) /\ UNCHANGED coming
  \/ "io" \in faults /\ FioLeave({"ftTxFail"}) /\ UNCHANGED coming

AskType ==
  /\ FioIn("start")
  /\ \/ Ask(TypeAnswer, "type")
     \/ "open" \in faults /\ FioLeave({"ftError"}) /\ UNCHANGED coming
  /\ UNCHANGED <<module, modId, rxBuf, fioPort, monitor>>

\* rxFio: what there is, up to the size; the rest in a further round.
Receiving == fioAt \in {"type", "inputs"}
Missing == Expected - fioGot

\* rxBuf with n more bytes of the port, in what memset has cleared.
Overlaid(n) ==
  [i \in Looked |->
     IF i \in fioGot..fioGot + n - 1 THEN fioPort[i - fioGot + 1]
     ELSE IF fioGot = 0 /\ i < Expected THEN "zero" ELSE rxBuf[i]]

FioReceive ==
  /\ Receiving /\ FioIn(fioAt) /\ Missing > 0 /\ fioPort # <<>>
  /\ LET n == Min({Len(fioPort), Missing})
     IN  /\ fioGot' = fioGot + n /\ rxBuf' = Overlaid(n)
         /\ fioPort' = SubSeq(fioPort, n + 1, Len(fioPort))
  /\ FioGo(fioAt) /\ UNCHANGED <<module, modId, coming, monitor>>

\* select times out; or it or the read fails, or reads nothing.
FioReceiveNothing ==
  /\ Receiving /\ FioIn(fioAt) /\ Missing > 0
  /\ \/ fioPort = <<>> /\ (coming = <<>> \/ "slow" \in faults) /\ FioLeave({"ftRxTimeout"})
     \/ ("io" \in faults \/ signals > 0) /\ FioLeave({"ftRxError"})
  /\ rxBuf' = Overlaid(0)
  /\ UNCHANGED <<module, modId, fioPort, coming, monitor>>

\* The types that a byte may be read as; 0 stands for all that are not recognized.
ReadAs(byte) ==
  CASE byte = "type" -> {module}
    [] byte = "input" -> 0..6
    [] OTHER -> {0}

\* getModuleId takes the last byte of the answer.
TakeType ==
  /\ FioIn("type") /\ Missing = 0
  /\ modId' \in ReadAs(rxBuf[HeaderSize])
  /\ \/ modId' = 0 /\ FioLeave({"ftError"}) /\ UNCHANGED coming
     \/ modId' \in RawTypes /\ Ask(InputAnswer, "inputs")
     \/ modId' \notin RawTypes \cup {0} /\ FioGo("report") /\ UNCHANGED <<coming, fioGot>>
  /\ UNCHANGED <<module, rxBuf, fioPort, monitor>>

TakeInputs ==
  /\ FioIn("inputs") /\ Missing = 0
  /\ FioGo("report")
  /\ UNCHANGED <<module, modId, fioGot, rxBuf, fioPort, coming, monitor>>

\* The monitor bits are reported whether or not they were asked for.
ReportInputs ==
  /\ FioIn("report")
  /\ monitor' = rxBuf[MONITOR_REG]
  /\ FioLeave({"ftPass"})
  /\ UNCHANGED <<module, modId, rxBuf, fioPort, coming>>

FioStep ==
  AskType \/ FioReceive \/ FioReceiveNothing \/ TakeType \/ TakeInputs \/ ReportInputs

------------------------------------------------------------------------------
\* An answer comes in, as a whole or its first byte before the rest.
FioArrive ==
  /\ at \notin {"ended", "exited"} /\ coming # <<>>
  /\ \E n \in {1, Len(coming)} :
       /\ fioPort' = fioPort \o SubSeq(coming, 1, n)
       /\ coming' = SubSeq(coming, n + 1, Len(coming))
  /\ UNCHANGED <<run, module, fioAt, modId, fioGot, rxBuf, monitor>>

FioTypes ==
  /\ module \in 1..6 /\ modId \in 0..6
  /\ fioAt \in {"start", "type", "inputs", "report"}
  /\ fioGot \in 0..LongSize /\ rxBuf \in [Looked -> Bytes]
  /\ fioPort \in Seq(Bytes) /\ coming \in Seq(Bytes) /\ monitor \in Bytes \cup {"none"}

\* "It may be used to verify the presence of a Field I/O": unless an answer is late or
\* cannot be read, the type that a test reports with its PASSED is that of the attached
\* module, however many iterations, answers lost or interrupts there were before.
PassedMeansIdentified ==
  (client = "fio_monitor" /\ verdict = "PASSED" /\ at # "client"
     /\ faults \cap {"slow", "io"} = {}) => modId = module

\* Of a module that has been asked for its inputs, has a monitor register and answers in
\* time, the monitor bits are an input it has sent; not a byte of an earlier answer.
MonitorReceived ==
  (client = "fio_monitor" /\ verdict = "PASSED" /\ at = "returned" /\ module \in {2, 3}
     /\ faults \cap {"slow", "io"} = {}) => monitor = "input"
===============================================================================
