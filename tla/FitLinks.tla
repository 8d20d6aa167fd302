------------------------------- MODULE FitLinks -------------------------------
(****************************************************************************)
(* The tests that talk to others or wait for them, called by main again and *)
(* again: ethernet, serial_port and serial_echo, fio_monitor, powerdown and *)
(* rtc, display.                                                            *)
(****************************************************************************)
EXTENDS EthernetTest, FrameTest, FioTest, PowerTest, DisplayTest

clients == <<network, link, fio, waits, display>>
vars == <<run, clients>>

Init == RunInit /\ EthInit /\ FrameInit /\ FioInit /\ PowerInit /\ DisplayInit

\* main and the test it calls.
Progress ==
  \/ (Call \/ Return) /\ UNCHANGED clients
  \/ EthernetStep /\ UNCHANGED <<link, fio, waits, display>>
  \/ FrameStep /\ UNCHANGED <<network, fio, waits, display>>
  \/ FioStep /\ UNCHANGED <<network, link, waits, display>>
  \/ PowerStep /\ UNCHANGED <<network, link, fio, display>>
  \/ DisplayStep /\ UNCHANGED <<network, link, fio, waits>>

\* The world outside the process.
Beside ==
  \/ ChildStep /\ UNCHANGED <<link, fio, waits, display>>
  \/ FioArrive /\ UNCHANGED <<network, link, waits, display>>
  \/ (PowerDown \/ PowerUp \/ Tick) /\ UNCHANGED <<network, link, fio, display>>
  \/ (PressKey \/ LateAnswer) /\ UNCHANGED <<network, link, fio, waits>>

\* SIGINT, and the call of the system that it may break.
Break ==
  \/ BreakWait /\ UNCHANGED <<link, fio, waits, display>>
  \/ ReadBroken /\ UNCHANGED <<network, link, fio, display>>
  \/ BreakReset /\ UNCHANGED <<network, link, fio, waits>>
  \/ UNCHANGED clients

Next ==
  \/ Progress
  \/ Beside
  \/ Interrupt /\ Break
  \/ at \in {"ended", "exited"} /\ UNCHANGED vars

Spec == Init /\ [][Next]_vars

Attended == "unattended" \notin faults

\* The process goes on and so do its children, but for a ping that gets no answer; the
\* module answers unless it is late, the clock ticks, the user does what an attended test
\* waits for, with keys that are known among others, but owes no SIGINT.
FairSpec ==
  /\ Spec /\ WF_vars(Progress)
  /\ \A p \in Pids :
       /\ WF_vars(Answering(p) /\ UNCHANGED <<link, fio, waits, display>>)
       /\ WF_vars(TimerEnds(p) /\ UNCHANGED <<link, fio, waits, display>>)
       /\ WF_vars(CopyEnds(p) /\ UNCHANGED <<link, fio, waits, display>>)
  /\ WF_vars("slow" \notin faults /\ FioArrive /\ UNCHANGED <<network, link, waits, display>>)
  /\ WF_vars((Tick \/ PowerUp \/ (Attended /\ PowerDown)) /\ UNCHANGED <<network, link, fio, display>>)
  /\ WF_vars(PressKey /\ UNCHANGED <<network, link, fio, waits>>)
  /\ SF_vars(ReadKey /\ count' > count /\ UNCHANGED <<network, link, fio, waits>>)

TypeOK == RunTypes /\ EthTypes /\ FrameTypes /\ FioTypes /\ PowerTypes /\ DisplayTypes

\* With hosts and modules that answer, wires that carry and a clock that ticks, every
\* iteration passes that the user does not interrupt.
FaultFreePasses ==
  (faults = {} /\ signals = 0 /\ client # "powerdown" /\ "h" \notin ToSet(command))
    => verdict \in {"none", "PASSED"}

\* Every call of a test comes to an end, also when a host never answers or a frame
\* never comes, when the user does what it asks for; but a keypad test that has no port
\* reads for ever, and so does a tabs test whose display does not answer the reset.
CallReturns ==
  at = "client" ~> (at # "client" \/ (Stage("k") /\ ~fpdOpen) \/ Stage("answer"))
===============================================================================
