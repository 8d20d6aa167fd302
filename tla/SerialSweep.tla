------------------------------ MODULE SerialSweep ------------------------------
(****************************************************************************)
(* What the operational loop of serialFit promises: the tests of a sweep    *)
(* run side by side, a sweep ends when each of them has finished, and only  *)
(* then does the next sweep start or the run end.  SerialTest implements it *)
(* with a monitor, two threads a test and their semaphores.                 *)
(****************************************************************************)
EXTENDS Integers

CONSTANTS Tests, MaxSweeps

VARIABLES
  phase,   \* of each test in this sweep: idle, running, finished
  sweeps,  \* sweeps that have ended
  over     \* the run has ended

vars == <<phase, sweeps, over>>

Init == phase = [t \in Tests |-> "idle"] /\ sweeps = 0 /\ over = FALSE

Start(t) ==
  /\ ~over /\ phase[t] = "idle"
  /\ phase' = [phase EXCEPT ![t] = "running"]
  /\ UNCHANGED <<sweeps, over>>

Finish(t) ==
  /\ phase[t] = "running"
  /\ phase' = [phase EXCEPT ![t] = "finished"]
  /\ UNCHANGED <<sweeps, over>>

\* The user may stop the run after any sweep; the last one stops it in any case.
EndSweep ==
  /\ \A t \in Tests : phase[t] = "finished"
  /\ phase' = [t \in Tests |-> "idle"]
  /\ sweeps' = sweeps + 1
  /\ over' \in BOOLEAN
  /\ sweeps' >= MaxSweeps => over'

Next == EndSweep \/ \E t \in Tests : Start(t) \/ Finish(t)
Spec == Init /\ [][Next]_vars
Fairness == WF_vars(EndSweep) /\ \A t \in Tests : WF_vars(Start(t)) /\ WF_vars(Finish(t))
FairSpec == Spec /\ Fairness
================================================================================
