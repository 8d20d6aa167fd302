---------------------------------- MODULE Fit ----------------------------------
(****************************************************************************)
(* The multi-call binary: main calls one of the tests of its table, again   *)
(* and again, over devices and files that keep what an iteration left.      *)
(****************************************************************************)
EXTENDS DeviceTest, FsTest

vars == <<run, device, files>>

Init == RunInit /\ DeviceInit /\ FsInit

\* main and the test it calls.
Progress ==
  \/ (Call \/ Return) /\ UNCHANGED <<device, files>>
  \/ DeviceStep /\ UNCHANGED files
  \/ FsStep /\ UNCHANGED device

Next ==
  \/ Progress
  \/ Interrupt /\ UNCHANGED <<device, files>>
  \/ at \in {"ended", "exited"} /\ UNCHANGED vars

Spec == Init /\ [][Next]_vars

\* The process goes on; the user owes nothing.
FairSpec == Spec /\ WF_vars(Progress)

TypeOK == RunTypes /\ DeviceTypes /\ FsTypes

\* With devices that do what they should, every iteration passes, whatever the test
\* and however often it is called.
FaultFreePasses == faults = {} => verdict \in {"none", "PASSED"}
===============================================================================
