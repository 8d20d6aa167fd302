-------------------------------- MODULE FitRun --------------------------------
(****************************************************************************)
(* The framework of M-Fit (src/fit.c): main calls the test the user asked   *)
(* for, again and again as option -I says, until a SIGINT; the test counts  *)
(* what happens with ftUpdateTestStatus, and ftComplete prints the verdict. *)
(* A counter is followed as far as the verdict looks at it: zero or not.    *)
(****************************************************************************)
EXTENDS Integers

CONSTANTS
  Clients,        \* the tests of the table ftTest that may be asked for
  OwnCounters,    \* those whose ftrp is an ftResults of their own source file
  Counts,         \* what the user may give as -I
  FaultSets,      \* what the environment may do wrong, a set of sets
  MaxSignals,     \* bound: how many SIGINTs the user sends
  MaxCalls        \* bound: up to where the calls of an endless run are counted

ASSUME RunAssumption ==
  /\ OwnCounters \subseteq Clients
  /\ Counts \subseteq Int
  /\ MaxSignals \in Nat /\ MaxCalls \in Nat \ {0}
  /\ \A n \in Counts : n <= MaxCalls

VARIABLES
  client, asked, faults,\* the test, the value of -I, the environment of this run
  at,                   \* main: before the call, in it, after it, ended, or left by exit
  iter, keepGoing,      \* the loop of main
  signals, calls,       \* SIGINTs and calls so far
  passed, failed,       \* the counters behind ftrp: ftPassCnt, one of the failures
  verdict               \* the last line printed by ftComplete

chosen == <<client, asked, faults>>
counters == <<passed, failed>>
loop == <<at, iter, keepGoing, signals, calls>>
run == <<chosen, loop, counters, verdict>>

runContinuous == asked = 0

RunInit ==
  /\ client \in Clients /\ asked \in Counts /\ faults \in FaultSets
  /\ at = "call" /\ iter = asked /\ keepGoing = TRUE
  /\ signals = 0 /\ calls = 0
  /\ passed = FALSE /\ failed = FALSE /\ verdict = "none"

------------------------------------------------------------------------------
(* ftUpdateTestStatus.                                                      *)

FailureStatus == {"ftFail", "ftError", "ftSignal", "ftTxError", "ftTxFail", "ftTxTimeout",
                  "ftRxError", "ftRxTimeout", "ftRxFail"}

\* The counters after the statuses S.
Update(S) ==
  /\ passed' = (passed \/ "ftPass" \in S)
  /\ failed' = (failed \/ S \cap FailureStatus # {})

VerdictOf(p, f) == IF f THEN "FAILED" ELSE IF p THEN "PASSED" ELSE "DID NOT RUN"

\* The last statuses of a test, its ftComplete, and its return.
Complete(S) ==
  /\ Update(S)
  /\ verdict' = VerdictOf(passed', failed')
  /\ at' = "returned"
  /\ UNCHANGED <<chosen, iter, keepGoing, signals, calls>>

------------------------------------------------------------------------------
(* main and sig_handler.                                                    *)

\* Mutant: the counters of every test are cleared.
CallClearingAll ==
  /\ at = "call"
  /\ at' = "client"
  /\ calls' = IF calls < MaxCalls THEN calls + 1 ELSE calls
  /\ passed' = FALSE /\ failed' = FALSE
  /\ UNCHANGED <<chosen, iter, keepGoing, signals, verdict>>

\* The memset clears the counters of fit.c; a test with counters of its own
\* goes on from the iteration before.
Call ==
  /\ at = "call"
  /\ at' = "client"
  /\ calls' = IF calls < MaxCalls THEN calls + 1 ELSE calls
  /\ passed' = (passed /\ client \in OwnCounters)
  /\ failed' = (failed /\ client \in OwnCounters)
  /\ UNCHANGED <<chosen, iter, keepGoing, signals, verdict>>

\* Mutants: an iteration too many; the signal is not looked at.
ReturnOneMore ==
  /\ at = "returned"
  /\ iter' = IF iter > -MaxCalls THEN iter - 1 ELSE iter
  /\ at' = IF keepGoing /\ (runContinuous \/ iter' >= 0) THEN "call" ELSE "ended"
  /\ UNCHANGED <<chosen, keepGoing, signals, calls, counters, verdict>>
ReturnForever ==
  /\ at = "returned"
  /\ iter' = IF iter > -MaxCalls THEN iter - 1 ELSE iter
  /\ at' = IF runContinuous \/ (keepGoing /\ iter' > 0) THEN "call" ELSE "ended"
  /\ UNCHANGED <<chosen, keepGoing, signals, calls, counters, verdict>>

Return ==
  /\ at = "returned"
  /\ iter' = IF iter > -MaxCalls THEN iter - 1 ELSE iter
  /\ at' = IF keepGoing /\ (runContinuous \/ iter' > 0) THEN "call" ELSE "ended"
  /\ UNCHANGED <<chosen, keepGoing, signals, calls, counters, verdict>>

Interrupt ==
  /\ at \notin {"ended", "exited"} /\ signals < MaxSignals
  /\ keepGoing' = FALSE
  /\ signals' = signals + 1
  /\ UNCHANGED <<chosen, at, iter, calls, counters, verdict>>

------------------------------------------------------------------------------
ChoiceTypes == client \in Clients /\ asked \in Counts /\ faults \in FaultSets
LoopTypes ==
  /\ at \in {"call", "client", "returned", "ended", "exited"}
  /\ iter \in Int /\ signals \in 0..MaxSignals /\ calls \in 0..MaxCalls
FlagTypes == keepGoing \in BOOLEAN /\ passed \in BOOLEAN /\ failed \in BOOLEAN
VerdictTypes == verdict \in {"none", "PASSED", "FAILED", "DID NOT RUN"}
RunTypes == ChoiceTypes /\ LoopTypes /\ FlagTypes /\ VerdictTypes

\* A run that nobody interrupts calls its test as often as -I says, and at least
\* once, whatever the test finds: main has no other way out of its loop.
IterationsRun ==
  (at = "ended" /\ signals = 0) =>
    /\ ~runContinuous
    /\ calls = IF asked > 0 THEN asked ELSE 1

\* SIGINT ends the program, an endless run included.
InterruptEnds == ~keepGoing ~> at \in {"ended", "exited"}
===============================================================================
