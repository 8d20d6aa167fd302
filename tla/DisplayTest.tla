------------------------------ MODULE DisplayTest ------------------------------
(****************************************************************************)
(* The display and keypad test (src/displayFit.c, src/displayLib.c).  What  *)
(* its options ask for is done in a fixed order, over a screen with modes;  *)
(* only opening the port and asking for the type of the screen can fail.    *)
(****************************************************************************)
EXTENDS FitRun, SequencesExt

CONSTANTS
  Commands,          \* the options that the user may give, each in a sequence
  Keys,              \* how many keys the keypad test awaits
  MaxFiles           \* how many files the process may have open

\* The tests that options ask for, and the options that end the program: "h" stands for
\* every one that is not known.  ("s" only prints and is left out.)
Tests == {"a", "z", "k", "t", "d"}
Ending == {"v", "h"}

ASSUME DisplayAssumption ==
  /\ Keys \in Nat \ {0} /\ MaxFiles \in Nat /\ ("display" \in Clients => "display" \in OwnCounters)
  /\ Commands \subseteq Seq(Tests \cup Ending)

VARIABLES
  command, unread,   \* the options, and those that getopt has not been through
  runKeypadTest,     \* the one flag that is not reset
  displayAt, stages, \* where displayFit is, and what it has still to do
  fpdOpen, fpds,     \* whether fpd is a descriptor, and how many there have been
  modes,             \* what is switched on at the screen
  typed, count,      \* the codes that wait to be read, of keys or an answer; the keys shown
  done               \* the tests that have been gone through in this call

screen == <<fpdOpen, fpds, modes>>
display == <<command, unread, runKeypadTest, displayAt, stages, screen, typed, count, done>>

Modes == {"scroll", "wrap", "cursor", "reverse", "underline", "blink", "backlight"}

\* The steps of displayFit in their order, and those of a test, which ends with the one
\* that has its name.  "answer" is the step of a read that has found nothing.
Steps == <<"a", "z", "keys", "k", "reset", "answer", "tabs", "t",
           "specials", "text", "reverse", "reverseBlink", "blink", "d">>
StepsOf(test) ==
  CASE test = "k" -> {"keys", "k"}
    [] test = "t" -> {"reset", "tabs", "t"}
    [] test = "d" -> {"specials", "text", "reverse", "reverseBlink", "blink", "d"}
    [] OTHER -> {test}

DisplayInit ==
  /\ command \in (IF client = "display" THEN Commands ELSE {<<>>}) /\ unread = command
  /\ runKeypadTest = FALSE /\ displayAt = "start" /\ stages = {}
  /\ fpdOpen = FALSE /\ fpds = 0 /\ modes = {} /\ typed = 0 /\ count = 0 /\ done = {}

------------------------------------------------------------------------------
DisplayIn(where) == at = "client" /\ client = "display" /\ displayAt = where
DisplayGo(where) == UNCHANGED run /\ displayAt' = where
DisplayLeave(S) == Complete(S) /\ displayAt' = "start"

\* "v" and "h" end the options, after one more call of getopt.
Enders == {i \in DOMAIN unread : unread[i] \in Ending}
Parsed == IF Enders = {} THEN unread ELSE SubSeq(unread, 1, Min(Enders))
Left == SubSeq(unread, Len(Parsed) + (IF Enders = {} THEN 1 ELSE 2), Len(unread))

\* Mutant: the keypad test that an earlier call has asked for is forgotten.
ToRunReset == IF command = <<>> THEN {"d"} ELSE (ToSet(Parsed) \cap Tests) \ {"k"}
\* Without any option the display test is run.
ToRun ==
  IF command = <<>> THEN {"d"}
  ELSE (ToSet(Parsed) \cap Tests) \cup (IF runKeypadTest THEN {"k"} ELSE {})

ParseDisplayOptions ==
  /\ DisplayIn("start")
  /\ unread' = Left /\ runKeypadTest' = (runKeypadTest \/ "k" \in ToSet(Parsed))
  /\ done' = {}
  /\ IF Enders # {}
     THEN /\ DisplayLeave({IF Last(Parsed) = "v" THEN "ftPass" ELSE "ftError"})
          /\ UNCHANGED stages
     ELSE /\ DisplayGo("port")
          /\ stages' = UNION {StepsOf(test) : test \in ToRun}
  /\ UNCHANGED <<command, screen, typed, count>>

\* The modes after writes that switch some on and others off; a write that fails is
\* only reported.
Switched(on, off) ==
  IF ~fpdOpen' THEN {modes}
  ELSE IF "io" \in faults THEN {(modes \cup s) \ t : s \in SUBSET on, t \in SUBSET off}
  ELSE {(modes \cup on) \ off}
initDisplay == Modes \ {"backlight"}

\* getScreenSize gives up after so many interrupted reads.
MaxRetries == 5

\* initPort returns errno, which is not negative, when the port cannot be opened, and
\* nothing closes it.  A key that has been typed before is read as the type of the
\* screen, and the type then as a key.
InitPort ==
  /\ DisplayIn("port")
  /\ \/ /\ fpds < MaxFiles /\ fpdOpen' = TRUE /\ fpds' = fpds + 1
        /\ modes' \in Switched({}, initDisplay)
        /\ typed' = IF typed > 0 THEN 1 ELSE 0
        /\ \/ DisplayGo("stages")
           \/ /\ faults \cap {"noreply", "slow", "io"} # {} \/ signals >= MaxRetries
              /\ DisplayLeave({"ftError"})
     \/ /\ fpds = MaxFiles \/ "open" \in faults
        /\ fpdOpen' = FALSE /\ DisplayGo("stages") /\ UNCHANGED <<fpds, modes, typed>>
  /\ UNCHANGED <<command, unread, runKeypadTest, stages, count, done>>

------------------------------------------------------------------------------
(* The stages.                                                              *)

\* The first of the steps that are left.
Stage(step) ==
  /\ DisplayIn("stages") /\ step \in stages
  /\ \E i \in DOMAIN Steps : Steps[i] = step /\ \A j \in 1..i - 1 : Steps[j] \notin stages

\* Mutant: a SIGINT skips the steps that are left.
OverSkipping(step) ==
  stages' = (IF keepGoing THEN stages \ {step} ELSE {}) /\ done' = done \cup ({step} \cap Tests)
Over(step) == stages' = stages \ {step} /\ done' = done \cup ({step} \cap Tests)

\* The switch is found or the question times out; reads that fail are an error.
ReportAuxSwitch ==
  /\ Stage("a")
  /\ \E S \in {{}} \cup (IF "io" \in faults THEN {{"ftError"}} ELSE {}) :
       Update(S) /\ UNCHANGED <<chosen, loop, verdict, displayAt>>
  /\ Over("a")
  /\ UNCHANGED <<command, unread, runKeypadTest, screen, typed, count>>

\* A step that only switches modes, some on and others off.
ModeStep(step, on, off) ==
  /\ Stage(step)
  /\ UNCHANGED fpdOpen /\ modes' \in Switched(on, off)
  /\ DisplayGo("stages") /\ Over(step)

\* resetDisplay: the display answers the reset, and one read takes the answer and what
\* has been typed before.  A read of no port, or one that fails, returns at once; one that
\* finds nothing blocks, without a time-out.  An answer that is late is read later.
ResetDisplay ==
  /\ Stage("reset") /\ UNCHANGED run
  /\ \/ /\ Over("reset")
        /\ \/ fpdOpen /\ typed' = 0
           \/ fpdOpen /\ typed > 0 /\ "slow" \in faults /\ typed' = 1
           \/ (~fpdOpen \/ "io" \in faults) /\ UNCHANGED typed
     \/ /\ fpdOpen /\ typed = 0 /\ faults \cap {"noreply", "slow", "io"} # {}
        /\ stages' = (stages \ {"reset"}) \cup {"answer"} /\ UNCHANGED <<typed, done>>
  /\ UNCHANGED <<command, unread, runKeypadTest, displayAt, screen, count>>

\* The read that blocks ends.
ResetOver ==
  /\ Stage("answer") /\ Over("answer")
  /\ UNCHANGED <<command, unread, runKeypadTest, displayAt, screen, count>>

ShowModes ==
  /\ \/ ModeStep("z", {"scroll", "wrap"}, {})
     \/ ModeStep("tabs", {"cursor", "backlight"}, initDisplay \ {"cursor"})
     \/ ModeStep("t", {"reverse", "backlight"}, {"reverse"})
     \/ ModeStep("specials", {"backlight"}, initDisplay)
     \/ ModeStep("text", {"scroll", "backlight"}, initDisplay \ {"scroll"})
     \/ ModeStep("reverse", {"reverse", "backlight"}, {})
     \/ ModeStep("reverseBlink", {"blink"}, {})
     \/ ModeStep("blink", {"blink", "backlight"}, {"reverse"})
     \/ ModeStep("d", {}, {"blink", "scroll"})
  /\ UNCHANGED <<command, unread, runKeypadTest, fpds, typed, count>>

StartKeys ==
  /\ ModeStep("keys", {"cursor", "wrap", "backlight"}, initDisplay \ {"cursor", "wrap"})
  /\ count' = 0
  /\ UNCHANGED <<command, unread, runKeypadTest, fpds, typed>>

\* One read takes all that has been typed and shows the first key; a code it does not
\* know is not counted.
ReadKey ==
  /\ Stage("k") /\ fpdOpen /\ typed > 0 /\ count < Keys
  /\ typed' = 0
  /\ \/ count' = count + 1
     \/ "corrupt" \in faults /\ UNCHANGED count
  /\ UNCHANGED <<run, command, unread, runKeypadTest, displayAt, stages, screen, done>>

\* A read that fails or is interrupted is repeated at once.
ReadKeyAgain == Stage("k") /\ count < Keys /\ (~fpdOpen \/ signals > 0) /\ UNCHANGED <<run, display>>

EndKeys ==
  /\ Stage("k") /\ count = Keys
  /\ DisplayGo("stages") /\ Over("k")
  /\ UNCHANGED <<command, unread, runKeypadTest, screen, typed, count>>

EndDisplay ==
  /\ DisplayIn("stages") /\ stages = {}
  /\ DisplayLeave({"ftPass"})
  /\ UNCHANGED <<command, unread, runKeypadTest, stages, screen, typed, count, done>>

DisplayStep ==
  \/ ParseDisplayOptions \/ InitPort \/ ReportAuxSwitch \/ ResetDisplay \/ ShowModes
  \/ StartKeys \/ ReadKey \/ ReadKeyAgain \/ EndKeys \/ EndDisplay

------------------------------------------------------------------------------
\* The user presses a key, one or two before the test reads again.
PressKey ==
  /\ Stage("k") /\ "unattended" \notin faults /\ typed < 2
  /\ typed' = typed + 1
  /\ UNCHANGED <<run, command, unread, runKeypadTest, displayAt, stages, screen, count, done>>

\* The answer to the reset comes after all, if it was late.
LateAnswer == "slow" \in faults /\ ResetOver /\ UNCHANGED <<run, typed>>

\* SIGINT while the read blocks; the answer may still come.
BreakReset == ResetOver /\ (UNCHANGED typed \/ ("slow" \in faults /\ typed' = 1))

DisplayTypes ==
  /\ command \in Commands \cup {<<>>} /\ Len(unread) <= Len(command)
  /\ runKeypadTest \in BOOLEAN /\ displayAt \in {"start", "port", "stages"}
  /\ stages \subseteq ToSet(Steps) /\ fpdOpen \in BOOLEAN /\ fpds \in 0..MaxFiles
  /\ modes \subseteq Modes /\ typed \in 0..2 /\ count \in 0..Keys /\ done \subseteq Tests

\* What the options ask for is gone through before the first PASSED, each test to its
\* end, a SIGINT notwithstanding; and by every call when there are no options.
AskedTestsRun ==
  (client = "display" /\ at = "returned" /\ verdict = "PASSED"
     /\ (calls = 1 \/ command = <<>>) /\ ToSet(command) \cap Ending = {})
    => done = IF command = <<>> THEN {"d"} ELSE ToSet(command)

\* "The test ends gracefully": it leaves no reverse video and no blinking behind, also
\* when a SIGINT comes in the middle of a stage.
ScreenQuiet ==
  (client = "display" /\ at = "returned" /\ fpdOpen /\ "io" \notin faults)
    => modes \cap {"reverse", "underline", "blink"} = {}
===============================================================================
