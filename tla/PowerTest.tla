------------------------------- MODULE PowerTest -------------------------------
(****************************************************************************)
(* The tests that wait for what is outside the program: powerdown           *)
(* (src/powerdownFit.c) reads from its device what the power supply does,   *)
(* rtc (src/rtcFit.c) reads the clock twice and writes back what it read.   *)
(****************************************************************************)
EXTENDS FitRun, Sequences

CONSTANT MaxEvents   \* bound: how many events of the power supply nobody has read

ASSUME PowerAssumption ==
  MaxEvents \in Nat \ {0} /\ {"powerdown", "rtc"} \cap Clients \subseteq OwnCounters

VARIABLES
  powerAt,           \* whether the device is open, and its reader blocks in read
  supply, events,    \* the power, and what the device has to say of it
  seen,              \* what powerdownFit has read in this call
  clockAt, ticked    \* where rtcFit is; and whether the clock differs from the first reading

power == <<powerAt, supply, events, seen>>
rtc == <<clockAt, ticked>>
waits == <<power, rtc>>

PowerInit ==
  /\ powerAt = "closed" /\ supply = "on" /\ events = <<>> /\ seen = <<>>
  /\ clockAt = "start" /\ ticked = FALSE

------------------------------------------------------------------------------
(* powerdown.                                                               *)

PowerIn(where) == at = "client" /\ client = "powerdown" /\ powerAt = where

\* The device tells what happens while it is open.
OpenPower ==
  /\ PowerIn("closed")
  /\ \/ UNCHANGED run /\ powerAt' = "reading"
     \/ "open" \in faults /\ Complete({"ftError"}) /\ UNCHANGED powerAt
  /\ events' = <<>> /\ seen' = <<>>
  /\ UNCHANGED <<supply, rtc>>

\* A power-down is counted as passed and awaits the restoration, which is counted as
\* a failure and ends the test.
\* Mutant: the restoration is not a failure.
ReadEventKind ==
  /\ PowerIn("reading") /\ events # <<>>
  /\ events' = Tail(events) /\ seen' = Append(seen, Head(events))
  /\ IF Head(events) = "down"
     THEN Update({"ftPass"}) /\ UNCHANGED <<chosen, loop, verdict, powerAt>>
     ELSE Complete({}) /\ powerAt' = "closed"
  /\ UNCHANGED <<supply, rtc>>
ReadEvent ==
  /\ PowerIn("reading") /\ events # <<>>
  /\ events' = Tail(events) /\ seen' = Append(seen, Head(events))
  /\ IF Head(events) = "down"
     THEN Update({"ftPass"}) /\ UNCHANGED <<chosen, loop, verdict, powerAt>>
     ELSE Complete({"ftFail"}) /\ powerAt' = "closed"
  /\ UNCHANGED <<supply, rtc>>

\* SIGINT while read blocks: ftInterrupt, which no counter of the verdict follows.
ReadBroken ==
  /\ PowerIn("reading") /\ events = <<>>
  /\ powerAt' = "broken" /\ UNCHANGED <<supply, events, seen, rtc>>

ReadInterrupted ==
  /\ PowerIn("broken")
  /\ Complete({}) /\ powerAt' = "closed"
  /\ UNCHANGED <<supply, events, seen, rtc>>

------------------------------------------------------------------------------
(* rtc.                                                                     *)

ClockIn(where) == at = "client" /\ client = "rtc" /\ clockAt = where
ClockGo(where) == UNCHANGED run /\ clockAt' = where
ClockFails == "ioctl" \in faults /\ Complete({"ftError"}) /\ clockAt' = "start"

ReadClock ==
  /\ ClockIn("start")
  /\ \/ ClockGo("sleep")
     \/ ClockFails
     \/ "open" \in faults /\ Complete({"ftError"}) /\ UNCHANGED clockAt
  /\ ticked' = FALSE /\ UNCHANGED power

\* sleep(5) is over, or a SIGINT has ended it; then the clock is read and set.
Awake == ticked \/ signals > 0 \/ "stuck" \in faults
SetClock ==
  /\ ClockIn("sleep") /\ Awake
  /\ \/ ClockGo("compare") \/ ClockFails
  /\ UNCHANGED <<ticked, power>>

CompareClock ==
  /\ ClockIn("compare")
  /\ Complete({IF ticked THEN "ftPass" ELSE "ftFail"}) /\ clockAt' = "start"
  /\ UNCHANGED <<ticked, power>>

PowerStep == OpenPower \/ ReadEvent \/ ReadInterrupted \/ ReadClock \/ SetClock \/ CompareClock

------------------------------------------------------------------------------
(* The power supply and the clock.                                          *)

Tell(event) ==
  /\ Len(events) < MaxEvents
  /\ events' = IF powerAt = "closed" THEN events ELSE Append(events, event)

PowerDown ==
  /\ client = "powerdown" /\ at \notin {"ended", "exited"} /\ supply = "on"
  /\ supply' = "off" /\ Tell("down")
  /\ UNCHANGED <<run, powerAt, seen, rtc>>

PowerUp ==
  /\ supply = "off"
  /\ supply' = "on" /\ Tell("up")
  /\ UNCHANGED <<run, powerAt, seen, rtc>>

\* Between two readings.
Tick ==
  /\ ClockIn("sleep") /\ ~ticked /\ "stuck" \notin faults
  /\ ticked' = TRUE
  /\ UNCHANGED <<run, clockAt, power>>

PowerTypes ==
  /\ powerAt \in {"closed", "reading", "broken"} /\ supply \in {"on", "off"}
  /\ events \in Seq({"down", "up"}) /\ Len(events) <= MaxEvents
  /\ seen \in Seq({"down", "up"})
  /\ clockAt \in {"start", "sleep", "compare"} /\ ticked \in BOOLEAN

\* "This test logs success at power down and failure when power is restored": PASSED is
\* what it prints only when the user ends it between the two.
PassedMeansDown ==
  (client = "powerdown" /\ verdict = "PASSED" /\ at # "client")
    => seen = <<"down">> /\ signals > 0
===============================================================================
