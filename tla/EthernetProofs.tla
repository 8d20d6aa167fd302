---------------------------- MODULE EthernetProofs ----------------------------
(****************************************************************************)
(* Proofs about FitLinks that need more than one test: the processes and    *)
(* interfaces of ethernet, for every number of iterations and every choice  *)
(* of faults; then, for all tests together, the types and the runs in which *)
(* nothing goes wrong.                                                      *)
(****************************************************************************)
EXTENDS FitLinksProofs, FiniteSetTheorems, WellFoundedInduction

------------------------------------------------------------------------------
(* The table of processes.                                                  *)

Kinds == {"free", "ping", "timer", "copy", "dead"}

EthShape ==
  /\ proc \in [Pids -> Kinds] /\ host \in Ifs /\ answered \subseteq Ifs
  /\ ethAt \in {"start", "ping", "timer", "wait", "collect", "collectBoth", "down"}
  /\ signals \in Nat /\ broken \in BOOLEAN /\ (signals = 0 => broken = FALSE)
  /\ passed \in BOOLEAN /\ failed \in BOOLEAN

Only(P) == \A p \in Pids : p \notin P => proc[p] = "free"
PingForked == pingPid \in Pids /\ proc[pingPid] \in {"ping", "copy", "dead"}
TimerForked == timeoutPid \in Pids /\ timeoutPid # pingPid /\ proc[timeoutPid] \in {"timer", "dead"}

\* What there is in the table of processes, place by place.
Table ==
  /\ ethAt \in {"start", "ping", "down"} => Only({})
  /\ ethAt = "timer" => (PingForked /\ Only({pingPid}))
  /\ ethAt = "wait" => (PingForked /\ TimerForked /\ Only({pingPid, timeoutPid}))
  /\ ethAt = "collect" => \E p \in Pids : proc[p] = "dead" /\ Only({p})
  /\ ethAt # "collectBoth"

\* A failed fork counts, and a SIGINT breaks a wait: the table is known until then.
Regular == signals = 0 /\ ("fork" \in faults => failed = FALSE)

TableInv ==
  /\ client # "ethernet" => Only({})
  /\ client = "ethernet" =>
       /\ EthShape
       /\ at # "client" => ethAt = "start"
       /\ Regular => Table

LEMMA StepsOfEthernet ==
  ASSUME client = "ethernet", [Next]_vars
  PROVE  \/ (Call \/ Return) /\ UNCHANGED network
         \/ EthernetStep
         \/ ChildStep
         \/ Interrupt /\ (BreakWait \/ UNCHANGED network)
         \/ UNCHANGED <<run, network>>
<1>1. ~FrameStep /\ ~FioStep /\ ~PowerStep /\ ~DisplayStep
  BY DEF FrameClients, FrameStep, OpenPorts, NoFile, WriteFrame, Receive, ReceiveNothing,
       ClosePorts, FrameIn, FioStep, AskType, FioReceive, FioReceiveNothing, TakeType, TakeInputs,
       ReportInputs, FioIn, PowerStep, OpenPower, ReadEvent, ReadInterrupted, ReadClock, SetClock,
       CompareClock, PowerIn, ClockIn, DisplayStep, ParseDisplayOptions, InitPort,
       ReportAuxSwitch, ResetDisplay, ShowModes, ModeStep, StartKeys, ReadKey, ReadKeyAgain, EndKeys, EndDisplay,
       DisplayIn, Stage
<1>2. FioArrive \/ PowerDown \/ PowerUp \/ Tick \/ PressKey \/ LateAnswer => UNCHANGED run
  BY DEF FioArrive, PowerDown, PowerUp, Tick, PressKey, LateAnswer, ResetOver
<1>3. QED
  BY <1>1, <1>2 DEF Next, Progress, Beside, Break, vars, clients

\* The tests of others have no children.
LEMMA OthersHaveNone ==
  ASSUME client # "ethernet", Only({}), [Next]_vars
  PROVE  Only({})'
<1>1. ~EthernetStep
  BY DEF EthernetStep, Configure, ForkPing, ForkTimer, Wait, CollectBoth, Collect, Down, EthIn
<1>2. ~ChildStep
  BY DEF ChildStep, PingEnds, TimerEnds, CopyActs, CopyEnds, Only
<1>3. UNCHANGED proc
  BY <1>1, <1>2 DEF Next, Progress, Beside, Break, BreakWait, vars, clients, network, children
<1>4. QED
  BY <1>3 DEF Only

LEMMA EthShapeStep ==
  ASSUME client = "ethernet", EthShape, [Next]_vars
  PROVE  EthShape'
<1>1. CASE (Call \/ Return) /\ UNCHANGED network
  BY <1>1 DEF EthShape, Call, Return, counters, network, children
<1>2. CASE EthernetStep
  <2>1. signals' = signals /\ passed' \in BOOLEAN /\ failed' \in BOOLEAN
    BY <1>2 DEF EthShape, EthernetStep, Configure, ForkPing, ForkTimer, Wait, CollectBoth, Collect,
         Down, NextHost, Timeout, LeaveUnreported, EthGo, Complete, Update, loop
  <2>2. broken' = broken \/ broken' = FALSE
    BY <1>2 DEF EthernetStep, Configure, ForkPing, ForkTimer, Wait, CollectBoth, Collect, Down,
         Reap, Returned
  <2>3. proc' \in [Pids -> Kinds]
    <3>1. proc' = proc \/ (\E k \in Kinds : Fork(k)) \/ (\E p, K : Collected(p, K))
      BY <1>2 DEF EthernetStep, Configure, ForkPing, ForkTimer, Wait, CollectBoth, Collect, Down,
           Reap, Timeout, Kinds
    <3>2. QED
      BY <3>1 DEF EthShape, Fork, Collected, Kinds
  <2>4. host' \in Ifs /\ answered' \subseteq Ifs
    <3>1. host' = host \/ host' = 1 \/ host' = 2
      BY <1>2 DEF EthernetStep, Configure, ForkPing, ForkTimer, Wait, CollectBoth, Collect, Down,
           NextHost
    <3>2. answered' = answered \/ answered' = {}
      BY <1>2 DEF EthernetStep, Configure, ForkPing, ForkTimer, Wait, CollectBoth, Collect, Down
    <3>3. {1, 2} \subseteq Ifs
      BY DEF Ifs
    <3>4. QED
      BY <3>1, <3>2, <3>3 DEF EthShape
  <2>5. ethAt' \in {"start", "ping", "timer", "wait", "collect", "collectBoth", "down"}
    BY <1>2 DEF EthShape, EthernetStep, Configure, ForkPing, ForkTimer, Wait, CollectBoth, Collect,
         Down, NextHost, Timeout, LeaveUnreported, EthGo, Following
  <2>6. QED
    BY <2>1, <2>2, <2>3, <2>4, <2>5 DEF EthShape
<1>3. CASE ChildStep
  <2>1. UNCHANGED <<ethAt, host, signals, broken, passed, failed>>
    BY <1>3 DEF ChildStep, PingEnds, TimerEnds, CopyActs, CopyEnds, run, loop, counters, children
  <2>2. proc' = proc \/ \E p \in Pids : proc' = [proc EXCEPT ![p] = "dead"]
    BY <1>3 DEF ChildStep, PingEnds, TimerEnds, CopyActs, CopyEnds, children
  <2>3. proc' \in [Pids -> Kinds]
    BY <2>2 DEF EthShape, Kinds
  <2>4. answered' \subseteq Ifs
    <3>1. PICK p \in Pids : PingEnds(p) \/ TimerEnds(p) \/ CopyActs(p) \/ CopyEnds(p)
      BY <1>3 DEF ChildStep
    <3>2. answered' = answered \/ answered' = answered \cup (IF p = pingPid THEN {host} ELSE {})
      BY <3>1 DEF PingEnds, TimerEnds, CopyActs, CopyEnds, children
    <3>3. QED
      BY <3>2 DEF EthShape
  <2>5. QED
    BY <2>1, <2>3, <2>4 DEF EthShape
<1>4. CASE Interrupt /\ (BreakWait \/ UNCHANGED network)
  <2>1. signals' \in Nat /\ signals' # 0
    BY <1>4 DEF EthShape, Interrupt
  <2>2. broken' \in BOOLEAN
    BY <1>4 DEF EthShape, BreakWait, network, children
  <2>3. QED
    BY <1>4, <2>1, <2>2 DEF EthShape, Interrupt, BreakWait, network, children, counters
<1>5. CASE UNCHANGED <<run, network>>
  BY <1>5 DEF EthShape, run, loop, counters, network, children
<1>6. QED
  BY <1>1, <1>2, <1>3, <1>4, <1>5, StepsOfEthernet

\* Another child, and the others as before.
LEMMA NewChild ==
  ASSUME EthShape, NEW kind \in Kinds, Fork(kind)
  PROVE  /\ NewPid \in Pids /\ proc[NewPid] = "free" /\ proc'[NewPid] = kind
         /\ \A p \in Pids : p # NewPid => proc'[p] = proc[p]
BY DEF Fork, Free, NewPid, EthShape

LEMMA TableSteps ==
  ASSUME client = "ethernet", TableInv, EthernetStep, Regular'
  PROVE  Table'
<1> USE EthernetAssumption
<1>1. EthShape /\ at = "client" /\ faults' = faults /\ signals' = signals
  BY DEF TableInv, EthernetStep, Configure, ForkPing, ForkTimer, Wait, CollectBoth, Collect, Down,
       EthIn, NextHost, Timeout, LeaveUnreported, EthGo, Complete, chosen, loop
<1>2. failed' = FALSE => failed = FALSE
  <2>1. \E S : Update(S)
    BY DEF EthernetStep, Configure, ForkPing, ForkTimer, Wait, CollectBoth, Collect, Down, NextHost,
         Timeout, LeaveUnreported, EthGo, Complete
  <2>2. QED
    BY <1>1, <2>1 DEF EthShape, Update
<1>3. Regular /\ Table /\ broken = FALSE
  BY <1>1, <1>2 DEF Regular, TableInv, EthShape
<1>4. CASE Configure
  <2>1. proc' = proc /\ ethAt = "start" /\ ethAt' \in {"ping", "start"}
    BY <1>4 DEF Configure, EthIn, EthGo, LeaveUnreported
  <2>2. QED
    BY <1>3, <2>1 DEF Table, Only
<1>5. CASE ForkPing
  <2>1. ethAt = "ping" /\ Only({})
    BY <1>3, <1>5 DEF ForkPing, EthIn, Table
  <2>2. CASE NextHost({"ftError"}) /\ UNCHANGED proc
    BY <2>1, <2>2 DEF NextHost, EthGo, Following, Table, Only
  <2>3. CASE /\ Fork(IF "exec" \in faults THEN "copy" ELSE "ping") /\ pingPid' = NewPid
             /\ EthGo({}, "timer")
    <3>1. PICK kind \in {"copy", "ping"} : Fork(kind)
      BY <2>3
    <3>2. /\ NewPid \in Pids /\ proc'[NewPid] = kind
          /\ \A p \in Pids : p # NewPid => proc'[p] = proc[p]
      BY <1>1, <3>1, NewChild DEF Kinds
    <3>3. PingForked' /\ Only({pingPid})'
      BY <2>1, <2>3, <3>2 DEF PingForked, Only
    <3>4. QED
      BY <2>3, <3>3 DEF Table, EthGo
  <2>4. QED
    BY <1>5, <2>2, <2>3 DEF ForkPing
<1>6. CASE ForkTimer
  <2>1. ethAt = "timer" /\ PingForked /\ Only({pingPid}) /\ pingPid' = pingPid
    BY <1>3, <1>6 DEF ForkTimer, EthIn, Table
  <2>2. CASE Fork("timer") /\ timeoutPid' = NewPid /\ EthGo({}, "wait")
    <3>1. /\ NewPid \in Pids /\ proc[NewPid] = "free" /\ proc'[NewPid] = "timer"
          /\ \A p \in Pids : p # NewPid => proc'[p] = proc[p]
      BY <1>1, <2>2, NewChild DEF Kinds
    <3>2. PingForked' /\ TimerForked' /\ Only({pingPid, timeoutPid})'
      BY <2>1, <2>2, <3>1 DEF PingForked, TimerForked, Only
    <3>3. QED
      BY <2>2, <3>2 DEF Table, EthGo
  <2>3. CASE ForkFails /\ NextHost({"ftError"})
    <3>1. failed'
      BY <2>3, Failing DEF NextHost, EthGo, FailureStatus
    <3>2. "fork" \notin faults
      BY <1>1, <3>1 DEF Regular
    <3>3. Free # {}
      <4>1. PICK p \in Pids : p # pingPid
        OBVIOUS
      <4>2. QED
        BY <2>1, <4>1 DEF Only, Free
    <3>4. QED
      BY <2>3, <3>2, <3>3 DEF ForkFails
  <2>4. QED
    BY <1>6, <2>2, <2>3 DEF ForkTimer
<1>7. CASE Wait
  <2>1. ethAt = "wait" /\ PingForked /\ TimerForked /\ Only({pingPid, timeoutPid})
    BY <1>3, <1>7 DEF Wait, EthIn, Table
  <2>2. PICK p \in Pids \cup {0} :
          /\ Returned(p)
          /\ \/ p = timeoutPid /\ Timeout(p)
             \/ p = pingPid /\ Collected(p, {timeoutPid}) /\ EthGo({"ftPass"}, "collect")
             \/ p \notin {pingPid, timeoutPid}
    BY <1>7 DEF Wait
  <2>3. p \in Pids /\ proc[p] = "dead" /\ p \in {pingPid, timeoutPid}
    BY <1>3, <2>1, <2>2 DEF Returned, Dead, Only
  <2>4. PICK q \in {pingPid, timeoutPid} :
          q # p /\ Collected(p, {q}) /\ ethAt' = "collect"
    BY <2>1, <2>2, <2>3 DEF Timeout, EthGo, TimerForked
  <2>5. q \in Pids /\ proc[q] # "free"
    BY <2>1 DEF PingForked, TimerForked
  <2>6. proc'[q] = "dead" /\ Only({q})'
    BY <2>1, <2>3, <2>4, <2>5 DEF Collected, Living, Only
  <2>7. QED
    BY <2>4, <2>5, <2>6 DEF Table
<1>8. CASE CollectBoth
  BY <1>3, <1>8 DEF CollectBoth, EthIn, Table
<1>9. CASE Collect
  <2>1. PICK q \in Pids : proc[q] = "dead" /\ Only({q})
    BY <1>3, <1>9 DEF Collect, EthIn, Table
  <2>2. PICK p \in Pids \cup {0} : Returned(p) /\ Collected(p, {})
    BY <1>9 DEF Collect, Reap
  <2>3. p = q
    BY <1>3, <2>1, <2>2 DEF Returned, Dead, Only
  <2>4. Only({})'
    BY <2>1, <2>2, <2>3 DEF Collected, Only
  <2>5. ethAt' \in {"ping", "down"}
    BY <1>9 DEF Collect, NextHost, EthGo, Following
  <2>6. QED
    BY <2>4, <2>5 DEF Table
<1>10. CASE Down
  <2>1. proc' = proc /\ ethAt = "down" /\ ethAt' = "start"
    BY <1>10 DEF Down, EthIn
  <2>2. QED
    BY <1>3, <2>1 DEF Table, Only
<1>11. QED
  BY <1>4, <1>5, <1>6, <1>7, <1>8, <1>9, <1>10 DEF EthernetStep

\* A child that ends is dead until it is collected.
LEMMA ChildrenEnd ==
  ASSUME EthShape, Table, ChildStep
  PROVE  Table'
<1>1. PICK p \in Pids : PingEnds(p) \/ TimerEnds(p) \/ CopyActs(p) \/ CopyEnds(p)
  BY DEF ChildStep
<1>2. UNCHANGED <<ethAt, pingPid, timeoutPid>>
  BY <1>1 DEF PingEnds, TimerEnds, CopyActs, CopyEnds, children
<1>3. CASE proc' = proc
  BY <1>2, <1>3 DEF Table, Only, PingForked, TimerForked
<1>4. CASE proc' = [proc EXCEPT ![p] = "dead"] /\ proc[p] \in {"ping", "timer", "copy"}
  <2>1. proc'[p] = "dead" /\ \A q \in Pids : q # p => proc'[q] = proc[q]
    BY <1>4 DEF EthShape
  <2>2. \A P : Only(P) => Only(P)' /\ p \in P
    BY <1>4, <2>1 DEF Only
  <2>3. PingForked => PingForked'
    BY <1>2, <2>1 DEF PingForked
  <2>4. TimerForked => TimerForked'
    BY <1>2, <2>1 DEF TimerForked
  <2>5. \A q \in Pids : proc[q] = "dead" => proc'[q] = "dead"
    BY <1>4, <2>1
  <2>6. QED
    BY <1>2, <1>4, <2>2, <2>3, <2>4, <2>5 DEF Table
<1>5. QED
  BY <1>1, <1>3, <1>4 DEF PingEnds, TimerEnds, CopyActs, CopyEnds, children

\* ethernet has counters of its own: a failure is not forgotten.
LEMMA FailureStays ==
  ASSUME client = "ethernet", client \in Clients, EthShape, [Next]_vars, failed' = FALSE
  PROVE  failed = FALSE
<1>1. CASE (Call \/ Return) /\ UNCHANGED network
  BY <1>1, EthernetAssumption DEF EthShape, Call, Return, counters
<1>2. CASE EthernetStep
  <2>1. \E S : Update(S)
    BY <1>2 DEF EthernetStep, Configure, ForkPing, ForkTimer, Wait, CollectBoth, Collect, Down,
         NextHost, Timeout, LeaveUnreported, EthGo, Complete
  <2>2. QED
    BY <2>1 DEF EthShape, Update
<1>3. CASE ChildStep \/ UNCHANGED <<run, network>>
  BY <1>3 DEF ChildStep, PingEnds, TimerEnds, CopyActs, CopyEnds, run, counters
<1>4. CASE Interrupt
  BY <1>4 DEF Interrupt, counters
<1>5. QED
  BY <1>1, <1>2, <1>3, <1>4, StepsOfEthernet

Chosen == client \in Clients

LEMMA ChosenHolds == Spec => []Chosen
<1>1. Init => Chosen
  BY DEF Init, RunInit, Chosen
<1>2. Chosen /\ [Next]_vars => Chosen'
  BY ClientStays DEF Chosen
<1>3. QED
  BY <1>1, <1>2, PTL DEF Spec

LEMMA FaultsStay ==
  ASSUME client = "ethernet", [Next]_vars
  PROVE  faults' = faults /\ (signals \in Nat /\ signals' = 0 => signals = 0)
<1>1. CASE (Call \/ Return) /\ UNCHANGED network
  BY <1>1 DEF Call, Return, chosen
<1>2. CASE EthernetStep
  BY <1>2 DEF EthernetStep, Configure, ForkPing, ForkTimer, Wait, CollectBoth, Collect, Down,
       NextHost, Timeout, LeaveUnreported, EthGo, Complete, chosen, loop
<1>3. CASE ChildStep \/ UNCHANGED <<run, network>>
  BY <1>3 DEF ChildStep, PingEnds, TimerEnds, CopyActs, CopyEnds, run, chosen, loop
<1>4. CASE Interrupt
  BY <1>4 DEF Interrupt, chosen
<1>5. QED
  BY <1>1, <1>2, <1>3, <1>4, StepsOfEthernet

LEMMA TableInvHolds == Spec => []TableInv
<1>1. Init => TableInv
  <2>1. SUFFICES ASSUME Init PROVE TableInv
    OBVIOUS
  <2>2. proc = [p \in Pids |-> "free"] /\ ethAt = "start"
    BY <2>1 DEF Init, EthInit
  <2>3. EthShape
    <3>1. signals = 0 /\ broken = FALSE /\ passed = FALSE /\ failed = FALSE
      BY <2>1 DEF Init, RunInit, EthInit
    <3>2. host \in Ifs /\ answered \subseteq Ifs
      BY <2>1 DEF Init, EthInit, Ifs
    <3>3. QED
      BY <2>2, <3>1, <3>2 DEF EthShape, Kinds
  <2>4. QED
    BY <2>2, <2>3 DEF TableInv, Table, Only
<1>2. TableInv /\ Chosen /\ [Next]_vars => TableInv'
  <2>1. SUFFICES ASSUME TableInv, Chosen, [Next]_vars PROVE TableInv'
    OBVIOUS
  <2>2. client' = client
    BY <2>1, ClientStays
  <2>3. CASE client # "ethernet"
    BY <2>1, <2>2, <2>3, OthersHaveNone DEF TableInv
  <2>4. CASE client = "ethernet"
    <3>1. EthShape /\ EthShape'
      BY <2>1, <2>4, EthShapeStep DEF TableInv
    <3>2. ASSUME Regular' PROVE Regular /\ Table
      BY <2>1, <2>4, <3>1, <3>2, FailureStays, FaultsStay DEF Regular, TableInv, EthShape, Chosen
    <3>3. CASE (Call \/ Return) /\ UNCHANGED network
      <4>1. at # "client" /\ UNCHANGED <<proc, pingPid, timeoutPid, ethAt>>
        BY <3>3 DEF Call, Return, network, children
      <4>2. ethAt' = "start"
        BY <2>1, <2>4, <4>1 DEF TableInv
      <4>3. Regular' => Table'
        BY <3>2, <4>1 DEF Table, Only, PingForked, TimerForked
      <4>4. QED
        BY <2>2, <2>4, <3>1, <4>2, <4>3 DEF TableInv
    <3>4. CASE EthernetStep
      <4>1. Regular' => Table'
        BY <2>1, <2>4, <3>4, TableSteps
      <4>2. at' # "client" => ethAt' = "start"
        BY <3>4 DEF EthernetStep, Configure, ForkPing, ForkTimer, Wait, CollectBoth, Collect, Down,
             EthIn, NextHost, Timeout, LeaveUnreported, EthGo, loop
      <4>3. QED
        BY <2>2, <2>4, <3>1, <4>1, <4>2 DEF TableInv
    <3>5. CASE ChildStep
      <4>1. Regular' => Table'
        BY <3>1, <3>2, <3>5, ChildrenEnd
      <4>2. UNCHANGED <<at, ethAt>>
        BY <3>5 DEF ChildStep, PingEnds, TimerEnds, CopyActs, CopyEnds, run, loop, children
      <4>3. QED
        BY <2>1, <2>2, <2>4, <3>1, <4>1, <4>2 DEF TableInv
    <3>6. CASE \/ Interrupt /\ (BreakWait \/ UNCHANGED network)
               \/ UNCHANGED <<run, network>>
      <4>1. UNCHANGED <<at, ethAt, proc, pingPid, timeoutPid>>
        BY <3>6 DEF Interrupt, BreakWait, run, loop, network, children
      <4>2. Regular' => Table'
        BY <3>2, <4>1 DEF Table, Only, PingForked, TimerForked
      <4>3. QED
        BY <2>1, <2>2, <2>4, <3>1, <4>1, <4>2 DEF TableInv
    <3>7. QED
      BY <2>1, <2>4, <3>3, <3>4, <3>5, <3>6, StepsOfEthernet
  <2>5. QED
    BY <2>3, <2>4
<1>3. QED
  BY <1>1, <1>2, ChosenHolds, PTL DEF Spec

\* ethernet collects every child that it forks, whichever of them ends first, for every
\* table of processes of two or more, if no fork fails and no signal comes
\* (EthernetTest).
THEOREM NoChildLeftHolds == Spec => []NoChildLeft
<1>1. TableInv => NoChildLeft
  <2>1. SUFFICES ASSUME TableInv, at # "client", signals = 0, "fork" \notin faults PROVE Only({})
    BY DEF NoChildLeft, Only
  <2>2. CASE client # "ethernet"
    BY <2>1, <2>2 DEF TableInv
  <2>3. CASE client = "ethernet"
    BY <2>1, <2>3 DEF TableInv, Regular, Table
  <2>4. QED
    BY <2>2, <2>3
<1>2. QED
  BY <1>1, TableInvHolds, PTL

------------------------------------------------------------------------------
(* The answers of the hosts.                                                *)

\* There is a ping to execute, every host is reachable, and no signal has come.
Reachable == faults \cap {"exec", "noreply", "cable"} = {} /\ signals = 0

\* What the hosts have answered where no failure has been counted.
Replies ==
  /\ (ethAt \in {"ping", "timer", "wait", "collect"} /\ host = 2) => 1 \in answered
  /\ ethAt \in {"timer", "wait"} =>
       (proc[pingPid] # "copy" /\ (proc[pingPid] = "dead" => host \in answered))
  /\ ethAt = "collect" => host \in answered
  /\ ethAt = "down" => answered = Ifs

\* What is printed, and what would be, at the end of a call.
Printed ==
  /\ verdict = "PASSED" => answered = Ifs
  /\ (failed = FALSE /\ passed = TRUE) => answered = Ifs

ReplyInv ==
  (client = "ethernet" /\ Reachable) =>
    /\ (at # "client" \/ ethAt = "start") => Printed
    /\ failed = FALSE => Replies

LEMMA ReplySteps ==
  ASSUME client = "ethernet", TableInv, ReplyInv, EthernetStep, Reachable
  PROVE  /\ ethAt' = "start" => Printed'
         /\ failed' = FALSE => Replies'
<1>1. EthShape /\ at = "client" /\ broken = FALSE
  BY DEF Reachable, TableInv, EthShape, EthernetStep, Configure, ForkPing, ForkTimer, Wait,
       CollectBoth, Collect, Down, EthIn
<1>2. ASSUME failed = FALSE PROVE Table /\ Replies
  BY <1>2 DEF Reachable, TableInv, Regular, ReplyInv
<1>3. ASSUME failed' = FALSE PROVE failed = FALSE
  <2>1. \E S : Update(S)
    BY DEF EthernetStep, Configure, ForkPing, ForkTimer, Wait, CollectBoth, Collect, Down, NextHost,
         Timeout, LeaveUnreported, EthGo, Complete
  <2>2. QED
    BY <1>1, <1>3, <2>1 DEF EthShape, Update
<1>4. CASE Configure
  <2>1. Printed /\ ethAt = "start"
    BY <1>4 DEF Reachable, ReplyInv, Configure, EthIn
  <2>2. CASE ethAt' = "ping" /\ host' = 1
    BY <2>2 DEF Replies
  <2>3. CASE LeaveUnreported({"ftError"}) /\ UNCHANGED answered
    <3>1. failed' /\ verdict' = verdict
      BY <2>3, Failing DEF LeaveUnreported, FailureStatus
    <3>2. QED
      BY <2>1, <2>3, <3>1 DEF Printed
  <2>4. CASE Complete({}) /\ UNCHANGED <<ethAt, answered>>
    <3>1. passed' = passed /\ failed' = failed /\ verdict' = VerdictOf(passed', failed')
      BY <1>1, <2>4 DEF Complete, Update, EthShape
    <3>2. Printed'
      BY <1>1, <2>1, <2>4, <3>1 DEF Printed, VerdictOf, EthShape
    <3>3. QED
      BY <2>1, <2>4, <3>2 DEF Replies
  <2>5. QED
    BY <1>4, <2>2, <2>3, <2>4 DEF Configure, EthGo
<1>5. CASE ForkPing \/ ForkTimer
  <2>1. ethAt \in {"ping", "timer"} /\ ethAt' # "start" /\ answered' = answered
    BY <1>5 DEF ForkPing, ForkTimer, EthIn, EthGo, NextHost, Following
  <2>2. CASE NextHost({"ftError"})
    <3>1. failed'
      BY <2>2, Failing DEF NextHost, EthGo, FailureStatus
    <3>2. QED
      BY <2>1, <3>1
  <2>3. CASE ~NextHost({"ftError"})
    <3>1. host' = host /\ Fork(IF ForkPing THEN "ping" ELSE "timer")
      BY <1>5, <2>3 DEF ForkPing, ForkTimer, EthIn, Reachable
    <3>2. SUFFICES ASSUME failed' = FALSE PROVE Replies'
      BY <2>1
    <3>3. Table /\ Replies
      BY <1>2, <1>3, <3>2
    <3>4. CASE ForkPing
      <4>1. ethAt' = "timer" /\ pingPid' = NewPid /\ Fork("ping") /\ ethAt = "ping"
        BY <2>3, <3>1, <3>4 DEF ForkPing, EthGo, EthIn
      <4>2. proc'[pingPid'] = "ping"
        BY <1>1, <4>1, NewChild DEF Kinds
      <4>3. QED
        BY <2>1, <3>1, <3>3, <4>1, <4>2 DEF Replies
    <3>5. CASE ForkTimer
      <4>1. ethAt' = "wait" /\ pingPid' = pingPid /\ Fork("timer") /\ ethAt = "timer"
        BY <2>3, <3>5 DEF ForkTimer, EthGo, EthIn
      <4>2. proc'[pingPid] = proc[pingPid]
        BY <1>1, <3>3, <4>1, NewChild DEF Table, PingForked, Kinds
      <4>3. QED
        BY <2>1, <3>1, <3>3, <4>1, <4>2 DEF Replies
    <3>6. QED
      BY <1>5, <3>4, <3>5
  <2>4. QED
    BY <2>2, <2>3
<1>6. CASE Wait
  <2>1. ethAt = "wait" /\ ethAt' \in {"collect", "collectBoth"} /\ UNCHANGED <<host, answered>>
    BY <1>6 DEF Wait, EthIn, EthGo, Timeout
  <2>2. SUFFICES ASSUME failed' = FALSE PROVE Replies'
    BY <2>1
  <2>3. Table /\ Replies
    BY <1>2, <1>3, <2>2
  <2>4. PICK p \in Pids \cup {0} :
          /\ Returned(p)
          /\ \/ p = timeoutPid /\ Timeout(p)
             \/ p = pingPid /\ EthGo({"ftPass"}, "collect")
             \/ EthGo({"ftError"}, "collectBoth")
    BY <1>6 DEF Wait
  <2>5. ~Timeout(p) /\ ~EthGo({"ftError"}, "collectBoth")
    BY <2>2, Failing DEF Timeout, EthGo, FailureStatus
  <2>6. proc[pingPid] = "dead" /\ ethAt' = "collect"
    BY <1>1, <2>4, <2>5 DEF Returned, Dead, EthGo
  <2>7. QED
    BY <2>1, <2>3, <2>6 DEF Replies
<1>7. CASE CollectBoth
  BY <1>2, <1>3, <1>7 DEF CollectBoth, EthIn, EthGo, Table
<1>8. CASE Collect
  <2>1. ethAt = "collect" /\ ethAt' = Following /\ host' = 2 /\ answered' = answered
    BY <1>8 DEF Collect, EthIn, NextHost, EthGo
  <2>2. SUFFICES ASSUME failed' = FALSE PROVE Replies'
    BY <2>1 DEF Following
  <2>3. host \in answered /\ (host = 2 => 1 \in answered)
    BY <1>2, <1>3, <2>1, <2>2 DEF Replies
  <2>4. CASE host = 1
    BY <2>1, <2>3, <2>4 DEF Replies, Following
  <2>5. CASE host # 1
    <3>1. host = 2 /\ Ifs = {1, 2}
      BY <1>1, <2>5 DEF EthShape, Ifs
    <3>2. answered = Ifs
      BY <1>1, <2>3, <3>1 DEF EthShape
    <3>3. QED
      BY <2>1, <2>5, <3>2 DEF Replies, Following
  <2>6. QED
    BY <2>4, <2>5
<1>9. CASE Down
  <2>1. ethAt = "down" /\ ethAt' = "start" /\ answered' = answered /\ Complete({})
    BY <1>9 DEF Down, EthIn
  <2>2. failed = FALSE => answered = Ifs
    BY <1>2, <2>1 DEF Replies
  <2>3. failed' = failed /\ verdict' = VerdictOf(passed', failed')
    BY <1>1, <2>1 DEF Complete, Update, EthShape
  <2>4. Printed'
    BY <1>1, <2>1, <2>2, <2>3 DEF Printed, VerdictOf, EthShape
  <2>5. QED
    BY <2>1, <2>4 DEF Replies
<1>10. QED
  BY <1>4, <1>5, <1>6, <1>7, <1>8, <1>9 DEF EthernetStep

LEMMA ReplyEnds ==
  ASSUME client = "ethernet", TableInv, ReplyInv, [Next]_vars, ChildStep, Reachable
  PROVE  ReplyInv'
<1>1. UNCHANGED <<client, at, passed, failed, verdict, ethAt, host, pingPid>>
  BY DEF ChildStep, PingEnds, TimerEnds, CopyActs, CopyEnds, run, chosen, loop, counters, children
<1>2. EthShape /\ EthShape'
  BY EthShapeStep DEF TableInv
<1>3. PICK p \in Pids : PingEnds(p) \/ TimerEnds(p) \/ CopyActs(p) \/ CopyEnds(p)
  BY DEF ChildStep
<1>4. answered \subseteq answered'
  BY <1>3 DEF PingEnds, TimerEnds, CopyActs, CopyEnds, children
<1>5. Printed => Printed'
  BY <1>1, <1>2, <1>4 DEF Printed, EthShape
<1>6. ASSUME failed = FALSE PROVE Replies'
  <2>1. Table /\ Replies
    BY <1>6 DEF Reachable, TableInv, Regular, ReplyInv
  <2>2. ethAt \in {"timer", "wait"} =>
          (proc'[pingPid] # "copy" /\ (proc'[pingPid] = "dead" => host \in answered'))
    <3>1. SUFFICES ASSUME ethAt \in {"timer", "wait"}
                   PROVE  proc'[pingPid] # "copy" /\ (proc'[pingPid] = "dead" => host \in answered')
      OBVIOUS
    <3>2. pingPid \in Pids /\ proc[pingPid] \in {"ping", "dead"}
      BY <2>1, <3>1 DEF Table, PingForked, Replies
    <3>3. CASE p # pingPid \/ proc' = proc
      <4>1. proc'[pingPid] = proc[pingPid]
        <5>1. proc' = proc \/ proc' = [proc EXCEPT ![p] = "dead"]
          BY <1>3 DEF PingEnds, TimerEnds, CopyActs, CopyEnds, children
        <5>2. QED
          BY <1>2, <3>2, <3>3, <5>1 DEF EthShape
      <4>2. QED
        BY <1>4, <2>1, <3>1, <4>1 DEF Replies
    <3>4. CASE p = pingPid /\ proc' # proc
      <4>1. PingEnds(p) /\ proc[p] = "ping"
        BY <1>3, <3>2, <3>4 DEF PingEnds, TimerEnds, CopyActs, CopyEnds, children
      <4>2. answered' = answered \cup {host} /\ proc' = [proc EXCEPT ![p] = "dead"]
        BY <3>4, <4>1 DEF PingEnds, Reachable
      <4>3. QED
        BY <1>2, <3>2, <3>4, <4>2 DEF EthShape
    <3>5. QED
      BY <3>3, <3>4
  <2>3. ethAt = "down" => answered' = Ifs
    BY <1>1, <1>2, <1>4, <2>1 DEF Replies, EthShape
  <2>4. QED
    BY <1>1, <1>4, <2>1, <2>2, <2>3 DEF Replies
<1>7. QED
  BY <1>1, <1>5, <1>6 DEF ReplyInv

LEMMA ReplyInvHolds == Spec => []ReplyInv
<1>1. Init => ReplyInv
  <2>1. SUFFICES ASSUME Init PROVE ReplyInv
    OBVIOUS
  <2>2. verdict = "none" /\ passed = FALSE /\ ethAt = "start"
    BY <2>1 DEF Init, RunInit, EthInit
  <2>3. QED
    BY <2>2 DEF ReplyInv, Printed, Replies
<1>2. ReplyInv /\ TableInv /\ Chosen /\ [Next]_vars => ReplyInv'
  <2>1. SUFFICES ASSUME ReplyInv, TableInv, Chosen, [Next]_vars, client = "ethernet", Reachable'
                 PROVE  ReplyInv'
    <3>1. [Next]_vars => client' = client
      BY ClientStays
    <3>2. QED
      BY <3>1 DEF ReplyInv
  <2>2. client' = client /\ Reachable /\ EthShape
    BY <2>1, ClientStays, FaultsStay DEF Reachable, TableInv, EthShape
  <2>3. CASE (Call \/ Return) /\ UNCHANGED network
    <3>1. at # "client" /\ UNCHANGED <<proc, pingPid, ethAt, host, answered, verdict>>
      BY <2>3 DEF Call, Return, network, children
    <3>2. failed' = failed /\ passed' = passed
      BY <2>1, <2>2, <2>3, EthernetAssumption DEF Call, Return, counters, Chosen, EthShape
    <3>3. Printed' /\ Replies' = Replies
      BY <2>1, <2>2, <3>1, <3>2 DEF ReplyInv, Printed, Replies
    <3>4. QED
      BY <2>1, <2>2, <3>2, <3>3 DEF ReplyInv
  <2>4. CASE EthernetStep
    <3>1. at' # "client" => ethAt' = "start"
      BY <2>4 DEF EthernetStep, Configure, ForkPing, ForkTimer, Wait, CollectBoth, Collect, Down,
           EthIn, NextHost, Timeout, LeaveUnreported, EthGo, loop
    <3>2. QED
      BY <2>1, <2>2, <2>4, <3>1, ReplySteps DEF ReplyInv
  <2>5. CASE ChildStep
    BY <2>1, <2>2, <2>5, ReplyEnds
  <2>6. CASE Interrupt
    BY <2>1, <2>2, <2>6 DEF Interrupt, Reachable, EthShape
  <2>7. CASE UNCHANGED <<run, network>>
    <3>1. Printed' = Printed /\ Replies' = Replies /\ UNCHANGED <<at, ethAt, failed>>
      BY <2>7 DEF Printed, Replies, run, loop, counters, network, children
    <3>2. QED
      BY <2>1, <2>2, <3>1 DEF ReplyInv
  <2>8. QED
    BY <2>1, <2>3, <2>4, <2>5, <2>6, <2>7, StepsOfEthernet
<1>3. QED
  BY <1>1, <1>2, TableInvHolds, ChosenHolds, PTL DEF Spec

\* ethernet says PASSED only when both hosts have answered in its last call, whatever
\* forks fail, hosts are late and iterations there were before (EthernetTest).
THEOREM PassedMeansRepliedHolds == Spec => []PassedMeansReplied
<1>1. ReplyInv => PassedMeansReplied
  BY DEF ReplyInv, PassedMeansReplied, Reachable, Printed
<1>2. QED
  BY <1>1, ReplyInvHolds, PTL

------------------------------------------------------------------------------
(* The pids.                                                                *)

Taken == {p \in Pids : proc[p] # "free"}

\* How many children the waits to come will collect, and one fewer for a broken wait.
Awaited ==
  IF ethAt \in {"wait", "collectBoth"} THEN 2 ELSE IF ethAt \in {"timer", "collect"} THEN 1 ELSE 0
Lost == IF broken THEN 1 ELSE 0

\* A child that stays uncollected has been lost to a signal.
PidInv ==
  (client = "ethernet" /\ "fork" \notin faults) =>
    /\ signals <= MaxSignals
    /\ Cardinality(Taken) + Lost <= Awaited + signals

\* The pids suffice for two children, and one more for each signal that is sent.
PidsSuffice == IsFiniteSet(Pids) /\ Cardinality(Pids) >= MaxSignals + 2

LEMMA TakenIsFinite ==
  ASSUME PidsSuffice
  PROVE  IsFiniteSet(Taken) /\ Cardinality(Taken) \in Nat
<1>1. Taken \subseteq Pids /\ IsFiniteSet(Pids)
  BY DEF Taken, PidsSuffice
<1>2. IsFiniteSet(Taken)
  BY <1>1, FS_Subset
<1>3. QED
  BY <1>2, FS_CardinalityType

LEMMA ForkTakes ==
  ASSUME PidsSuffice, EthShape, NEW kind \in Kinds \ {"free"}, Fork(kind)
  PROVE  Cardinality(Taken') = Cardinality(Taken) + 1
<1>1. /\ NewPid \in Pids /\ proc[NewPid] = "free" /\ proc'[NewPid] = kind
      /\ \A p \in Pids : p # NewPid => proc'[p] = proc[p]
  BY NewChild
<1>2. Taken' = Taken \cup {NewPid} /\ NewPid \notin Taken
  BY <1>1 DEF Taken
<1>3. QED
  BY <1>2, TakenIsFinite, FS_AddElement

\* A wait that returns a child frees its pid, and one that is broken is over.
LEMMA WaitFrees ==
  ASSUME PidsSuffice, EthShape, 0 \notin Pids, NEW p \in Pids \cup {0}, NEW K, Returned(p), Collected(p, K)
  PROVE  Cardinality(Taken') + Lost' = Cardinality(Taken) + Lost - 1
<1>1. IsFiniteSet(Taken) /\ Cardinality(Taken) \in Nat
  BY TakenIsFinite
<1>2. CASE ~broken /\ p \in Dead /\ UNCHANGED broken
  <2>1. Taken' = Taken \ {p} /\ p \in Taken
    BY <1>2 DEF Taken, Collected, Living, Dead
  <2>2. Cardinality(Taken') = Cardinality(Taken) - 1
    BY <1>1, <2>1, FS_RemoveElement
  <2>3. QED
    BY <1>1, <1>2, <2>2 DEF Lost
<1>3. CASE broken /\ p = 0 /\ broken' = FALSE
  <2>1. Taken' = Taken
    BY <1>3 DEF Taken, Collected, Living
  <2>2. QED
    BY <1>1, <1>3, <2>1 DEF Lost
<1>4. QED
  BY <1>2, <1>3 DEF Returned

\* There is a pid left for the timer.
LEMMA PidLeft ==
  ASSUME PidsSuffice, EthShape, signals <= MaxSignals, ethAt = "timer",
         Cardinality(Taken) + Lost <= Awaited + signals
  PROVE  Free # {}
<1>1. Cardinality(Taken) \in Nat
  BY TakenIsFinite
<1>2. Cardinality(Taken) < Cardinality(Pids)
  <2>1. Awaited = 1 /\ Lost \in {0, 1} /\ signals \in Nat
    BY DEF Awaited, Lost, EthShape
  <2>2. Cardinality(Pids) \in Nat /\ MaxSignals \in Nat
    BY RunAssumption, FS_CardinalityType DEF PidsSuffice
  <2>3. QED
    BY <1>1, <2>1, <2>2 DEF PidsSuffice
<1>3. Taken # Pids
  <2>1. SUFFICES ASSUME Taken = Pids PROVE FALSE
    OBVIOUS
  <2>2. Cardinality(Taken) < Cardinality(Taken)
    BY <1>2, <2>1
  <2>3. QED
    BY <1>1, <2>2
<1>4. QED
  BY <1>3 DEF Taken, Free

LEMMA PidStep ==
  ASSUME PidsSuffice, client = "ethernet", EthShape, EthernetStep, "fork" \notin faults,
         signals <= MaxSignals, Cardinality(Taken) + Lost <= Awaited + signals
  PROVE  Cardinality(Taken') + Lost' <= Awaited' + signals'
<1>1. signals' = signals /\ signals \in Nat /\ Cardinality(Taken) \in Nat /\ 0 \notin Pids
  BY TakenIsFinite, EthernetAssumption
     DEF EthShape, EthernetStep, Configure, ForkPing, ForkTimer, Wait, CollectBoth, Collect, Down,
       NextHost, Timeout, LeaveUnreported, EthGo, Complete, loop
<1>2. Lost \in {0, 1}
  BY DEF Lost
<1>3. CASE Configure \/ Down
  <2>1. proc' = proc /\ broken' = broken
    BY <1>3 DEF Configure, Down
  <2>2. ethAt \in {"start", "down"} /\ ethAt' \in {"start", "ping"}
    BY <1>3 DEF Configure, Down, EthIn, EthGo, LeaveUnreported
  <2>3. Taken' = Taken /\ Lost' = Lost /\ Awaited' = 0 /\ Awaited = 0
    BY <2>1, <2>2 DEF Taken, Lost, Awaited
  <2>4. QED
    BY <1>1, <1>2, <2>3
<1>4. CASE ForkPing
  <2>1. broken' = broken /\ ethAt = "ping"
    BY <1>4 DEF ForkPing, EthIn
  <2>2. CASE Fork(IF "exec" \in faults THEN "copy" ELSE "ping") /\ ethAt' = "timer"
    <3>1. PICK kind \in {"copy", "ping"} : Fork(kind)
      BY <2>2
    <3>2. Cardinality(Taken') = Cardinality(Taken) + 1
      BY <3>1, ForkTakes DEF Kinds
    <3>3. Lost' = Lost /\ Awaited = 0 /\ Awaited' = 1
      BY <2>1, <2>2 DEF Lost, Awaited
    <3>4. QED
      BY <1>1, <1>2, <3>2, <3>3
  <2>3. CASE ethAt' = Following /\ UNCHANGED proc
    <3>1. Taken' = Taken /\ Lost' = Lost /\ Awaited' = 0 /\ Awaited = 0
      BY <2>1, <2>3 DEF Taken, Lost, Awaited, Following
    <3>2. QED
      BY <1>1, <1>2, <3>1
  <2>4. QED
    BY <1>4, <2>2, <2>3 DEF ForkPing, EthGo, NextHost
<1>5. CASE ForkTimer
  <2>1. broken' = broken /\ ethAt = "timer" /\ Free # {}
    BY <1>5, PidLeft DEF ForkTimer, EthIn
  <2>2. Fork("timer") /\ ethAt' = "wait"
    BY <1>5, <2>1 DEF ForkTimer, EthGo, ForkFails
  <2>3. Cardinality(Taken') = Cardinality(Taken) + 1
    BY <2>2, ForkTakes DEF Kinds
  <2>4. Lost' = Lost /\ Awaited = 1 /\ Awaited' = 2
    BY <2>1, <2>2 DEF Lost, Awaited
  <2>5. QED
    BY <1>1, <1>2, <2>3, <2>4
<1>6. CASE Wait \/ CollectBoth \/ Collect
  <2>1. \E p \in Pids \cup {0} : \E K : Returned(p) /\ Collected(p, K)
    BY <1>6 DEF Wait, CollectBoth, Collect, Reap, Timeout
  <2>2. Cardinality(Taken') + Lost' = Cardinality(Taken) + Lost - 1
    BY <1>1, <2>1, WaitFrees
  <2>3. /\ Wait => ethAt = "wait" /\ ethAt' \in {"collect", "collectBoth"}
        /\ CollectBoth => ethAt = "collectBoth" /\ ethAt' = "collect"
        /\ Collect => ethAt = "collect" /\ ethAt' \in {"ping", "down"}
    BY DEF Wait, CollectBoth, Collect, Timeout, NextHost, Following, EthIn, EthGo
  <2>4. Awaited \in Nat /\ Awaited' \in Nat /\ Awaited' >= Awaited - 1
    BY <1>6, <2>3 DEF Awaited
  <2>5. QED
    BY <1>1, <1>2, <2>2, <2>4
<1>7. QED
  BY <1>3, <1>4, <1>5, <1>6 DEF EthernetStep

LEMMA PidInvHolds ==
  ASSUME PidsSuffice
  PROVE  Spec => []PidInv
<1> USE RunAssumption
<1>1. Init => PidInv
  <2>1. SUFFICES ASSUME Init PROVE PidInv
    OBVIOUS
  <2>2. Taken = {} /\ Lost = 0 /\ Awaited = 0 /\ signals = 0
    BY <2>1 DEF Init, RunInit, EthInit, Taken, Lost, Awaited
  <2>3. Cardinality(Taken) = 0
    BY <2>2, FS_EmptySet
  <2>4. QED
    BY <2>2, <2>3 DEF PidInv
<1>2. PidInv /\ TableInv /\ [Next]_vars => PidInv'
  <2>1. SUFFICES ASSUME PidInv, TableInv, [Next]_vars, client = "ethernet", "fork" \notin faults'
                 PROVE  PidInv'
    <3>1. [Next]_vars => client' = client
      BY ClientStays
    <3>2. QED
      BY <3>1 DEF PidInv
  <2>2. client' = client /\ faults' = faults /\ EthShape /\ EthShape'
    BY <2>1, ClientStays, FaultsStay, EthShapeStep DEF TableInv
  <2>3. /\ signals <= MaxSignals /\ signals \in Nat
        /\ Cardinality(Taken) + Lost <= Awaited + signals
    BY <2>1, <2>2 DEF PidInv, EthShape
  <2>4. Cardinality(Taken) \in Nat /\ Lost \in {0, 1} /\ Awaited \in Nat
    BY TakenIsFinite DEF Lost, Awaited
  <2>5. CASE EthernetStep
    <3>1. signals' = signals
      BY <2>5 DEF EthernetStep, Configure, ForkPing, ForkTimer, Wait, CollectBoth, Collect, Down,
           NextHost, Timeout, LeaveUnreported, EthGo, Complete, loop
    <3>2. QED
      BY <2>1, <2>2, <2>3, <2>5, <3>1, PidStep DEF PidInv
  <2>6. CASE ChildStep
    <3>1. UNCHANGED <<signals, ethAt, broken>>
      BY <2>6 DEF ChildStep, PingEnds, TimerEnds, CopyActs, CopyEnds, run, loop, children
    <3>2. proc' = proc \/ \E p \in Pids : proc[p] # "free" /\ proc' = [proc EXCEPT ![p] = "dead"]
      BY <2>6 DEF ChildStep, PingEnds, TimerEnds, CopyActs, CopyEnds, children
    <3>3. Taken' = Taken
      BY <2>2, <3>2 DEF Taken, EthShape
    <3>4. Lost' = Lost /\ Awaited' = Awaited
      BY <3>1 DEF Lost, Awaited
    <3>5. QED
      BY <2>2, <2>3, <3>1, <3>3, <3>4 DEF PidInv
  <2>7. CASE ((Call \/ Return) /\ UNCHANGED network) \/ UNCHANGED <<run, network>>
    <3>1. UNCHANGED <<signals, ethAt, broken, proc>>
      BY <2>7 DEF Call, Return, run, loop, network, children
    <3>2. Taken' = Taken /\ Lost' = Lost /\ Awaited' = Awaited
      BY <3>1 DEF Taken, Lost, Awaited
    <3>3. QED
      BY <2>2, <2>3, <3>1, <3>2 DEF PidInv
  <2>8. CASE Interrupt /\ (BreakWait \/ UNCHANGED network)
    <3>1. signals' = signals + 1 /\ signals < MaxSignals /\ UNCHANGED <<ethAt, proc>>
      BY <2>8 DEF Interrupt, BreakWait, network, children
    <3>2. Taken' = Taken /\ Awaited' = Awaited
      BY <3>1 DEF Taken, Awaited
    <3>3. Lost' \in {0, 1} /\ Lost' <= Lost + 1
      BY <2>4 DEF Lost
    <3>4. QED
      BY <2>2, <2>3, <2>4, <3>1, <3>2, <3>3 DEF PidInv
  <2>9. QED
    BY <2>1, <2>5, <2>6, <2>7, <2>8, StepsOfEthernet
<1>3. QED
  BY <1>1, <1>2, TableInvHolds, PTL DEF Spec

------------------------------------------------------------------------------
(* The interfaces.                                                          *)

\* A copy of the program that goes on is the ping that the test is about to wait for.
OnlyPingCopies ==
  \A p \in Pids : proc[p] = "copy" =>
    p = pingPid /\ ethAt \in {"timer", "wait"} /\ "exec" \in faults

\* What was not up and the test has raised is known by its name; where no cable can be
\* out nothing else is, and what was up has stayed up.
Named ==
  /\ base \subseteq Ifs /\ slots \in Seq(Ifs)
  /\ Ifs \ baseFound \subseteq Raised \/ (ethAt = "start" /\ Raised = {})
  /\ "cable" \notin faults => baseFound \subseteq base /\ Raised \cap baseFound = {}
AsFound == alias = {} /\ base \subseteq baseFound /\ ("cable" \notin faults => base = baseFound)

NetInv ==
  "ioctl" \notin faults =>
    /\ client # "ethernet" => AsFound
    /\ client = "ethernet" =>
         /\ faults \in FaultSets /\ OnlyPingCopies /\ Named
         /\ (at # "client" \/ ethAt = "start") => AsFound

\* A ping that cannot be executed is not lost to a fork that fails.
CopiesAwaited == \A F \in FaultSets : ~({"exec", "fork"} \subseteq F)

LEMMA AppendAdds ==
  ASSUME NEW list \in Seq(Ifs), NEW i \in Ifs
  PROVE  Append(list, i) \in Seq(Ifs) /\ ToSet(Append(list, i)) = ToSet(list) \cup {i}
<1>1. /\ Append(list, i) \in Seq(Ifs) /\ DOMAIN Append(list, i) = 1..Len(list) + 1
      /\ \A j \in 1..Len(list) : Append(list, i)[j] = list[j]
      /\ Append(list, i)[Len(list) + 1] = i /\ DOMAIN list = 1..Len(list) /\ Len(list) \in Nat
  OBVIOUS
<1>2. 1..Len(list) + 1 = (1..Len(list)) \cup {Len(list) + 1}
  BY <1>1
<1>3. QED
  BY <1>1, <1>2 DEF ToSet

\* Two names suffice for what the first call raises, and none is lost in a later one.
LEMMA NamesSuffice ==
  ASSUME NEW list \in Seq(Ifs), NEW up \in SUBSET Ifs,
         NEW result, result = Recorded(Recorded(list, 1, up), 2, up)
  PROVE  /\ result \in Seq(Ifs)
         /\ ToSet(list) \subseteq ToSet(result) /\ ToSet(result) \subseteq ToSet(list) \cup up
         /\ ToSet(list) = {} => ToSet(result) = up
<1>1. 1 \in Ifs /\ 2 \in Ifs /\ (\A i \in Ifs : i = 1 \/ i = 2)
  BY DEF Ifs
<1>2. PICK first : first = Recorded(list, 1, up)
  OBVIOUS
<1>3. first = list \/ (1 \in up /\ first = Append(list, 1))
  BY <1>2 DEF Recorded
<1>4. first \in Seq(Ifs) /\ (first = list \/ (1 \in up /\ ToSet(first) = ToSet(list) \cup {1}))
  BY <1>1, <1>3, AppendAdds
<1>5. result = first \/ (2 \in up /\ result = Append(first, 2))
  BY <1>2 DEF Recorded
<1>6. result \in Seq(Ifs) /\ (result = first \/ (2 \in up /\ ToSet(result) = ToSet(first) \cup {2}))
  BY <1>1, <1>4, <1>5, AppendAdds
<1>7. ToSet(list) \subseteq ToSet(result) /\ ToSet(result) \subseteq ToSet(list) \cup up
  BY <1>4, <1>6
<1>8. ASSUME ToSet(list) = {} PROVE ToSet(result) = up
  <2>1. list = <<>> /\ Len(list) = 0
    <3>1. DOMAIN list = {}
      BY <1>8 DEF ToSet
    <3>2. DOMAIN list = 1..Len(list) /\ Len(list) \in Nat
      OBVIOUS
    <3>3. Len(list) = 0
      <4>1. 1 \notin 1..Len(list)
        BY <3>1, <3>2
      <4>2. QED
        BY <3>2, <4>1
    <3>4. QED
      BY <3>3
  <2>2. 1 \in up => first = Append(list, 1)
    BY <1>2, <2>1 DEF Recorded, MaxSlots
  <2>3. Len(first) < 2
    BY <1>3, <2>1
  <2>4. 2 \in up => result = Append(first, 2)
    BY <1>2, <2>3 DEF Recorded, MaxSlots
  <2>5. 1 \in up => ToSet(first) = {1}
    BY <1>1, <1>8, <2>2, AppendAdds
  <2>6. 1 \notin up => ToSet(first) = {}
    BY <1>3, <1>8
  <2>7. 2 \in up => ToSet(result) = ToSet(first) \cup {2}
    BY <1>1, <1>4, <2>4, AppendAdds
  <2>8. 2 \notin up => result = first
    BY <1>5
  <2>9. QED
    BY <1>1, <1>6, <2>5, <2>6, <2>7, <2>8
<1>9. QED
  BY <1>6, <1>7, <1>8

\* Only a copy of the program touches the interfaces beside the test.
LEMMA CopyStep ==
  ASSUME client = "ethernet", EthShape, OnlyPingCopies, Named, ChildStep,
         at # "client" => ethAt = "start"
  PROVE  /\ OnlyPingCopies' /\ Named'
         /\ (at' # "client" \/ ethAt' = "start") => UNCHANGED <<alias, base, baseFound>>
<1>1. UNCHANGED <<at, faults, ethAt, pingPid, slots, baseFound>>
  BY DEF ChildStep, PingEnds, TimerEnds, CopyActs, CopyEnds, run, chosen, loop, children, interfaces
<1>2. PICK p \in Pids : PingEnds(p) \/ TimerEnds(p) \/ CopyActs(p) \/ CopyEnds(p)
  BY DEF ChildStep
<1>3. proc' = proc \/ proc' = [proc EXCEPT ![p] = "dead"]
  BY <1>2 DEF PingEnds, TimerEnds, CopyActs, CopyEnds, children
<1>4. \A q \in Pids : proc'[q] = "copy" => proc[q] = "copy"
  BY <1>3 DEF EthShape
<1>5. OnlyPingCopies'
  BY <1>1, <1>4 DEF OnlyPingCopies
<1>6. CASE UNCHANGED <<alias, base>>
  BY <1>1, <1>5, <1>6 DEF Named, Raised
<1>7. CASE CopyActs(p)
  <2>1. at = "client" /\ ethAt # "start"
    BY <1>7 DEF CopyActs, OnlyPingCopies
  <2>2. base' \subseteq Ifs /\ ("cable" \notin faults => baseFound \subseteq base')
    BY <1>7 DEF CopyActs
  <2>3. Named'
    BY <1>1, <2>2 DEF Named, Raised
  <2>4. QED
    BY <1>1, <1>5, <2>1, <2>3
<1>8. QED
  BY <1>2, <1>6, <1>7 DEF PingEnds, TimerEnds, CopyEnds, interfaces

\* A copy of the program is waited for and killed: it does not outlive its call of ping.
LEMMA CopiesEnd ==
  ASSUME PidsSuffice, CopiesAwaited, faults \in FaultSets, client = "ethernet", EthShape, PidInv,
         OnlyPingCopies, EthernetStep
  PROVE  OnlyPingCopies'
<1>1. faults' = faults
  BY DEF EthernetStep, Configure, ForkPing, ForkTimer, Wait, CollectBoth, Collect, Down,
       NextHost, Timeout, LeaveUnreported, EthGo, Complete, chosen
<1>2. CASE ethAt \notin {"timer", "wait"} /\ ~ForkPing
  <2>1. \A p \in Pids : proc[p] # "copy"
    BY <1>2 DEF OnlyPingCopies
  <2>2. proc' = proc \/ \E p, K : Collected(p, K)
    BY <1>2 DEF EthernetStep, Configure, ForkTimer, Wait, CollectBoth, Collect, Down, EthIn, Reap
  <2>3. \A p \in Pids : proc'[p] # "copy"
    BY <2>1, <2>2 DEF Collected
  <2>4. QED
    BY <2>3 DEF OnlyPingCopies
<1>3. CASE ForkPing
  <2>1. \A p \in Pids : proc[p] # "copy"
    BY <1>3 DEF ForkPing, EthIn, OnlyPingCopies
  <2>2. CASE UNCHANGED proc
    BY <2>1, <2>2 DEF OnlyPingCopies
  <2>3. CASE Fork(IF "exec" \in faults THEN "copy" ELSE "ping") /\ pingPid' = NewPid /\ ethAt' = "timer"
    <3>1. PICK kind \in {"copy", "ping"} : Fork(kind) /\ (kind = "copy" => "exec" \in faults)
      BY <2>3
    <3>2. /\ NewPid \in Pids /\ proc'[NewPid] = kind
          /\ \A p \in Pids : p # NewPid => proc'[p] = proc[p]
      BY <3>1, NewChild DEF Kinds
    <3>3. QED
      BY <1>1, <2>1, <2>3, <3>1, <3>2 DEF OnlyPingCopies
  <2>4. QED
    BY <1>3, <2>2, <2>3 DEF ForkPing, EthGo
<1>4. CASE ForkTimer
  <2>1. ethAt = "timer" /\ pingPid' = pingPid
    BY <1>4 DEF ForkTimer, EthIn
  <2>2. CASE Fork("timer") /\ ethAt' = "wait"
    <3>1. \A p \in Pids : proc'[p] = "copy" => proc[p] = "copy"
      BY <2>2, NewChild DEF Kinds
    <3>2. QED
      BY <1>1, <2>1, <2>2, <3>1 DEF OnlyPingCopies
  <2>3. CASE ForkFails /\ UNCHANGED proc
    <3>1. "exec" \notin faults
      <4>1. CASE "fork" \in faults
        BY <4>1 DEF CopiesAwaited
      <4>2. CASE "fork" \notin faults
        BY <2>1, <2>3, <4>2, PidLeft DEF PidInv, ForkFails
      <4>3. QED
        BY <4>1, <4>2
    <3>2. QED
      BY <2>3, <3>1 DEF OnlyPingCopies
  <2>4. QED
    BY <1>4, <2>2, <2>3 DEF ForkTimer, EthGo
<1>5. CASE Wait
  <2>1. PICK p, K : Collected(p, K) /\ (p = pingPid \/ pingPid \in K)
    BY <1>5 DEF Wait, Timeout
  <2>2. \A q \in Pids : proc[q] = "copy" => q = pingPid /\ Living(q)
    BY DEF OnlyPingCopies, Living
  <2>3. \A q \in Pids : proc'[q] # "copy"
    BY <2>1, <2>2 DEF Collected
  <2>4. QED
    BY <2>3 DEF OnlyPingCopies
<1>6. CASE ethAt \in {"timer", "wait"} /\ ~ForkTimer /\ ~Wait
  BY <1>6 DEF EthernetStep, Configure, ForkPing, CollectBoth, Collect, Down, EthIn
<1>7. QED
  BY <1>2, <1>3, <1>4, <1>5, <1>6

\* The test puts back what it changes.
LEMMA InterfacesStep ==
  ASSUME client = "ethernet", "ioctl" \notin faults, EthShape, EthernetStep, Named,
         at # "client" \/ ethAt = "start" => AsFound
  PROVE  Named' /\ ((at' # "client" \/ ethAt' = "start") => AsFound')
<1>1. at = "client" /\ UNCHANGED <<faults, baseFound>>
  BY DEF EthernetStep, Configure, ForkPing, ForkTimer, Wait, CollectBoth, Collect, Down, EthIn,
       NextHost, Timeout, LeaveUnreported, EthGo, Complete, chosen, interfaces
<1>2. CASE Configure
  <2>1. ethAt = "start" /\ AsFound
    BY <1>2 DEF Configure, EthIn
  <2>2. CASE /\ \E up \in CanRaise :
                  /\ base' = base \cup up
                  /\ slots' = Recorded(Recorded(slots, 1, up), 2, up)
             /\ EthGo({}, "ping")
    <3>1. PICK up \in CanRaise : /\ base' = base \cup up
                                 /\ slots' = Recorded(Recorded(slots, 1, up), 2, up)
      BY <2>2
    <3>2. /\ up \subseteq Ifs /\ Ifs \ baseFound \subseteq up
          /\ "cable" \notin faults => up = Ifs \ baseFound
      BY <2>1, <3>1 DEF CanRaise, NotRunning, AsFound
    <3>3. /\ slots' \in Seq(Ifs)
          /\ ToSet(slots) \subseteq ToSet(slots') /\ ToSet(slots') \subseteq ToSet(slots) \cup up
          /\ ToSet(slots) = {} => ToSet(slots') = up
      BY <3>1, <3>2, NamesSuffice DEF Named
    <3>4. /\ slots' \in Seq(Ifs) /\ Raised \subseteq Raised' /\ Raised' \subseteq Raised \cup up
          /\ Raised = {} => Raised' = up
      BY <3>3 DEF Raised, ToSet
    <3>5. Ifs \ baseFound \subseteq Raised'
      BY <3>2, <3>4 DEF Named
    <3>6. at' = "client" /\ ethAt' = "ping"
      BY <1>1, <2>2 DEF EthGo, loop
    <3>7. base' \subseteq Ifs /\ ("cable" \notin faults => baseFound \subseteq base' /\ Raised' \cap baseFound = {})
      BY <2>1, <3>1, <3>2, <3>4 DEF Named
    <3>8. QED
      BY <1>1, <3>4, <3>5, <3>6, <3>7 DEF Named
  <2>3. CASE Complete({}) /\ UNCHANGED <<ethAt, alias, base, slots>>
    BY <1>1, <2>1, <2>3 DEF Named, Raised, AsFound
  <2>4. QED
    BY <1>2, <2>2, <2>3 DEF Configure
<1>3. CASE Down
  <2>1. alias' = {} /\ base' = base \ Raised /\ slots' = slots /\ ethAt = "down"
    BY <1>3 DEF Down, LeftUp, EthIn
  <2>2. Ifs \ baseFound \subseteq Raised
    BY <2>1 DEF Named
  <2>3. base' \subseteq baseFound /\ ("cable" \notin faults => base' = baseFound)
    BY <2>1, <2>2 DEF Named
  <2>4. QED
    BY <1>1, <2>1, <2>2, <2>3 DEF Named, AsFound, Raised
<1>4. CASE ~Configure /\ ~Down
  <2>1. UNCHANGED <<at, interfaces>> /\ ethAt # "start" /\ ethAt' # "start"
    BY <1>4 DEF EthernetStep, ForkPing, ForkTimer, Wait, CollectBoth, Collect, EthIn, EthGo,
         NextHost, Following, Timeout, loop
  <2>2. QED
    BY <1>1, <2>1 DEF Named, Raised, interfaces
<1>5. QED
  BY <1>2, <1>3, <1>4

LEMMA OthersLeaveAlone ==
  ASSUME client # "ethernet", Only({}), [Next]_vars
  PROVE  UNCHANGED <<alias, base, baseFound>>
<1>1. ~EthernetStep
  BY DEF EthernetStep, Configure, ForkPing, ForkTimer, Wait, CollectBoth, Collect, Down, EthIn
<1>2. ~ChildStep
  BY DEF ChildStep, PingEnds, TimerEnds, CopyActs, CopyEnds, Only
<1>3. QED
  BY <1>1, <1>2 DEF Next, Progress, Beside, Break, BreakWait, vars, clients, network, interfaces

LEMMA FaultsAsChosen ==
  ASSUME [Next]_vars
  PROVE  faults' = faults
<1>1. EthernetStep => faults' = faults
  BY DEF EthernetStep, Configure, ForkPing, ForkTimer, Wait, CollectBoth, Collect, Down, NextHost,
       Timeout, LeaveUnreported, EthGo, Complete, chosen
<1>2. FrameStep => faults' = faults
  BY DEF FrameStep, OpenPorts, NoFile, WriteFrame, Receive, ReceiveNothing, ClosePorts, AfterFrame,
       FrameGo, FrameLeave, Complete, chosen
<1>3. FioStep => faults' = faults
  BY DEF FioStep, AskType, FioReceive, FioReceiveNothing, TakeType, TakeInputs, ReportInputs, Ask,
       FioGo, FioLeave, Complete, run, chosen
<1>4. PowerStep => faults' = faults
  BY DEF PowerStep, OpenPower, ReadEvent, ReadInterrupted, ReadClock, SetClock, CompareClock,
       ClockGo, ClockFails, Complete, run, chosen
<1>5. DisplayStep => faults' = faults
  BY DEF DisplayStep, ParseDisplayOptions, InitPort, ReportAuxSwitch, ResetDisplay, ShowModes, ModeStep,
       StartKeys, ReadKey, ReadKeyAgain, EndKeys, EndDisplay, DisplayGo, DisplayLeave, Complete,
       run, chosen
<1>6. Call \/ Return \/ Interrupt => faults' = faults
  BY DEF Call, Return, Interrupt, chosen
<1>7. Beside => faults' = faults
  BY DEF Beside, ChildStep, PingEnds, TimerEnds, CopyActs, CopyEnds, FioArrive, PowerDown, PowerUp,
       Tick, PressKey, LateAnswer, ResetOver, run, chosen
<1>8. QED
  BY <1>1, <1>2, <1>3, <1>4, <1>5, <1>6, <1>7 DEF Next, Progress, vars, run, chosen

LEMMA NetInvHolds ==
  ASSUME PidsSuffice, CopiesAwaited
  PROVE  Spec => []NetInv
<1>1. Init => NetInv
  <2>1. SUFFICES ASSUME Init PROVE NetInv
    OBVIOUS
  <2>2. /\ alias = {} /\ base = baseFound /\ base \subseteq Ifs /\ slots = <<>> /\ ethAt = "start"
        /\ proc = [p \in Pids |-> "free"] /\ faults \in FaultSets
    BY <2>1 DEF Init, RunInit, EthInit
  <2>3. Raised = {} /\ slots \in Seq(Ifs)
    BY <2>2 DEF Raised
  <2>4. QED
    BY <2>2, <2>3 DEF NetInv, OnlyPingCopies, Named, AsFound
<1>2. NetInv /\ TableInv /\ PidInv /\ [Next]_vars => NetInv'
  <2>1. SUFFICES ASSUME NetInv, TableInv, PidInv, [Next]_vars, "ioctl" \notin faults' PROVE NetInv'
    BY DEF NetInv
  <2>2. client' = client /\ faults' = faults
    BY <2>1, ClientStays, FaultsAsChosen
  <2>3. CASE client # "ethernet"
    <3>1. UNCHANGED <<alias, base, baseFound>>
      BY <2>1, <2>3, OthersLeaveAlone DEF TableInv
    <3>2. QED
      BY <2>1, <2>2, <2>3, <3>1 DEF NetInv, AsFound
  <2>4. CASE client = "ethernet"
    <3>1. /\ faults \in FaultSets /\ OnlyPingCopies /\ Named
          /\ (at # "client" \/ ethAt = "start") => AsFound
      BY <2>1, <2>2, <2>4 DEF NetInv
    <3>2. EthShape /\ (at # "client" => ethAt = "start")
      BY <2>1, <2>4 DEF TableInv
    <3>3. CASE EthernetStep
      <4>1. OnlyPingCopies'
        BY <2>1, <2>4, <3>1, <3>2, <3>3, CopiesEnd
      <4>2. Named' /\ ((at' # "client" \/ ethAt' = "start") => AsFound')
        BY <2>1, <2>2, <2>4, <3>1, <3>2, <3>3, InterfacesStep
      <4>3. QED
        BY <2>2, <2>4, <3>1, <4>1, <4>2 DEF NetInv
    <3>4. CASE ChildStep
      <4>1. UNCHANGED <<at, ethAt>>
        BY <3>4 DEF ChildStep, PingEnds, TimerEnds, CopyActs, CopyEnds, run, loop, children
      <4>2. /\ OnlyPingCopies' /\ Named'
            /\ (at' # "client" \/ ethAt' = "start") => UNCHANGED <<alias, base, baseFound>>
        BY <2>4, <3>1, <3>2, <3>4, CopyStep
      <4>3. QED
        BY <2>2, <2>4, <3>1, <4>1, <4>2 DEF NetInv, AsFound
    <3>5. CASE \/ (Call \/ Return) /\ UNCHANGED network
               \/ Interrupt /\ (BreakWait \/ UNCHANGED network)
               \/ UNCHANGED <<run, network>>
      <4>1. UNCHANGED <<proc, pingPid, ethAt, interfaces>>
        BY <3>5 DEF BreakWait, network, children
      <4>2. at' # "client" => at # "client"
        BY <3>5 DEF Call, Return, Interrupt, run, loop
      <4>3. OnlyPingCopies' /\ Named' /\ AsFound' = AsFound
        BY <2>2, <3>1, <4>1 DEF OnlyPingCopies, Named, Raised, AsFound, interfaces
      <4>4. QED
        BY <2>2, <2>4, <3>1, <4>1, <4>2, <4>3 DEF NetInv
    <3>6. QED
      BY <2>1, <2>4, <3>3, <3>4, <3>5, StepsOfEthernet
  <2>5. QED
    BY <2>3, <2>4
<1>3. QED
  BY <1>1, <1>2, TableInvHolds, PidInvHolds, PTL DEF Spec

\* ethernet takes the aliases away and leaves no interface up that was down, after any number
\* of iterations and SIGINTs, also where some are up without a carrier, which it finds not to
\* be up; what was up stays up where every cable is in.  Where there is no ping to execute,
\* the copy of the program that touches them as well does not outlive the test, as long as
\* forks do not fail besides (EthernetTest).
THEOREM NetworkRestoredHolds ==
  ASSUME PidsSuffice, CopiesAwaited
  PROVE  Spec => []NetworkRestored
<1>1. NetInv => NetworkRestored
  BY DEF NetInv, NetworkRestored, AsFound
<1>2. QED
  BY <1>1, NetInvHolds, PTL

------------------------------------------------------------------------------
(* Types.                                                                   *)

\* A step belongs to one test and leaves what belongs to the others alone.
LEMMA StepsOfParts ==
  ASSUME [Next]_vars
  PROVE  /\ EthernetStep \/ ChildStep \/ BreakWait \/ UNCHANGED network
         /\ FrameStep \/ UNCHANGED link
         /\ FioStep \/ FioArrive \/ UNCHANGED fio
         /\ PowerStep \/ PowerDown \/ PowerUp \/ Tick \/ ReadBroken \/ UNCHANGED waits
         /\ DisplayStep \/ PressKey \/ LateAnswer \/ BreakReset \/ UNCHANGED display
<1>1. EthernetStep \/ ChildStep \/ BreakWait \/ UNCHANGED network
  BY DEF Next, Progress, Beside, Break, vars, clients
<1>2. FrameStep \/ UNCHANGED link
  BY DEF Next, Progress, Beside, Break, vars, clients
<1>3. FioStep \/ FioArrive \/ UNCHANGED fio
  BY DEF Next, Progress, Beside, Break, vars, clients
<1>4. PowerStep \/ PowerDown \/ PowerUp \/ Tick \/ ReadBroken \/ UNCHANGED waits
  BY DEF Next, Progress, Beside, Break, vars, clients
<1>5. DisplayStep \/ PressKey \/ LateAnswer \/ BreakReset \/ UNCHANGED display
  BY DEF Next, Progress, Beside, Break, vars, clients
<1>6. QED
  BY <1>1, <1>2, <1>3, <1>4, <1>5

\* What a test may do to the counters and to the loop of main.
Counting ==
  \E S : \/ Complete(S)
         \/ LeaveUnreported(S)
         \/ Update(S) /\ UNCHANGED <<chosen, loop, verdict>>

LEMMA StepsOfRun ==
  ASSUME [Next]_vars
  PROVE  Call \/ Return \/ Interrupt \/ Counting \/ UNCHANGED run
<1>1. EthernetStep => Counting
  BY DEF EthernetStep, Configure, ForkPing, ForkTimer, Wait, CollectBoth, Collect, Down, NextHost,
       Timeout, EthGo, Counting
<1>2. FrameStep => Counting
  BY DEF FrameStep, OpenPorts, NoFile, WriteFrame, Receive, ReceiveNothing, ClosePorts, AfterFrame,
       FrameGo, FrameLeave, Counting
<1>3. FioStep => Counting \/ UNCHANGED run
  BY DEF FioStep, AskType, FioReceive, FioReceiveNothing, TakeType, TakeInputs, ReportInputs, Ask,
       FioGo, FioLeave, Counting
<1>4. PowerStep => Counting \/ UNCHANGED run
  BY DEF PowerStep, OpenPower, ReadEvent, ReadInterrupted, ReadClock, SetClock, CompareClock,
       ClockGo, ClockFails, Counting
<1>5. DisplayStep => Counting \/ UNCHANGED run
  BY DEF DisplayStep, ParseDisplayOptions, InitPort, ReportAuxSwitch, ResetDisplay, ShowModes, ModeStep,
       StartKeys, ReadKey, ReadKeyAgain, EndKeys, EndDisplay, DisplayGo, DisplayLeave, Counting, loop
<1>6. Beside => UNCHANGED run
  BY DEF Beside, ChildStep, PingEnds, TimerEnds, CopyActs, CopyEnds, FioArrive, PowerDown, PowerUp,
       Tick, PressKey, LateAnswer, ResetOver
<1>7. QED
  BY <1>1, <1>2, <1>3, <1>4, <1>5, <1>6 DEF Next, Progress, vars

LEMMA RunTypesStep ==
  ASSUME RunTypes, [Next]_vars
  PROVE  RunTypes'
<1> USE RunAssumption
<1>1. CASE Call
  <2>1. calls' \in 0..MaxCalls
    BY <1>1 DEF Call, RunTypes, LoopTypes
  <2>2. passed' \in BOOLEAN /\ failed' \in BOOLEAN
    BY <1>1 DEF Call
  <2>3. QED
    BY <1>1, <2>1, <2>2 DEF Call, RunTypes, ChoiceTypes, LoopTypes, FlagTypes, VerdictTypes, chosen
<1>2. CASE Return
  <2>1. iter' \in Int
    BY <1>2 DEF Return, RunTypes, LoopTypes
  <2>2. QED
    BY <1>2, <2>1 DEF Return, RunTypes, ChoiceTypes, LoopTypes, FlagTypes, VerdictTypes, chosen,
       counters
<1>3. CASE Interrupt
  <2>1. signals' \in 0..MaxSignals
    BY <1>3 DEF Interrupt, RunTypes, LoopTypes
  <2>2. QED
    BY <1>3, <2>1 DEF Interrupt, RunTypes, ChoiceTypes, LoopTypes, FlagTypes, VerdictTypes, chosen,
       counters
<1>4. CASE Counting
  <2>1. PICK S : \/ Complete(S)
                 \/ LeaveUnreported(S)
                 \/ Update(S) /\ UNCHANGED <<chosen, loop, verdict>>
    BY <1>4 DEF Counting
  <2>2. UNCHANGED <<chosen, iter, keepGoing, signals, calls>> /\ at' \in {at, "returned"}
    BY <2>1 DEF Complete, LeaveUnreported, loop
  <2>3. passed' \in BOOLEAN /\ failed' \in BOOLEAN
    BY <2>1 DEF Complete, LeaveUnreported, Update
  <2>4. verdict' = verdict \/ verdict' \in {"PASSED", "FAILED", "DID NOT RUN"}
    BY <2>1 DEF Complete, LeaveUnreported, VerdictOf
  <2>5. QED
    BY <2>2, <2>3, <2>4 DEF RunTypes, ChoiceTypes, LoopTypes, FlagTypes, VerdictTypes, chosen
<1>5. CASE UNCHANGED run
  BY <1>5 DEF RunTypes, ChoiceTypes, LoopTypes, FlagTypes, VerdictTypes, run, chosen, loop, counters
<1>6. QED
  BY <1>1, <1>2, <1>3, <1>4, <1>5, StepsOfRun

------------------------------------------------------------------------------
LEMMA RecordedFits ==
  ASSUME NEW list \in Seq(Ifs), Len(list) <= MaxSlots, NEW i \in Ifs, NEW up
  PROVE  Recorded(list, i, up) \in Seq(Ifs) /\ Len(Recorded(list, i, up)) <= MaxSlots
BY DEF Recorded, MaxSlots

LEMMA NewPidIsPid == Free # {} => NewPid \in Pids
BY DEF Free, NewPid

LEMMA EthTypesStep ==
  ASSUME EthTypes, [Next]_vars
  PROVE  EthTypes'
<1> DEFINE Kind == {"free", "ping", "timer", "copy", "dead"}
           Places == {"start", "ping", "timer", "wait", "collect", "collectBoth", "down"}
<1>1. CASE EthernetStep
  <2>1. proc' \in [Pids -> Kind]
    <3>1. proc' = proc \/ (\E k \in Kind : Fork(k)) \/ (\E p, K : Collected(p, K))
      BY <1>1 DEF EthernetStep, Configure, ForkPing, ForkTimer, Wait, CollectBoth, Collect, Down,
           Reap, Timeout
    <3>2. QED
      BY <3>1 DEF EthTypes, Fork, Collected
  <2>2. pingPid' \in Pids \cup {0} /\ timeoutPid' \in Pids \cup {0}
    BY <1>1, NewPidIsPid DEF EthTypes, EthernetStep, Configure, ForkPing, ForkTimer, Wait,
         CollectBoth, Collect, Down, Fork
  <2>3. ethAt' \in Places
    BY <1>1 DEF EthTypes, EthernetStep, Configure, ForkPing, ForkTimer, Wait, CollectBoth, Collect,
         Down, NextHost, Timeout, LeaveUnreported, EthGo, Following
  <2>4. host' \in Ifs /\ answered' \in SUBSET Ifs
    <3>1. host' \in {host, 1, 2} /\ answered' \in {answered, {}}
      BY <1>1 DEF EthernetStep, Configure, ForkPing, ForkTimer, Wait, CollectBoth, Collect, Down,
           NextHost
    <3>2. 1 \in Ifs /\ 2 \in Ifs
      BY DEF Ifs
    <3>3. QED
      BY <3>1, <3>2 DEF EthTypes
  <2>5. broken' \in BOOLEAN
    BY <1>1 DEF EthTypes, EthernetStep, Configure, ForkPing, ForkTimer, Wait, CollectBoth, Collect,
         Down, Reap, Returned
  <2>6. alias' \in SUBSET Ifs /\ base' \in SUBSET Ifs /\ baseFound' \in SUBSET Ifs
    <3>1. 1 \in Ifs
      BY DEF Ifs
    <3>2. CASE Configure
      BY <3>1, <3>2 DEF EthTypes, Configure, CanRaise, NotRunning, PartlySet
    <3>3. CASE Down
      BY <3>3 DEF EthTypes, Down, LeftUp
    <3>4. CASE UNCHANGED interfaces
      BY <3>4 DEF EthTypes, interfaces
    <3>5. QED
      BY <1>1, <3>2, <3>3, <3>4 DEF EthernetStep, ForkPing, ForkTimer, Wait, CollectBoth, Collect
  <2>7. slots' \in Seq(Ifs) /\ Len(slots') <= MaxSlots
    <3>1. slots' = slots \/ \E up : slots' = Recorded(Recorded(slots, 1, up), 2, up)
      BY <1>1 DEF EthernetStep, Configure, ForkPing, ForkTimer, Wait, CollectBoth, Collect, Down,
           interfaces
    <3>2. slots \in Seq(Ifs) /\ Len(slots) <= MaxSlots /\ 1 \in Ifs /\ 2 \in Ifs
      BY DEF EthTypes, Ifs
    <3>3. ASSUME NEW up
          PROVE  /\ Recorded(Recorded(slots, 1, up), 2, up) \in Seq(Ifs)
                 /\ Len(Recorded(Recorded(slots, 1, up), 2, up)) <= MaxSlots
      BY <3>2, RecordedFits
    <3>4. QED
      BY <3>1, <3>2, <3>3
  <2>8. QED
    BY <2>1, <2>2, <2>3, <2>4, <2>5, <2>6, <2>7 DEF EthTypes
<1>2. CASE ChildStep
  <2>1. PICK p \in Pids : PingEnds(p) \/ TimerEnds(p) \/ CopyActs(p) \/ CopyEnds(p)
    BY <1>2 DEF ChildStep
  <2>2. UNCHANGED <<pingPid, timeoutPid, ethAt, host, broken, slots, baseFound>>
    BY <2>1 DEF PingEnds, TimerEnds, CopyActs, CopyEnds, children, interfaces
  <2>3. proc' = proc \/ proc' = [proc EXCEPT ![p] = "dead"]
    BY <2>1 DEF PingEnds, TimerEnds, CopyActs, CopyEnds, children
  <2>4. answered' = answered \/ answered' = answered \cup (IF p = pingPid THEN {host} ELSE {})
    BY <2>1 DEF PingEnds, TimerEnds, CopyActs, CopyEnds, children
  <2>5. UNCHANGED <<alias, base>> \/ (alias' \in SUBSET Ifs /\ base' \in SUBSET Ifs)
    BY <2>1 DEF PingEnds, TimerEnds, CopyActs, CopyEnds, interfaces
  <2>6. proc' \in [Pids -> Kind]
    BY <2>3 DEF EthTypes
  <2>7. answered' \in SUBSET Ifs
    BY <2>4 DEF EthTypes
  <2>8. alias' \in SUBSET Ifs /\ base' \in SUBSET Ifs
    BY <2>5 DEF EthTypes
  <2>9. QED
    BY <2>2, <2>6, <2>7, <2>8 DEF EthTypes
<1>3. CASE BreakWait
  BY <1>3 DEF EthTypes, BreakWait, interfaces
<1>4. CASE UNCHANGED network
  BY <1>4 DEF EthTypes, network, children, interfaces
<1>5. QED
  BY <1>1, <1>2, <1>3, <1>4, StepsOfParts

------------------------------------------------------------------------------
\* No more is on its way than is owed, and a turn is one of those of the call.
FrameMore ==
  /\ line[1] + line[2] <= owed
  /\ frameAt = "start" => turn = 1
  /\ frameAt \in {"write", "read"} => turn <= turns

LEMMA FrameLeaveTypes ==
  ASSUME NEW S, FrameLeave(S), turns' \in Turns \cup {TXNUM}
  PROVE  /\ frameAt' = "start" /\ leg' = 1 /\ turn' = 1 /\ got' = 0
         /\ turn' \in 1..turns' + 1 /\ got' \in 0..Size - 1
<1>1. PICK n \in Nat \ {0} : turns' = n
  BY FrameAssumption DEF TXNUM
<1>2. frameAt' = "start" /\ leg' = 1 /\ turn' = 1 /\ got' = 0
  BY DEF FrameLeave
<1>3. turn' \in 1..turns' + 1
  BY <1>1, <1>2
<1>4. got' \in 0..Size - 1
  BY <1>2, FrameAssumption
<1>5. QED
  BY <1>2, <1>3, <1>4

LEMMA AfterFrameTypes ==
  ASSUME FrameTypes, FrameMore, FrameIn("read"), NEW S, AfterFrame(S), turns' = turns
  PROVE  /\ frameAt' \in {"write", "close"} /\ leg' \in {1, 2} /\ got' \in 0..Size - 1
         /\ turn' \in 1..turns' + 1 /\ (frameAt' = "write" => turn' <= turns')
<1>1. turn <= turns /\ turns \in Nat /\ turn \in Nat /\ turn >= 1
  BY FrameAssumption DEF FrameTypes, FrameMore, FrameIn, TXNUM
<1>2. got' \in 0..Size - 1
  BY FrameAssumption DEF AfterFrame
<1>3. CASE Returns(S) /\ FrameGo(S, "write") /\ leg' = 2 /\ UNCHANGED turn
  BY <1>1, <1>2, <1>3 DEF FrameGo
<1>4. CASE leg' = 1 /\ turn' = turn + 1 /\ FrameGo(S, IF turn < turns THEN "write" ELSE "close")
  BY <1>1, <1>2, <1>4 DEF FrameGo
<1>5. QED
  BY <1>3, <1>4 DEF AfterFrame

LEMMA LineTypes ==
  ASSUME FrameTypes, FrameMore, NEW l \in {1, 2}, NEW n \in Int, NEW d \in Int, n <= d, line[l] + n >= 0,
         line' = [line EXCEPT ![l] = @ + n], owed' = owed + d
  PROVE  line' \in [{1, 2} -> Nat] /\ owed' \in Nat /\ line'[1] + line'[2] <= owed'
<1>1. line \in [{1, 2} -> Nat] /\ owed \in Nat /\ line[1] \in Nat /\ line[2] \in Nat
  BY DEF FrameTypes
<1>2. line' \in [{1, 2} -> Nat]
  BY <1>1
<1>3. line'[1] \in Nat /\ line'[2] \in Nat /\ line'[1] + line'[2] = line[1] + line[2] + n
  BY <1>1
<1>4. line'[1] + line'[2] <= owed'
  BY <1>1, <1>3 DEF FrameMore
<1>5. QED
  BY <1>1, <1>2, <1>3, <1>4

LEMMA FrameTypesStep ==
  ASSUME FrameTypes, FrameMore, [Next]_vars
  PROVE  FrameTypes' /\ FrameMore'
<1> USE FrameAssumption
<1>1. PICK way \in {1, 2} : Way(leg) = way
  BY WayIsLeg DEF FrameTypes
<1>2. CASE OpenPorts
  <2>1. line' \in [{1, 2} -> Nat] /\ owed' = 0 /\ line'[1] + line'[2] <= owed' /\ options' \in BOOLEAN
    <3>1. line' = <<0, 0>> /\ owed' = 0 /\ options' = FALSE
      BY <1>2 DEF OpenPorts
    <3>2. line' \in [{1, 2} -> Nat] /\ line'[1] = 0 /\ line'[2] = 0
      BY <3>1
    <3>3. line'[1] + line'[2] <= owed'
      BY <3>1, <3>2
    <3>4. QED
      BY <3>1, <3>2, <3>3
  <2>2. turns' \in Turns \cup {TXNUM} /\ ports' \in {"none", "file", "default"}
    BY <1>2 DEF OpenPorts
  <2>3. CASE FrameGo({}, "write") /\ UNCHANGED <<leg, turn, got>>
    <3>1. turn = 1 /\ frameAt' = "write"
      BY <1>2, <2>3 DEF OpenPorts, FrameIn, FrameMore, FrameGo
    <3>2. turn' \in 1..turns' + 1 /\ turn' <= turns'
      <4>1. PICK n \in Nat \ {0} : turns' = n
        BY <2>2 DEF TXNUM
      <4>2. turn' = 1
        BY <2>3, <3>1
      <4>3. QED
        BY <4>1, <4>2
    <3>3. QED
      BY <2>1, <2>2, <2>3, <3>1, <3>2 DEF FrameTypes, FrameMore
  <2>4. CASE \E s : FrameLeave({s})
    BY <2>1, <2>2, <2>4, FrameLeaveTypes DEF FrameTypes, FrameMore
  <2>5. QED
    BY <1>2, <2>3, <2>4 DEF OpenPorts
<1>3. CASE NoFile \/ ClosePorts
  <2>1. PICK S : FrameLeave(S) /\ UNCHANGED <<turns, options, ports, line, owed>>
    BY <1>3 DEF NoFile, ClosePorts, wire
  <2>2. turns' \in Turns \cup {TXNUM}
    BY <2>1 DEF FrameTypes
  <2>3. QED
    BY <2>1, <2>2, FrameLeaveTypes DEF FrameTypes, FrameMore
<1>4. CASE WriteFrame
  <2>1. PICK n \in 0..Size, d \in 0..Size :
          /\ n <= d /\ line' = [line EXCEPT ![Way(leg)] = @ + n] /\ owed' = owed + d
          /\ frameAt' \in {"read", "close"}
    BY <1>4 DEF WriteFrame, FrameGo
  <2>2. UNCHANGED <<leg, turn, turns, got, options, ports>> /\ turn <= turns
    BY <1>4 DEF WriteFrame, FrameIn, FrameMore
  <2>3. line[Way(leg)] + n >= 0
    BY <1>1, <2>1 DEF FrameTypes
  <2>4. line' \in [{1, 2} -> Nat] /\ owed' \in Nat /\ line'[1] + line'[2] <= owed'
    <3>1. line[way] + n >= 0 /\ line' = [line EXCEPT ![way] = @ + n]
      BY <1>1, <2>1, <2>3
    <3>2. n \in Int /\ d \in Int
      OBVIOUS
    <3>3. QED
      BY <2>1, <3>1, <3>2, LineTypes
  <2>5. QED
    BY <2>1, <2>2, <2>4 DEF FrameTypes, FrameMore
<1>5. CASE Receive
  <2>1. PICK n \in 1..Size - got :
          /\ n <= line[Way(leg)]
          /\ line' = [line EXCEPT ![Way(leg)] = @ - n]
          /\ owed' = owed - n
          /\ \/ got + n < Size /\ got' = got + n /\ FrameGo({}, "read") /\ UNCHANGED <<leg, turn>>
             \/ \E S : AfterFrame(S)
    BY <1>5 DEF Receive
  <2>2. UNCHANGED <<turns, options, ports>> /\ FrameIn("read")
    BY <1>5 DEF Receive
  <2>3. got \in Nat /\ n \in Nat /\ line[Way(leg)] \in Nat /\ owed \in Nat
    BY <1>1, <2>1 DEF FrameTypes
  <2>4. line' = [line EXCEPT ![Way(leg)] = @ + (-n)] /\ owed' = owed + (-n)
    <3>1. line[Way(leg)] - n = line[Way(leg)] + (-n) /\ owed - n = owed + (-n)
      BY <2>3
    <3>2. QED
      BY <2>1, <3>1
  <2>5. line' \in [{1, 2} -> Nat] /\ owed' \in Nat /\ line'[1] + line'[2] <= owed'
    <3>1. PICK m \in Int : m = -n
      BY <2>3
    <3>2. line[way] \in Nat /\ n <= line[way]
      BY <1>1, <2>1, <2>3
    <3>3. line[way] + m >= 0 /\ m <= m
      BY <3>1, <3>2
    <3>4. line' = [line EXCEPT ![way] = @ + m] /\ owed' = owed + m
      BY <1>1, <2>4, <3>1
    <3>5. QED
      BY <3>3, <3>4, LineTypes
  <2>6. CASE got + n < Size /\ got' = got + n /\ FrameGo({}, "read") /\ UNCHANGED <<leg, turn>>
    <3>1. frameAt' = "read" /\ got' \in 0..Size - 1 /\ turn <= turns
      BY <2>2, <2>3, <2>6 DEF FrameGo, FrameIn, FrameMore
    <3>2. QED
      BY <2>2, <2>5, <2>6, <3>1 DEF FrameTypes, FrameMore
  <2>7. CASE \E S : AfterFrame(S)
    <3>1. /\ frameAt' \in {"write", "close"} /\ leg' \in {1, 2} /\ got' \in 0..Size - 1
          /\ turn' \in 1..turns' + 1 /\ (frameAt' = "write" => turn' <= turns')
      BY <2>2, <2>7, AfterFrameTypes
    <3>2. QED
      BY <2>2, <2>5, <3>1 DEF FrameTypes, FrameMore
  <2>8. QED
    BY <2>1, <2>6, <2>7
<1>6. CASE ReceiveNothing
  <2>1. UNCHANGED <<turns, options, ports, line, owed>> /\ FrameIn("read") /\ \E S : AfterFrame(S)
    BY <1>6 DEF ReceiveNothing, wire
  <2>2. /\ frameAt' \in {"write", "close"} /\ leg' \in {1, 2} /\ got' \in 0..Size - 1
        /\ turn' \in 1..turns' + 1 /\ (frameAt' = "write" => turn' <= turns')
    BY <2>1, AfterFrameTypes
  <2>3. QED
    BY <2>1, <2>2 DEF FrameTypes, FrameMore
<1>7. CASE UNCHANGED link
  BY <1>7 DEF FrameTypes, FrameMore, link, frame, wire
<1>8. QED
  BY <1>2, <1>3, <1>4, <1>5, <1>6, <1>7, StepsOfParts DEF FrameStep

------------------------------------------------------------------------------
LEMMA FioReceiveTypes ==
  ASSUME FioTypes, FioReceive
  PROVE  fioGot' \in 0..LongSize /\ rxBuf' \in [Looked -> Bytes] /\ fioPort' \in Seq(Bytes)
<1> USE FioAssumption
<1>1. /\ Len(fioPort) \in Nat /\ Missing \in Int /\ Missing > 0 /\ fioGot \in Nat
      /\ Expected \in Nat /\ Expected <= LongSize /\ Missing = Expected - fioGot
  <2>1. Expected \in {HeaderSize + 1, ShortSize, LongSize}
    BY DEF Expected
  <2>2. Expected \in Nat /\ Expected <= LongSize
    BY <2>1
  <2>3. fioGot \in Nat /\ Len(fioPort) \in Nat
    BY DEF FioTypes
  <2>4. QED
    BY <2>2, <2>3 DEF FioReceive, Missing
<1>2. /\ Min({Len(fioPort), Missing}) \in {Len(fioPort), Missing}
      /\ Min({Len(fioPort), Missing}) <= Len(fioPort) /\ Min({Len(fioPort), Missing}) <= Missing
  BY <1>1, MinOfTwo
<1>3. PICK n \in Nat : /\ n <= Len(fioPort) /\ n <= Missing
                      /\ fioGot' = fioGot + n /\ rxBuf' = Overlaid(n)
                      /\ fioPort' = SubSeq(fioPort, n + 1, Len(fioPort))
  <2>1. Min({Len(fioPort), Missing}) \in Nat
    BY <1>1, <1>2
  <2>2. QED
    BY <1>2, <2>1 DEF FioReceive
<1>4. fioGot' \in 0..LongSize
  BY <1>1, <1>3
<1>5. \A i \in Looked : i \in fioGot..fioGot + n - 1 => fioPort[i - fioGot + 1] \in Bytes
  BY <1>1, <1>3 DEF FioTypes
<1>6. rxBuf' \in [Looked -> Bytes]
  BY <1>3, <1>5 DEF Overlaid, FioTypes, Bytes
<1>7. \A i \in n + 1..Len(fioPort) : fioPort[i] \in Bytes
  BY <1>1, <1>3 DEF FioTypes
<1>8. fioPort' \in Seq(Bytes)
  BY <1>1, <1>3, <1>7 DEF FioTypes
<1>9. QED
  BY <1>4, <1>6, <1>8

LEMMA FioTypesStep ==
  ASSUME FioTypes, [Next]_vars
  PROVE  FioTypes'
<1> USE FioAssumption
<1>1. CASE FioStep /\ ~FioReceive
  <2>1. module' = module /\ fioPort' = fioPort
    BY <1>1 DEF FioStep, AskType, FioReceiveNothing, TakeType, TakeInputs, ReportInputs
  <2>2. fioAt' \in {"start", "type", "inputs", "report"}
    BY <1>1 DEF FioTypes, FioStep, AskType, FioReceiveNothing, TakeType, TakeInputs,
       ReportInputs, Ask, FioGo, FioLeave
  <2>3. fioGot' \in 0..LongSize
    <3>1. fioGot' \in {fioGot, 0}
      BY <1>1 DEF FioStep, AskType, FioReceiveNothing, TakeType, TakeInputs, ReportInputs, Ask,
         FioLeave
    <3>2. QED
      BY <3>1 DEF FioTypes
  <2>4. modId' \in 0..6
    <3>1. modId' = modId \/ \E byte : modId' \in ReadAs(byte)
      BY <1>1 DEF FioStep, AskType, FioReceiveNothing, TakeType, TakeInputs, ReportInputs
    <3>2. \A byte : ReadAs(byte) \subseteq 0..6
      BY DEF ReadAs, FioTypes
    <3>3. QED
      BY <3>1, <3>2 DEF FioTypes
  <2>5. coming' \in Seq(Bytes)
    <3>1. TypeAnswer \in Seq(Bytes) /\ InputAnswer \in Seq(Bytes)
      BY TypeAnswerShape, InputAnswerShape
    <3>2. coming' = coming \/ coming' = coming \o TypeAnswer \/ coming' = coming \o InputAnswer
      BY <1>1 DEF FioStep, AskType, FioReceiveNothing, TakeType, TakeInputs, ReportInputs, Ask
    <3>3. \A a, b \in Seq(Bytes) : a \o b \in Seq(Bytes)
      OBVIOUS
    <3>4. QED
      BY <3>1, <3>2, <3>3 DEF FioTypes
  <2>6. rxBuf' \in [Looked -> Bytes]
    <3>1. CASE FioReceiveNothing
      <4>1. \A i \in fioGot..fioGot + 0 - 1 : FALSE
        BY DEF FioTypes
      <4>2. QED
        BY <3>1, <4>1 DEF FioReceiveNothing, Overlaid, FioTypes, Bytes
    <3>2. CASE ~FioReceiveNothing
      BY <1>1, <3>2 DEF FioTypes, FioStep, AskType, TakeType, TakeInputs, ReportInputs
    <3>3. QED
      BY <3>1, <3>2
  <2>7. monitor' \in Bytes \cup {"none"}
    <3>1. CASE ReportInputs
      BY <3>1 DEF ReportInputs, FioTypes, Looked
    <3>2. CASE ~ReportInputs
      BY <1>1, <3>2 DEF FioTypes, FioStep, AskType, FioReceiveNothing, TakeType, TakeInputs
    <3>3. QED
      BY <3>1, <3>2
  <2>8. QED
    BY <2>1, <2>2, <2>3, <2>4, <2>5, <2>6, <2>7 DEF FioTypes
<1>2. CASE FioReceive
  <2>1. UNCHANGED <<module, modId, coming, monitor>> /\ fioAt' = fioAt
    BY <1>2 DEF FioReceive, FioGo
  <2>2. QED
    BY <1>2, <2>1, FioReceiveTypes DEF FioTypes
<1>3. CASE FioArrive
  <2>1. PICK n \in {1, Len(coming)} :
          /\ coming # <<>>
          /\ fioPort' = fioPort \o SubSeq(coming, 1, n)
          /\ coming' = SubSeq(coming, n + 1, Len(coming))
    BY <1>3 DEF FioArrive
  <2>2. n \in 1..Len(coming) /\ Len(coming) \in Nat
    BY <2>1 DEF FioTypes
  <2>3. fioPort' \in Seq(Bytes) /\ coming' \in Seq(Bytes)
    <3>1. fioPort \in Seq(Bytes) /\ coming \in Seq(Bytes)
      BY DEF FioTypes
    <3>2. SubSeq(coming, 1, n) \in Seq(Bytes) /\ SubSeq(coming, n + 1, Len(coming)) \in Seq(Bytes)
      BY <2>2, <3>1
    <3>3. fioPort \o SubSeq(coming, 1, n) \in Seq(Bytes)
      BY <3>1, <3>2
    <3>4. QED
      BY <2>1, <3>2, <3>3
  <2>4. UNCHANGED <<module, fioAt, modId, fioGot, rxBuf, monitor>>
    BY <1>3 DEF FioArrive
  <2>5. QED
    BY <2>3, <2>4 DEF FioTypes
<1>4. CASE UNCHANGED fio
  BY <1>4 DEF FioTypes, fio
<1>5. QED
  BY <1>1, <1>2, <1>3, <1>4, StepsOfParts

------------------------------------------------------------------------------
LEMMA EventTypes ==
  ASSUME NEW list \in Seq({"down", "up"}), NEW event \in {"down", "up"}
  PROVE  /\ Append(list, event) \in Seq({"down", "up"}) /\ Len(Append(list, event)) = Len(list) + 1
         /\ list # <<>> => /\ Tail(list) \in Seq({"down", "up"}) /\ Len(Tail(list)) = Len(list) - 1
                           /\ Head(list) \in {"down", "up"}
         /\ Len(list) \in Nat
OBVIOUS

LEMMA PowerTypesStep ==
  ASSUME PowerTypes, [Next]_vars
  PROVE  PowerTypes'
<1> USE PowerAssumption
<1>1. /\ events \in Seq({"down", "up"}) /\ Len(events) <= MaxEvents /\ Len(events) \in Nat
      /\ seen \in Seq({"down", "up"})
  BY DEF PowerTypes
<1>2. <<>> \in Seq({"down", "up"}) /\ Len(<<>>) = 0
  OBVIOUS
<1>3. CASE OpenPower
  <2>1. events' = <<>> /\ seen' = <<>> /\ UNCHANGED <<supply, rtc>> /\ powerAt' \in {powerAt, "reading"}
    BY <1>3 DEF OpenPower
  <2>2. Len(events') <= MaxEvents
    BY <1>2, <2>1
  <2>3. QED
    BY <1>2, <2>1, <2>2 DEF PowerTypes, rtc
<1>4. CASE ReadEvent
  <2>1. /\ events # <<>> /\ events' = Tail(events) /\ seen' = Append(seen, Head(events))
        /\ UNCHANGED <<supply, rtc>> /\ powerAt' \in {powerAt, "closed"}
    BY <1>4 DEF ReadEvent
  <2>2. events' \in Seq({"down", "up"}) /\ Len(events') <= MaxEvents /\ Head(events) \in {"down", "up"}
    BY <1>1, <2>1
  <2>3. seen' \in Seq({"down", "up"})
    BY <1>1, <2>1, <2>2
  <2>4. QED
    BY <2>1, <2>2, <2>3 DEF PowerTypes, rtc
<1>5. CASE ReadBroken \/ ReadInterrupted
  BY <1>5 DEF PowerTypes, ReadBroken, ReadInterrupted, rtc
<1>6. CASE ReadClock \/ SetClock \/ CompareClock \/ Tick
  <2>1. UNCHANGED power
    BY <1>6 DEF ReadClock, SetClock, CompareClock, Tick
  <2>2. clockAt' \in {"start", "sleep", "compare"} /\ ticked' \in BOOLEAN
    BY <1>6 DEF PowerTypes, ReadClock, SetClock, CompareClock, Tick, ClockGo, ClockFails
  <2>3. QED
    BY <2>1, <2>2 DEF PowerTypes, power
<1>7. CASE PowerDown \/ PowerUp
  <2>1. \E event \in {"down", "up"} : Tell(event)
    BY <1>7 DEF PowerDown, PowerUp
  <2>2. supply' \in {"on", "off"} /\ UNCHANGED <<powerAt, seen, rtc>>
    BY <1>7 DEF PowerDown, PowerUp
  <2>3. events' = events \/ (Len(events) < MaxEvents /\ \E event \in {"down", "up"} : events' = Append(events, event))
    BY <2>1 DEF Tell
  <2>4. events' \in Seq({"down", "up"}) /\ Len(events') <= MaxEvents
    <3>1. CASE events' = events
      BY <1>1, <3>1
    <3>2. ASSUME Len(events) < MaxEvents, NEW event \in {"down", "up"}, events' = Append(events, event)
          PROVE  events' \in Seq({"down", "up"}) /\ Len(events') <= MaxEvents
      <4>1. events' \in Seq({"down", "up"}) /\ Len(events') = Len(events) + 1
        BY <1>1, <3>2, EventTypes
      <4>2. QED
        BY <1>1, <3>2, <4>1
    <3>3. QED
      BY <2>3, <3>1, <3>2
  <2>5. QED
    BY <2>2, <2>4 DEF PowerTypes, rtc
<1>8. CASE UNCHANGED waits
  BY <1>8 DEF PowerTypes, waits, power, rtc
<1>9. QED
  BY <1>3, <1>4, <1>5, <1>6, <1>7, <1>8, StepsOfParts DEF PowerStep

------------------------------------------------------------------------------
LEMMA MinExists ==
  ASSUME NEW S \in SUBSET Nat, S # {}
  PROVE  Min(S) \in S
<1>1. \E x \in S : \A y \in S : ~ (<<y, x>> \in OpToRel(<, Nat))
  BY NatLessThanWellFounded, WFMin
<1>2. PICK x \in S : \A y \in S : ~ (y < x)
  BY <1>1 DEF OpToRel
<1>3. \A y \in S : x <= y
  BY <1>2
<1>4. QED
  BY <1>3 DEF Min
\* getopt goes through the options of one call after those of the call before.
OptionsTyped == command \in Seq(Tests \cup Ending) /\ unread \in Seq(Tests \cup Ending)

LEMMA PartOfOptions ==
  ASSUME NEW list \in Seq(Tests \cup Ending), NEW i \in Nat \ {0}, NEW j \in 0..Len(list)
  PROVE  /\ SubSeq(list, i, j) \in Seq(Tests \cup Ending)
         /\ Len(SubSeq(list, i, j)) = IF i <= j THEN j - i + 1 ELSE 0
<1>1. \A k \in i..j : list[k] \in Tests \cup Ending
  OBVIOUS
<1>2. QED
  BY <1>1

LEMMA OptionsShrink ==
  ASSUME OptionsTyped
  PROVE  Left \in Seq(Tests \cup Ending) /\ Len(Left) <= Len(unread)
<1>1. Len(unread) \in Nat /\ unread \in Seq(Tests \cup Ending) /\ DOMAIN unread = 1..Len(unread)
  BY DEF OptionsTyped
<1>2. PICK n \in 0..Len(unread) : Len(Parsed) = n
  <2>1. CASE Enders = {}
    <3>1. Len(Parsed) = Len(unread) /\ Len(unread) \in 0..Len(unread)
      BY <1>1, <2>1 DEF Parsed
    <3>2. QED
      BY <3>1
  <2>2. CASE Enders # {}
    <3>1. Enders \in SUBSET Nat /\ Enders \subseteq 1..Len(unread)
      BY <1>1 DEF Enders
    <3>2. Min(Enders) \in 1..Len(unread)
      BY <2>2, <3>1, MinExists
    <3>3. PICK m \in 1..Len(unread) : m = Min(Enders)
      BY <3>2
    <3>4. Len(SubSeq(unread, 1, m)) = m
      BY <1>1, <3>3, PartOfOptions
    <3>5. QED
      BY <2>2, <3>3, <3>4 DEF Parsed
  <2>3. QED
    BY <2>1, <2>2
<1>3. PICK k \in {1, 2} : Left = SubSeq(unread, n + k, Len(unread))
  BY <1>2 DEF Left
<1>4. n + k \in Nat \ {0} /\ Len(unread) \in 0..Len(unread)
  BY <1>1
<1>5. PICK m \in Nat : m = Len(unread)
  BY <1>1
<1>6. /\ SubSeq(unread, n + k, m) \in Seq(Tests \cup Ending)
      /\ Len(SubSeq(unread, n + k, m)) = IF n + k <= m THEN m - (n + k) + 1 ELSE 0
  BY <1>1, <1>4, <1>5, PartOfOptions
<1>7. QED
  BY <1>3, <1>5, <1>6

\* A step of a mode, and that it is over.
LEMMA ModeTypes ==
  ASSUME DisplayTypes, NEW step, NEW on \in SUBSET Modes, NEW off, ModeStep(step, on, off)
  PROVE  /\ modes' \subseteq Modes /\ fpdOpen' = fpdOpen /\ displayAt' = "stages"
         /\ stages' \subseteq ToSet(Steps) /\ done' \subseteq Tests
BY DEF DisplayTypes, ModeStep, Switched, DisplayGo, Over

LEMMA StepsOfAreSteps ==
  ASSUME NEW S \in SUBSET Tests
  PROVE  UNION {StepsOf(test) : test \in S} \subseteq ToSet(Steps)
<1>1. /\ DOMAIN Steps = 1..14
      /\ Steps[1] = "a" /\ Steps[2] = "z" /\ Steps[3] = "keys" /\ Steps[4] = "k"
      /\ Steps[5] = "reset" /\ Steps[6] = "answer" /\ Steps[7] = "tabs" /\ Steps[8] = "t"
      /\ Steps[9] = "specials" /\ Steps[10] = "text" /\ Steps[11] = "reverse"
      /\ Steps[12] = "reverseBlink" /\ Steps[13] = "blink" /\ Steps[14] = "d"
  BY DEF Steps
<1>2. {"a", "z", "keys", "k", "reset", "answer", "tabs", "t", "specials", "text", "reverse",
       "reverseBlink", "blink", "d"} \subseteq ToSet(Steps)
  <2>1. \A i \in 1..14 : Steps[i] \in ToSet(Steps)
    BY <1>1 DEF ToSet
  <2>2. /\ 1 \in 1..14 /\ 2 \in 1..14 /\ 3 \in 1..14 /\ 4 \in 1..14 /\ 5 \in 1..14 /\ 6 \in 1..14
        /\ 7 \in 1..14 /\ 8 \in 1..14 /\ 9 \in 1..14 /\ 10 \in 1..14 /\ 11 \in 1..14 /\ 12 \in 1..14
        /\ 13 \in 1..14 /\ 14 \in 1..14
    OBVIOUS
  <2>3. QED
    BY <1>1, <2>1, <2>2
<1>3. \A test \in Tests : StepsOf(test) \subseteq
        {"a", "z", "keys", "k", "reset", "tabs", "t", "specials", "text", "reverse",
         "reverseBlink", "blink", "d"}
  BY DEF StepsOf, Tests
<1>4. QED
  BY <1>2, <1>3

LEMMA AnswerIsStep == "answer" \in ToSet(Steps)
<1>1. 6 \in DOMAIN Steps /\ Steps[6] = "answer"
  BY DEF Steps
<1>2. QED
  BY <1>1 DEF ToSet

LEMMA DisplayTypesStep ==
  ASSUME DisplayTypes, OptionsTyped, [Next]_vars
  PROVE  DisplayTypes' /\ OptionsTyped'
<1> USE DisplayAssumption
<1>1. /\ command \in Commands \cup {<<>>} /\ unread \in Seq(Tests \cup Ending)
      /\ Len(unread) \in Nat /\ Len(command) \in Nat /\ Len(unread) <= Len(command)
  BY DEF DisplayTypes, OptionsTyped
<1>2. CASE ParseDisplayOptions
  <2>1. /\ unread' = Left /\ done' = {} /\ UNCHANGED <<command, fpdOpen, fpds, modes, typed, count>>
        /\ runKeypadTest' \in BOOLEAN
    BY <1>2 DEF ParseDisplayOptions, screen
  <2>2. displayAt' \in {"start", "port"} /\ stages' \subseteq ToSet(Steps)
    BY <1>2, ToRunIsTests, StepsOfAreSteps
       DEF ParseDisplayOptions, DisplayLeave, DisplayGo, DisplayTypes
  <2>3. Left \in Seq(Tests \cup Ending) /\ Len(Left) <= Len(unread)
    BY OptionsShrink
  <2>4. Len(unread') <= Len(command')
    <3>1. Len(Left) \in Nat
      BY <2>3
    <3>2. QED
      BY <1>1, <2>1, <2>3, <3>1
  <2>5. QED
    BY <2>1, <2>2, <2>3, <2>4 DEF DisplayTypes, OptionsTyped
<1>3. CASE InitPort
  <2>1. UNCHANGED <<command, unread, runKeypadTest, stages, count, done>>
    BY <1>3 DEF InitPort
  <2>2. displayAt' \in {"start", "stages"} /\ fpdOpen' \in BOOLEAN
    BY <1>3 DEF InitPort, DisplayLeave, DisplayGo
  <2>3. fpds' \in 0..MaxFiles /\ typed' \in 0..2
    BY <1>3 DEF InitPort, DisplayTypes
  <2>4. modes' \subseteq Modes
    BY <1>3 DEF InitPort, DisplayTypes, Switched
  <2>5. QED
    BY <2>1, <2>2, <2>3, <2>4 DEF DisplayTypes, OptionsTyped
<1>4. CASE ShowModes \/ StartKeys
  <2>1. \E step, on, off : on \in SUBSET Modes /\ ModeStep(step, on, off)
    <3>1. {"scroll", "wrap", "cursor", "backlight", "reverse", "blink"} \subseteq Modes
      BY DEF Modes
    <3>2. QED
      BY <1>4, <3>1 DEF ShowModes, StartKeys
  <2>2. /\ modes' \subseteq Modes /\ fpdOpen' = fpdOpen /\ displayAt' = "stages"
        /\ stages' \subseteq ToSet(Steps) /\ done' \subseteq Tests
    BY <2>1, ModeTypes
  <2>3. /\ UNCHANGED <<command, unread, runKeypadTest, fpds, typed>>
        /\ count' \in {count, 0}
    BY <1>4 DEF ShowModes, StartKeys
  <2>4. count' \in 0..Keys
    BY <2>3 DEF DisplayTypes
  <2>5. QED
    BY <2>2, <2>3, <2>4 DEF DisplayTypes, OptionsTyped
<1>5. CASE ReportAuxSwitch \/ EndKeys
  <2>1. /\ stages' \subseteq stages /\ done' \subseteq Tests
        /\ UNCHANGED <<command, unread, runKeypadTest, screen, typed, count>>
        /\ displayAt' \in {displayAt, "stages"}
    BY <1>5 DEF ReportAuxSwitch, EndKeys, Over, DisplayGo, DisplayTypes
  <2>2. QED
    BY <2>1 DEF DisplayTypes, OptionsTyped, screen
<1>6. CASE ReadKey
  <2>1. typed' = 0 /\ UNCHANGED <<command, unread, runKeypadTest, displayAt, stages, screen, done>>
    BY <1>6 DEF ReadKey
  <2>2. count' \in 0..Keys
    BY <1>6 DEF ReadKey, DisplayTypes
  <2>3. QED
    BY <2>1, <2>2 DEF DisplayTypes, OptionsTyped, screen
<1>7. CASE EndDisplay
  <2>1. /\ UNCHANGED <<command, unread, runKeypadTest, stages, screen, typed, count, done>>
        /\ displayAt' = "start"
    BY <1>7 DEF EndDisplay, DisplayLeave
  <2>2. QED
    BY <2>1 DEF DisplayTypes, OptionsTyped, screen
<1>8. CASE PressKey
  <2>1. typed' \in 0..2
    BY <1>8 DEF PressKey, DisplayTypes
  <2>2. UNCHANGED <<command, unread, runKeypadTest, displayAt, stages, screen, count, done>>
    BY <1>8 DEF PressKey
  <2>3. QED
    BY <2>1, <2>2 DEF DisplayTypes, OptionsTyped, screen
<1>9. CASE ResetDisplay \/ LateAnswer \/ BreakReset
  <2>1. UNCHANGED <<command, unread, runKeypadTest, displayAt, screen, count>>
    BY <1>9 DEF ResetDisplay, LateAnswer, BreakReset, ResetOver
  <2>2. typed' \in 0..2
    BY <1>9 DEF ResetDisplay, LateAnswer, BreakReset, DisplayTypes
  <2>3. stages' \subseteq ToSet(Steps) /\ done' \subseteq Tests
    <3>1. "answer" \in ToSet(Steps)
      BY AnswerIsStep
    <3>2. QED
      BY <1>9, <3>1 DEF ResetDisplay, LateAnswer, BreakReset, ResetOver, Over, DisplayTypes
  <2>4. QED
    BY <2>1, <2>2, <2>3 DEF DisplayTypes, OptionsTyped, screen
<1>10. CASE UNCHANGED display
  BY <1>10 DEF DisplayTypes, OptionsTyped, display, screen
<1>11. QED
  BY <1>2, <1>3, <1>4, <1>5, <1>6, <1>7, <1>8, <1>9, <1>10, StepsOfParts DEF DisplayStep, ReadKeyAgain

------------------------------------------------------------------------------
LEMMA InitTypes ==
  ASSUME Init
  PROVE  TypeOK /\ FrameMore /\ OptionsTyped
<1>1. RunTypes
  <2>1. asked \in Int /\ 0 \in 0..MaxSignals /\ 0 \in 0..MaxCalls
    BY RunAssumption DEF Init, RunInit
  <2>2. QED
    BY <2>1 DEF Init, RunInit, RunTypes, ChoiceTypes, LoopTypes, FlagTypes, VerdictTypes
<1>2. EthTypes
  <2>1. 1 \in Ifs /\ {} \in SUBSET Ifs /\ <<>> \in Seq(Ifs) /\ Len(<<>>) <= MaxSlots
    BY DEF Ifs, MaxSlots
  <2>2. base \in SUBSET Ifs
    BY DEF Init, EthInit
  <2>3. QED
    BY <2>1, <2>2 DEF Init, EthInit, EthTypes
<1>3. FrameTypes /\ FrameMore
  <2>1. line = <<0, 0>> /\ turn = 1 /\ turns = 2 /\ owed = 0 /\ got = 0 /\ leg = 1
    BY DEF Init, FrameInit, TXNUM
  <2>2. line \in [{1, 2} -> Nat] /\ line[1] = 0 /\ line[2] = 0
    BY <2>1
  <2>3. 0 \in 0..Size - 1 /\ 1 \in 1..2 + 1
    BY FrameAssumption
  <2>4. frameAt = "start" /\ options = TRUE /\ ports = "none"
    BY DEF Init, FrameInit
  <2>5. FrameMore
    BY <2>1, <2>2, <2>4 DEF FrameMore
  <2>6. QED
    BY <2>1, <2>2, <2>3, <2>4, <2>5 DEF FrameTypes, TXNUM
<1>4. FioTypes
  <2>1. module \in 1..6
    BY FioAssumption DEF Init, FioInit
  <2>2. /\ modId = 0 /\ fioAt = "start" /\ fioGot = 0 /\ rxBuf = [i \in Looked |-> "zero"]
        /\ fioPort = <<>> /\ coming = <<>> /\ monitor = "none"
    BY DEF Init, FioInit
  <2>3. 0 \in 0..6 /\ 0 \in 0..LongSize
    BY FioAssumption
  <2>4. rxBuf \in [Looked -> Bytes] /\ <<>> \in Seq(Bytes)
    BY <2>2 DEF Bytes
  <2>5. QED
    BY <2>1, <2>2, <2>3, <2>4 DEF FioTypes
<1>5. PowerTypes
  <2>1. /\ powerAt = "closed" /\ supply = "on" /\ events = <<>> /\ seen = <<>>
        /\ clockAt = "start" /\ ticked = FALSE
    BY DEF Init, PowerInit
  <2>2. <<>> \in Seq({"down", "up"}) /\ Len(<<>>) <= MaxEvents
    BY PowerAssumption
  <2>3. QED
    BY <2>1, <2>2 DEF PowerTypes
<1>6. DisplayTypes /\ OptionsTyped
  <2>1. /\ command \in Commands \cup {<<>>} /\ unread = command
        /\ runKeypadTest = FALSE /\ displayAt = "start" /\ stages = {}
        /\ fpdOpen = FALSE /\ fpds = 0 /\ modes = {} /\ typed = 0 /\ count = 0 /\ done = {}
    BY DEF Init, DisplayInit
  <2>2. command \in Seq(Tests \cup Ending)
    <3>1. <<>> \in Seq(Tests \cup Ending)
      OBVIOUS
    <3>2. QED
      BY <2>1, <3>1, DisplayAssumption
  <2>3. Len(unread) <= Len(command)
    <3>1. Len(command) \in Nat
      BY <2>2
    <3>2. QED
      BY <2>1, <3>1
  <2>4. 0 \in 0..MaxFiles /\ 0 \in 0..2 /\ 0 \in 0..Keys
    BY DisplayAssumption
  <2>5. QED
    BY <2>1, <2>2, <2>3, <2>4 DEF DisplayTypes, OptionsTyped
<1>7. QED
  BY <1>1, <1>2, <1>3, <1>4, <1>5, <1>6 DEF TypeOK

\* The state of main and of all tests keeps its types (FitLinks), with the bounds that they
\* carry: a frame's turns and pieces, the bytes that fio_monitor has got, the names that
\* ethernet keeps, the events of the power supply, the files and keys of display.
THEOREM TypeOKHolds == Spec => []TypeOK
<1>1. Init => TypeOK /\ FrameMore /\ OptionsTyped
  BY InitTypes
<1>2. TypeOK /\ FrameMore /\ OptionsTyped /\ [Next]_vars => (TypeOK /\ FrameMore /\ OptionsTyped)'
  BY RunTypesStep, EthTypesStep, FrameTypesStep, FioTypesStep, PowerTypesStep, DisplayTypesStep
     DEF TypeOK
<1>3. QED
  BY <1>1, <1>2, PTL DEF Spec

------------------------------------------------------------------------------
(* Runs without a fault.                                                    *)

\* The environment does nothing wrong and the user does not interrupt.
Calm == faults = {} /\ signals = 0
Well == failed = FALSE /\ verdict \in {"none", "PASSED"}

LEMMA CalmBefore ==
  ASSUME RunTypes, [Next]_vars, Calm'
  PROVE  Calm /\ ~Interrupt
<1>1. signals \in Nat /\ faults' = faults
  BY FaultsAsChosen, RunAssumption DEF RunTypes, LoopTypes
<1>2. Interrupt => signals' = signals + 1
  BY DEF Interrupt
<1>3. Call \/ Return \/ Counting \/ UNCHANGED run => signals' = signals
  BY DEF Call, Return, Counting, Complete, LeaveUnreported, run, loop
<1>4. QED
  BY <1>1, <1>2, <1>3, StepsOfRun DEF Calm

LEMMA MainKeepsWell ==
  ASSUME Well, Call \/ Return
  PROVE  Well'
BY DEF Well, Call, Return, counters

LEMMA CountsWell ==
  ASSUME Well, NEW S, S \cap FailureStatus = {}, Update(S)
  PROVE  failed' = FALSE /\ (passed = TRUE \/ "ftPass" \in S => passed' = TRUE)
BY DEF Well, Update

\* A test that has counted a pass and no failure.
LEMMA EndsWell ==
  ASSUME Well, NEW S, S \cap FailureStatus = {}, Complete(S), passed = TRUE \/ "ftPass" \in S
  PROVE  Well'
BY CountsWell DEF Well, Complete, VerdictOf

LEMMA NoneFails == {} \cap FailureStatus = {} /\ {"ftPass"} \cap FailureStatus = {}
BY DEF FailureStatus

------------------------------------------------------------------------------
\* Whoever reaches the end of a ping has had its answer, and a timer does not run out.
EthWell ==
  /\ (ethAt \in {"collect", "down"} \/ (ethAt \in {"ping", "timer", "wait"} /\ host = 2))
       => passed = TRUE
  /\ ethAt = "wait" => proc[timeoutPid] = "timer"

LEMMA PidsFree ==
  ASSUME EthShape, NEW p, Only({p})
  PROVE  Free # {}
<1>1. PICK q \in Pids : q # p
  BY EthernetAssumption
<1>2. QED
  BY <1>1 DEF Only, Free

LEMMA EthernetWell ==
  ASSUME client = "ethernet", TableInv, Calm, Well, EthWell, EthernetStep
  PROVE  Well' /\ EthWell'
<1>1. /\ EthShape /\ Table /\ faults = {} /\ broken = FALSE
  BY DEF TableInv, Regular, Calm, EthShape
<1>2. CASE Configure
  <2>1. EthGo({}, "ping") /\ host' = 1
    BY <1>1, <1>2 DEF Configure
  <2>2. ethAt' = "ping" /\ verdict' = verdict /\ Update({})
    BY <2>1 DEF EthGo
  <2>3. EthWell'
    BY <2>1, <2>2 DEF EthWell
  <2>4. failed' = FALSE
    BY <2>2, NoneFails, CountsWell
  <2>5. QED
    BY <2>2, <2>3, <2>4 DEF Well
<1>3. CASE ForkPing
  <2>1. ethAt = "ping" /\ Only({}) /\ Free # {}
    BY <1>1, <1>3, PidsFree DEF ForkPing, EthIn, Table, Only
  <2>2. EthGo({}, "timer") /\ UNCHANGED host
    BY <1>1, <1>3, <2>1 DEF ForkPing, ForkFails
  <2>3. QED
    BY <2>1, <2>2, NoneFails, CountsWell DEF EthGo, Well, EthWell
<1>4. CASE ForkTimer
  <2>1. ethAt = "timer" /\ Only({pingPid}) /\ Free # {}
    BY <1>1, <1>4, PidsFree DEF ForkTimer, EthIn, Table
  <2>2. EthGo({}, "wait") /\ Fork("timer") /\ timeoutPid' = NewPid /\ UNCHANGED host
    BY <1>1, <1>4, <2>1 DEF ForkTimer, ForkFails
  <2>3. proc'[timeoutPid'] = "timer"
    BY <1>1, <2>2, NewChild DEF Kinds
  <2>4. QED
    BY <2>1, <2>2, <2>3, NoneFails, CountsWell DEF EthGo, Well, EthWell
<1>5. CASE Wait
  <2>1. ethAt = "wait" /\ PingForked /\ TimerForked /\ Only({pingPid, timeoutPid})
    BY <1>1, <1>5 DEF Wait, EthIn, Table
  <2>2. PICK p \in Pids \cup {0} :
          /\ Returned(p)
          /\ \/ p = timeoutPid /\ Timeout(p)
             \/ p = pingPid /\ Collected(p, {timeoutPid}) /\ EthGo({"ftPass"}, "collect")
             \/ /\ p \notin {pingPid, timeoutPid}
                /\ Collected(p, {pingPid, timeoutPid}) /\ EthGo({"ftError"}, "collectBoth")
    BY <1>5 DEF Wait
  <2>3. p \in Pids /\ proc[p] = "dead"
    BY <1>1, <2>2 DEF Returned, Dead
  <2>4. p = pingPid
    BY <2>1, <2>3 DEF Only, EthWell
  <2>5. EthGo({"ftPass"}, "collect")
    BY <2>1, <2>2, <2>4 DEF TimerForked
  <2>6. QED
    BY <2>5, NoneFails, CountsWell DEF EthGo, Well, EthWell
<1>6. CASE CollectBoth
  BY <1>1, <1>6 DEF CollectBoth, EthIn, Table
<1>7. CASE Collect
  <2>1. NextHost({}) /\ passed = TRUE
    BY <1>7 DEF Collect, EthIn, EthWell
  <2>2. QED
    BY <2>1, NoneFails, CountsWell DEF NextHost, EthGo, Following, Well, EthWell
<1>8. CASE Down
  <2>1. Complete({}) /\ ethAt' = "start" /\ passed = TRUE
    BY <1>8 DEF Down, EthIn, EthWell
  <2>2. QED
    BY <2>1, NoneFails, EndsWell DEF EthWell
<1>9. QED
  BY <1>2, <1>3, <1>4, <1>5, <1>6, <1>7, <1>8 DEF EthernetStep

LEMMA ChildrenWell ==
  ASSUME client = "ethernet", TableInv, Calm, EthWell, ChildStep
  PROVE  EthWell'
<1>1. EthShape /\ Table /\ faults = {} /\ signals = 0
  BY DEF TableInv, Regular, Calm
<1>2. PICK p \in Pids : PingEnds(p) \/ TimerEnds(p) \/ CopyActs(p) \/ CopyEnds(p)
  BY DEF ChildStep
<1>3. ~TimerEnds(p)
  BY <1>1 DEF TimerEnds
<1>4. UNCHANGED <<passed, ethAt, host, timeoutPid>>
  BY <1>2 DEF PingEnds, TimerEnds, CopyActs, CopyEnds, run, counters, children
<1>5. ethAt = "wait" => proc'[timeoutPid] = proc[timeoutPid]
  <2>1. ethAt = "wait" => timeoutPid \in Pids
    BY <1>1 DEF Table, TimerForked
  <2>2. proc' = proc \/ (proc[p] \in {"ping", "copy"} /\ proc' = [proc EXCEPT ![p] = "dead"])
    BY <1>2, <1>3 DEF PingEnds, CopyActs, CopyEnds, children
  <2>3. QED
    BY <1>1, <2>1, <2>2 DEF EthWell, EthShape
<1>6. QED
  BY <1>4, <1>5 DEF EthWell

------------------------------------------------------------------------------
\* All that is missing of a frame is on the line.
FrameWell ==
  at = "client" =>
    /\ frameAt = "read" => line[Way(leg)] = Size - got
    /\ frameAt = "close" => passed = TRUE

LEMMA FramesWell ==
  ASSUME client \in FrameClients, FrameInv, Calm, Well, FrameWell, FrameStep
  PROVE  Well' /\ FrameWell'
<1> USE FrameAssumption
<1>1. FrameShape /\ faults = {} /\ signals = 0 /\ failed = FALSE
  BY DEF FrameInv, Calm, Well
<1>2. PICK way \in {1, 2} : Way(leg) = way
  BY <1>1, WayIsLeg DEF FrameShape
<1>3. CASE OpenPorts
  BY <1>1, <1>3, NoneFails, CountsWell DEF OpenPorts, FrameGo, Well, FrameWell
<1>4. CASE NoFile
  BY <1>1, <1>4 DEF NoFile
<1>5. CASE WriteFrame
  <2>1. /\ line' = [line EXCEPT ![Way(leg)] = @ + Size] /\ FrameGo({}, "read")
        /\ UNCHANGED <<leg, got, ports>>
    BY <1>1, <1>5 DEF WriteFrame
  <2>2. got = 0 /\ line[way] = 0
    BY <1>1, <1>5 DEF WriteFrame, FrameIn, FrameShape, FrameInv, NothingOwed
  <2>3. line'[way] = Size - got'
    BY <1>1, <1>2, <2>1, <2>2 DEF FrameShape
  <2>4. Way(leg)' = way
    BY <1>2, <2>1 DEF Way
  <2>5. QED
    BY <2>1, <2>3, <2>4, NoneFails, CountsWell DEF FrameGo, Well, FrameWell
<1>6. CASE Receive
  <2>1. at = "client" /\ frameAt = "read" /\ line[way] = Size - got /\ got \in 0..Size - 1
    BY <1>1, <1>2, <1>6 DEF Receive, FrameIn, FrameWell, FrameShape
  <2>2. PICK n \in 1..Size - got :
          /\ line' = [line EXCEPT ![way] = @ - n]
          /\ \/ got + n < Size /\ got' = got + n /\ FrameGo({}, "read") /\ UNCHANGED <<leg, turn>>
             \/ AfterFrame({"ftPass"})
    BY <1>1, <1>2, <1>6 DEF Receive
  <2>3. CASE got' = got + n /\ FrameGo({}, "read") /\ UNCHANGED leg
    <3>1. line'[way] = Size - got'
      BY <1>1, <2>1, <2>2, <2>3 DEF FrameShape
    <3>2. Way(leg)' = way
      BY <1>2, <1>6, <2>3 DEF Way, Receive
    <3>3. QED
      BY <2>3, <3>1, <3>2, NoneFails, CountsWell DEF FrameGo, Well, FrameWell
  <2>4. CASE AfterFrame({"ftPass"})
    <3>1. PICK where \in {"write", "close"} : FrameGo({"ftPass"}, where)
      BY <2>4 DEF AfterFrame
    <3>2. QED
      BY <3>1, NoneFails, CountsWell DEF FrameGo, Well, FrameWell
  <2>5. QED
    BY <2>2, <2>3, <2>4
<1>7. CASE ReceiveNothing
  <2>1. line[way] = Size - got /\ got \in 0..Size - 1 /\ line[way] = 0
    BY <1>1, <1>2, <1>7 DEF ReceiveNothing, FrameIn, FrameWell, FrameShape
  <2>2. QED
    BY <2>1
<1>8. CASE ClosePorts
  <2>1. passed = TRUE /\ Complete({}) /\ frameAt' = "start"
    BY <1>8 DEF ClosePorts, FrameIn, FrameWell, FrameLeave
  <2>2. QED
    BY <2>1, NoneFails, EndsWell DEF FrameWell
<1>9. QED
  BY <1>3, <1>4, <1>5, <1>6, <1>7, <1>8 DEF FrameStep

------------------------------------------------------------------------------
\* The driver takes the bytes of an answer.
AnswersFit == MaxBacklog > 0

\* Where the test awaits an answer there is some of it.
FioWell == (at = "client" /\ fioAt \in {"type", "inputs"}) => ~(fioGot = 0 /\ Silence)

LEMMA AskedWell ==
  ASSUME AnswersFit, faults = {}, Silence, NEW answer \in Seq(Bytes), answer # <<>>, NEW where,
         Ask(answer, where)
  PROVE  FioGo(where) /\ coming' # <<>>
<1>1. Backlog = 0 /\ coming \o answer = answer
  BY DEF Silence, Backlog
<1>2. Backlog < MaxBacklog
  BY <1>1, FioAssumption DEF AnswersFit
<1>3. QED
  BY <1>1, <1>2, FioAssumption DEF Ask

LEMMA AnswerAwaited ==
  ASSUME client = "fio_monitor", FioInv, Calm, at = "client", fioAt \in {"type", "inputs"}
  PROVE  \E answer \in Seq(Bytes) : Awaiting(answer) /\ Len(answer) = Expected /\ answer # <<>>
<1>1. AnswersInTime /\ FioShape
  BY DEF AnswersInTime, Calm, FioInv
<1>2. CASE fioAt = "type"
  <2>1. Awaiting(TypeAnswer) /\ Len(TypeAnswer) = Expected
    BY <1>1, <1>2, TypeAnswerShape DEF FioInv, Expected
  <2>2. TypeAnswer \in Seq(Bytes) /\ TypeAnswer # <<>>
    BY TypeAnswerShape, FioAssumption
  <2>3. QED
    BY <2>1, <2>2
<1>3. CASE fioAt = "inputs"
  <2>1. Awaiting(InputAnswer) /\ Len(InputAnswer) = Expected
    BY <1>1, <1>3, InputAnswerShape DEF FioInv, Expected, InputSize
  <2>2. Len(InputAnswer) # 0
    BY InputAnswerShape, FioAssumption DEF InputSize
  <2>3. InputAnswer \in Seq(Bytes) /\ InputAnswer # <<>>
    BY <2>2, InputAnswerShape
  <2>4. QED
    BY <2>1, <2>3
<1>4. QED
  BY <1>2, <1>3

LEMMA FioStepWell ==
  ASSUME AnswersFit, client = "fio_monitor", FioInv, Calm, Well, FioWell, FioStep
  PROVE  Well' /\ FioWell'
<1>1. FioShape /\ AnswersInTime /\ faults = {} /\ signals = 0
  BY DEF FioInv, Calm, AnswersInTime
<1>2. TypeAnswer \in Seq(Bytes) /\ TypeAnswer # <<>> /\ InputAnswer \in Seq(Bytes) /\ InputAnswer # <<>>
  <2>1. Len(TypeAnswer) # 0 /\ Len(InputAnswer) # 0
    BY TypeAnswerShape, InputAnswerShape, FioAssumption DEF InputSize
  <2>2. QED
    BY <2>1, TypeAnswerShape, InputAnswerShape
<1>3. CASE AskType
  <2>1. Silence /\ Ask(TypeAnswer, "type")
    BY <1>1, <1>3 DEF AskType, FioIn, FioInv
  <2>2. FioGo("type") /\ coming' # <<>>
    BY <1>1, <1>2, <2>1, AskedWell
  <2>3. QED
    BY <2>2 DEF FioGo, FioWell, Silence, Well, run, counters
<1>4. CASE FioReceive
  <2>1. fioPort # <<>> /\ Missing > 0 /\ FioGo(fioAt) /\ fioGot' = fioGot + Min({Len(fioPort), Missing})
    BY <1>4 DEF FioReceive
  <2>2. Expected \in Nat /\ fioGot \in Nat /\ Len(fioPort) \in Nat \ {0}
    BY <1>1, <2>1, FioAssumption DEF FioShape, Expected
  <2>3. Missing \in Nat \ {0}
    BY <2>1, <2>2 DEF Missing
  <2>4. Min({Len(fioPort), Missing}) \in {Len(fioPort), Missing}
    BY <2>2, <2>3, MinOfTwo
  <2>5. fioGot' # 0
    BY <2>1, <2>2, <2>3, <2>4
  <2>6. QED
    BY <2>1, <2>5 DEF FioGo, FioWell, Well, run, counters
<1>5. CASE FioReceiveNothing
  <2>1. at = "client" /\ fioAt \in {"type", "inputs"} /\ Missing > 0 /\ Silence
    BY <1>1, <1>5 DEF FioReceiveNothing, Receiving, FioIn, Silence
  <2>2. PICK answer \in Seq(Bytes) : Awaiting(answer) /\ Len(answer) = Expected /\ answer # <<>>
    BY <2>1, AnswerAwaited
  <2>3. RestOf(answer)
    BY <2>1, <2>2 DEF FioWell, Awaiting
  <2>4. fioGot = Expected
    BY <1>1, <2>1, <2>2, <2>3 DEF RestOf, Silence, FioShape
  <2>5. QED
    BY <1>1, <2>1, <2>4 DEF Missing, FioShape
<1>6. CASE TakeType
  <2>1. Silence /\ modId' # 0
    BY <1>1, <1>6, TypeTaken
  <2>2. Ask(InputAnswer, "inputs") \/ FioGo("report")
    BY <1>6, <2>1 DEF TakeType
  <2>3. FioGo("report") \/ (FioGo("inputs") /\ coming' # <<>>)
    BY <1>1, <1>2, <2>1, <2>2, AskedWell
  <2>4. QED
    BY <2>3 DEF FioGo, FioWell, Silence, Well, run, counters
<1>7. CASE TakeInputs
  BY <1>7 DEF TakeInputs, FioGo, FioWell, Well, run, counters
<1>8. CASE ReportInputs
  <2>1. Complete({"ftPass"}) /\ at' = "returned"
    BY <1>8 DEF ReportInputs, FioLeave, Complete
  <2>2. QED
    BY <2>1, NoneFails, EndsWell DEF FioWell
<1>9. QED
  BY <1>3, <1>4, <1>5, <1>6, <1>7, <1>8 DEF FioStep

LEMMA ArrivingWell ==
  ASSUME FioShape, FioWell, FioArrive
  PROVE  FioWell'
<1>1. PICK n \in {1, Len(coming)} : coming # <<>> /\ fioPort' = fioPort \o SubSeq(coming, 1, n)
  BY DEF FioArrive
<1>2. n \in 1..Len(coming) /\ fioPort \in Seq(Bytes) /\ coming \in Seq(Bytes)
  BY <1>1 DEF FioShape
<1>3. Len(SubSeq(coming, 1, n)) = n /\ SubSeq(coming, 1, n) \in Seq(Bytes)
  BY <1>2
<1>4. Len(fioPort') = Len(fioPort) + n
  BY <1>1, <1>2, <1>3
<1>5. fioPort' # <<>>
  BY <1>2, <1>4
<1>6. QED
  BY <1>5 DEF FioWell, Silence, FioArrive, run, loop

------------------------------------------------------------------------------
\* rtc compares after the clock has ticked.
ClockWell == clockAt = "compare" => ticked = TRUE

LEMMA StepsOfClock ==
  ASSUME client = "rtc", [Next]_vars
  PROVE  \/ (Call \/ Return \/ Interrupt) /\ UNCHANGED rtc
         \/ ReadClock \/ SetClock \/ CompareClock
         \/ Tick
         \/ UNCHANGED <<run, rtc>>
<1>1. ~EthernetStep /\ ~FrameStep /\ ~FioStep /\ ~DisplayStep
  BY DEF EthernetStep, Configure, ForkPing, ForkTimer, Wait, CollectBoth, Collect, Down, EthIn,
       FrameClients, FrameStep, OpenPorts, NoFile, WriteFrame, Receive, ReceiveNothing, ClosePorts,
       FrameIn, FioStep, AskType, FioReceive, FioReceiveNothing, TakeType, TakeInputs,
       ReportInputs, FioIn, DisplayStep, ParseDisplayOptions, InitPort, ReportAuxSwitch, ResetDisplay, ShowModes,
       ModeStep, StartKeys, ReadKey, ReadKeyAgain, EndKeys, EndDisplay, DisplayIn, Stage
<1>2. ~OpenPower /\ ~ReadEvent /\ ~ReadInterrupted
  BY DEF OpenPower, ReadEvent, ReadInterrupted, PowerIn
<1>3. ChildStep \/ FioArrive \/ PowerDown \/ PowerUp \/ PressKey \/ LateAnswer => UNCHANGED run
  BY DEF ChildStep, PingEnds, TimerEnds, CopyActs, CopyEnds, FioArrive, PowerDown, PowerUp, PressKey,
       LateAnswer, ResetOver
<1>4. PowerDown \/ PowerUp \/ ReadBroken \/ UNCHANGED waits => UNCHANGED rtc
  BY DEF PowerDown, PowerUp, ReadBroken, waits
<1>5. QED
  BY <1>1, <1>2, <1>3, <1>4 DEF Next, Progress, Beside, Break, PowerStep, vars, clients, waits

LEMMA ClockStepWell ==
  ASSUME Calm, Well, ClockWell, ReadClock \/ SetClock \/ CompareClock
  PROVE  Well' /\ ClockWell'
<1>1. faults = {} /\ signals = 0
  BY DEF Calm
<1>2. CASE ReadClock
  BY <1>1, <1>2 DEF ReadClock, ClockGo, ClockFails, ClockWell, Well, run, counters
<1>3. CASE SetClock
  <2>1. ClockGo("compare") /\ ticked = TRUE /\ UNCHANGED ticked
    BY <1>1, <1>3 DEF SetClock, Awake, ClockFails
  <2>2. QED
    BY <2>1 DEF ClockGo, ClockWell, Well, run, counters
<1>4. CASE CompareClock
  <2>1. Complete({"ftPass"}) /\ clockAt' = "start"
    BY <1>4 DEF CompareClock, ClockIn, ClockWell
  <2>2. QED
    BY <2>1, NoneFails, EndsWell DEF ClockWell
<1>5. QED
  BY <1>2, <1>3, <1>4

------------------------------------------------------------------------------
\* getopt finds no other options than those given.
OptionsWell == ToSet(unread) \subseteq ToSet(command)

LEMMA OptionsLeft ==
  ASSUME OptionsTyped
  PROVE  /\ ToSet(Left) \subseteq ToSet(unread)
         /\ Enders # {} => Last(Parsed) \in ToSet(unread) \cap Ending
<1>1. Len(unread) \in Nat /\ unread \in Seq(Tests \cup Ending) /\ DOMAIN unread = 1..Len(unread)
  BY DEF OptionsTyped
<1>2. ASSUME Enders # {}
      PROVE  /\ Len(Parsed) \in Nat
             /\ Last(Parsed) \in ToSet(unread) \cap Ending
  <2>1. Enders \in SUBSET Nat /\ Enders \subseteq 1..Len(unread)
    BY <1>1 DEF Enders
  <2>2. PICK m \in 1..Len(unread) : m = Min(Enders) /\ m \in Enders
    BY <1>2, <2>1, MinExists
  <2>3. Parsed = SubSeq(unread, 1, m)
    BY <1>2, <2>2 DEF Parsed
  <2>4. Len(SubSeq(unread, 1, m)) = m /\ SubSeq(unread, 1, m)[m] = unread[m]
    BY <1>1, <2>2
  <2>5. Last(Parsed) = unread[m] /\ Len(Parsed) = m
    BY <2>3, <2>4 DEF Last
  <2>6. unread[m] \in ToSet(unread) \cap Ending
    BY <1>1, <2>2 DEF Enders, ToSet
  <2>7. QED
    BY <2>5, <2>6
<1>3. Len(Parsed) \in Nat
  BY <1>1, <1>2 DEF Parsed
<1>4. PICK k \in Nat \ {0} : Left = SubSeq(unread, k, Len(unread))
  <2>1. PICK j \in {1, 2} : Left = SubSeq(unread, Len(Parsed) + j, Len(unread))
    BY DEF Left
  <2>2. Len(Parsed) + j \in Nat \ {0}
    BY <1>3
  <2>3. QED
    BY <2>1, <2>2
<1>5. \A i \in DOMAIN Left : Left[i] \in ToSet(unread)
  <2>1. PICK m \in Nat : m = Len(unread)
    BY <1>1
  <2>2. Left = SubSeq(unread, k, m) /\ \A i \in k..m : unread[i] \in ToSet(unread)
    BY <1>1, <1>4, <2>1 DEF ToSet
  <2>3. \A i \in DOMAIN SubSeq(unread, k, m) : SubSeq(unread, k, m)[i] = unread[k + i - 1] /\ k + i - 1 \in k..m
    BY <1>1, <2>1
  <2>4. QED
    BY <2>2, <2>3
<1>6. QED
  BY <1>2, <1>5 DEF ToSet

LEMMA DisplayWell ==
  ASSUME Calm, Well, OptionsTyped, OptionsWell, "h" \notin ToSet(command), DisplayStep
  PROVE  Well' /\ OptionsWell'
<1>1. faults = {} /\ signals = 0
  BY DEF Calm
<1>2. CASE ParseDisplayOptions
  <2>1. unread' = Left /\ UNCHANGED command
    BY <1>2 DEF ParseDisplayOptions
  <2>2. OptionsWell'
    BY <2>1, OptionsLeft DEF OptionsWell
  <2>3. CASE Enders # {}
    <3>1. Last(Parsed) = "v"
      BY <2>3, OptionsLeft DEF OptionsWell, Ending
    <3>2. Complete({"ftPass"})
      BY <1>2, <2>3, <3>1 DEF ParseDisplayOptions, DisplayLeave
    <3>3. QED
      BY <2>2, <3>2, NoneFails, EndsWell
  <2>4. CASE Enders = {}
    BY <1>2, <2>2, <2>4 DEF ParseDisplayOptions, DisplayGo, Well, run, counters
  <2>5. QED
    BY <2>3, <2>4
<1>3. CASE EndDisplay
  <2>1. Complete({"ftPass"}) /\ UNCHANGED <<command, unread>>
    BY <1>3 DEF EndDisplay, DisplayLeave
  <2>2. QED
    BY <2>1, NoneFails, EndsWell DEF OptionsWell
<1>4. CASE ReportAuxSwitch
  <2>1. Update({}) /\ UNCHANGED <<verdict, command, unread>>
    BY <1>1, <1>4 DEF ReportAuxSwitch
  <2>2. QED
    BY <2>1, NoneFails, CountsWell DEF Well, OptionsWell
<1>5. CASE InitPort
  <2>1. UNCHANGED <<run, command, unread>>
    BY <1>1, <1>5 DEF InitPort, DisplayGo, MaxRetries
  <2>2. QED
    BY <2>1 DEF Well, OptionsWell, run, counters
<1>6. CASE ResetDisplay \/ ShowModes \/ StartKeys \/ ReadKey \/ ReadKeyAgain \/ EndKeys
  <2>1. UNCHANGED <<run, command, unread>>
    BY <1>6 DEF ResetDisplay, ShowModes, StartKeys, ReadKey, ReadKeyAgain, EndKeys, ModeStep, DisplayGo, display
  <2>2. QED
    BY <2>1 DEF Well, OptionsWell, run, counters
<1>7. QED
  BY <1>2, <1>3, <1>4, <1>5, <1>6 DEF DisplayStep

------------------------------------------------------------------------------
\* A test that is none of those, and is not modelled here, is never called to its end.
Modelled == {"ethernet", "fio_monitor", "rtc", "display", "powerdown"} \cup FrameClients

LEMMA OthersCountNothing ==
  ASSUME client \notin Modelled, [Next]_vars
  PROVE  Call \/ Return \/ Interrupt \/ UNCHANGED run
<1>1. ~EthernetStep /\ ~FrameStep /\ ~FioStep /\ ~PowerStep /\ ~DisplayStep
  BY DEF Modelled, EthernetStep, Configure, ForkPing, ForkTimer, Wait, CollectBoth, Collect, Down, EthIn,
       FrameStep, OpenPorts, NoFile, WriteFrame, Receive, ReceiveNothing, ClosePorts, FrameIn,
       FioStep, AskType, FioReceive, FioReceiveNothing, TakeType, TakeInputs, ReportInputs, FioIn,
       PowerStep, OpenPower, ReadEvent, ReadInterrupted, ReadClock, SetClock, CompareClock,
       PowerIn, ClockIn, DisplayStep, ParseDisplayOptions, InitPort, ReportAuxSwitch, ResetDisplay, ShowModes,
       ModeStep, StartKeys, ReadKey, ReadKeyAgain, EndKeys, EndDisplay, DisplayIn, Stage
<1>2. Beside => UNCHANGED run
  BY DEF Beside, ChildStep, PingEnds, TimerEnds, CopyActs, CopyEnds, FioArrive, PowerDown, PowerUp,
       Tick, PressKey, LateAnswer, ResetOver
<1>3. QED
  BY <1>1, <1>2 DEF Next, Progress, vars

WellInv ==
  (Calm /\ client # "powerdown" /\ "h" \notin ToSet(command)) =>
    /\ Well
    /\ client = "ethernet" => EthWell
    /\ client \in FrameClients => FrameWell
    /\ client = "fio_monitor" => FioWell
    /\ client = "rtc" => ClockWell
    /\ client = "display" => OptionsWell

LEMMA WellStep ==
  ASSUME AnswersFit, WellInv, RunTypes, OptionsTyped, TableInv, FrameInv, FioInv, [Next]_vars
  PROVE  WellInv'
<1> SUFFICES ASSUME Calm', client' # "powerdown", "h" \notin ToSet(command')
             PROVE  WellInv'
  BY DEF WellInv
<1>1. Calm /\ ~Interrupt
  BY CalmBefore
<1>2. client' = client /\ command' = command
  <2>1. DisplayStep \/ PressKey \/ LateAnswer \/ BreakReset \/ UNCHANGED display => command' = command
    BY DEF DisplayStep, ParseDisplayOptions, InitPort, ReportAuxSwitch, ResetDisplay, ShowModes, StartKeys, ReadKey,
         ReadKeyAgain, EndKeys, EndDisplay, PressKey, LateAnswer, BreakReset, ResetOver, display
  <2>2. QED
    BY <2>1, ClientStays, StepsOfParts
<1>3. /\ Well
      /\ client = "ethernet" => EthWell
      /\ client \in FrameClients => FrameWell
      /\ client = "fio_monitor" => FioWell
      /\ client = "rtc" => ClockWell
      /\ client = "display" => OptionsWell
  BY <1>1, <1>2 DEF WellInv
<1>4. UNCHANGED run => Well'
  BY <1>3 DEF Well, run, counters
<1>5. CASE client = "ethernet"
  <2>1. client \notin FrameClients
    BY <1>5 DEF FrameClients
  <2>2. CASE EthernetStep
    BY <1>1, <1>2, <1>3, <1>5, <2>1, <2>2, EthernetWell DEF WellInv
  <2>3. CASE ChildStep
    <3>1. UNCHANGED run
      BY <2>3 DEF ChildStep, PingEnds, TimerEnds, CopyActs, CopyEnds
    <3>2. QED
      BY <1>1, <1>2, <1>3, <1>4, <1>5, <2>1, <2>3, <3>1, ChildrenWell DEF WellInv
  <2>4. CASE (Call \/ Return) /\ UNCHANGED network
    <3>1. ethAt' = "start"
      BY <1>5, <2>4 DEF TableInv, Call, Return, network, children
    <3>2. QED
      BY <1>2, <1>3, <1>5, <2>1, <2>4, <3>1, MainKeepsWell DEF WellInv, EthWell
  <2>5. CASE UNCHANGED <<run, network>>
    BY <1>2, <1>3, <1>4, <1>5, <2>1, <2>5 DEF WellInv, EthWell, run, counters, network, children
  <2>6. QED
    BY <1>1, <1>5, <2>2, <2>3, <2>4, <2>5, StepsOfEthernet
<1>6. CASE client \in FrameClients
  <2>1. client \notin {"ethernet", "fio_monitor", "rtc", "display"}
    BY <1>6 DEF FrameClients
  <2>2. CASE FrameStep
    BY <1>1, <1>2, <1>3, <1>6, <2>1, <2>2, FramesWell DEF WellInv
  <2>3. CASE (Call \/ Return) /\ UNCHANGED link
    <3>1. frameAt' = "start"
      BY <1>6, <2>3 DEF FrameInv, Call, Return, link, frame
    <3>2. QED
      BY <1>2, <1>3, <1>6, <2>1, <2>3, <3>1, MainKeepsWell DEF WellInv, FrameWell
  <2>4. CASE UNCHANGED <<run, link>>
    <3>1. FrameWell'
      BY <1>3, <1>6, <2>4 DEF FrameWell, Way, run, loop, counters, link, frame, wire
    <3>2. QED
      BY <1>2, <1>4, <1>6, <2>1, <2>4, <3>1 DEF WellInv
  <2>5. QED
    <3>1. ~EthernetStep /\ ~FioStep /\ ~PowerStep /\ ~DisplayStep
      BY <2>1, <1>2, <1>6
         DEF EthernetStep, Configure, ForkPing, ForkTimer, Wait, CollectBoth, Collect, Down, EthIn,
         FioStep, AskType, FioReceive, FioReceiveNothing, TakeType, TakeInputs, ReportInputs, FioIn,
         PowerStep, OpenPower, ReadEvent, ReadInterrupted, ReadClock, SetClock, CompareClock,
         PowerIn, ClockIn, DisplayStep, ParseDisplayOptions, InitPort, ReportAuxSwitch, ResetDisplay, ShowModes,
         ModeStep, StartKeys, ReadKey, ReadKeyAgain, EndKeys, EndDisplay, DisplayIn, Stage
    <3>2. Beside => UNCHANGED run
      BY DEF Beside, ChildStep, PingEnds, TimerEnds, CopyActs, CopyEnds, FioArrive, PowerDown, PowerUp,
           Tick, PressKey, LateAnswer, ResetOver
    <3>3. FrameStep \/ ((Call \/ Return) /\ UNCHANGED link) \/ UNCHANGED <<run, link>>
      <4>1. Progress => FrameStep \/ ((Call \/ Return) /\ UNCHANGED link)
        BY <3>1 DEF Progress, clients
      <4>2. Beside => UNCHANGED link
        BY DEF Beside
      <4>3. QED
        BY <1>1, <3>2, <4>1, <4>2 DEF Next, vars, clients
    <3>4. QED
      BY <2>2, <2>3, <2>4, <3>3
<1>7. CASE client = "fio_monitor"
  <2>1. client \notin FrameClients
    BY <1>7 DEF FrameClients
  <2>2. FioShape /\ (at # "client" => fioAt = "start")
    BY <1>1, <1>7 DEF FioInv, Calm, AnswersInTime
  <2>3. CASE FioStep
    BY <1>1, <1>2, <1>3, <1>7, <2>1, <2>3, FioStepWell DEF WellInv
  <2>4. CASE FioArrive
    BY <1>2, <1>3, <1>4, <1>7, <2>1, <2>2, <2>4, ArrivingWell DEF WellInv, FioArrive
  <2>5. CASE (Call \/ Return) /\ UNCHANGED fio
    <3>1. fioAt' = "start"
      BY <2>2, <2>5 DEF Call, Return, fio
    <3>2. QED
      BY <1>2, <1>3, <1>7, <2>1, <2>5, <3>1, MainKeepsWell DEF WellInv, FioWell
  <2>6. CASE UNCHANGED <<run, fio>>
    BY <1>2, <1>3, <1>4, <1>7, <2>1, <2>6 DEF WellInv, FioWell, Silence, run, loop, fio
  <2>7. QED
    BY <1>1, <1>7, <2>3, <2>4, <2>5, <2>6, StepsOfFio
<1>8. CASE client = "rtc"
  <2>1. client \notin FrameClients
    BY <1>8 DEF FrameClients
  <2>2. CASE ReadClock \/ SetClock \/ CompareClock
    BY <1>1, <1>2, <1>3, <1>8, <2>1, <2>2, ClockStepWell DEF WellInv
  <2>3. CASE Tick
    BY <1>2, <1>3, <1>4, <1>8, <2>1, <2>3 DEF WellInv, Tick, ClockWell
  <2>4. CASE (Call \/ Return) /\ UNCHANGED rtc
    BY <1>2, <1>3, <1>8, <2>1, <2>4, MainKeepsWell DEF WellInv, ClockWell, rtc
  <2>5. CASE UNCHANGED <<run, rtc>>
    BY <1>2, <1>3, <1>4, <1>8, <2>1, <2>5 DEF WellInv, ClockWell, rtc
  <2>6. QED
    BY <1>1, <1>8, <2>2, <2>3, <2>4, <2>5, StepsOfClock
<1>9. CASE client = "display"
  <2>1. client \notin FrameClients
    BY <1>9 DEF FrameClients
  <2>2. CASE DisplayStep
    BY <1>1, <1>2, <1>3, <1>9, <2>1, <2>2, DisplayWell DEF WellInv
  <2>3. CASE PressKey
    BY <1>2, <1>3, <1>4, <1>9, <2>1, <2>3 DEF WellInv, PressKey, OptionsWell
  <2>4. CASE (Call \/ Return) /\ UNCHANGED display
    BY <1>2, <1>3, <1>9, <2>1, <2>4, MainKeepsWell DEF WellInv, OptionsWell, display
  <2>5. CASE UNCHANGED <<run, display>>
    BY <1>2, <1>3, <1>4, <1>9, <2>1, <2>5 DEF WellInv, OptionsWell, display
  <2>6. CASE ResetOver /\ UNCHANGED run
    BY <1>2, <1>3, <1>4, <1>9, <2>1, <2>6 DEF WellInv, ResetOver, OptionsWell
  <2>7. QED
    BY <1>1, <1>9, <2>2, <2>3, <2>4, <2>5, <2>6, StepsOfDisplay
<1>10. CASE client \notin Modelled
  <2>1. client \notin {"ethernet", "fio_monitor", "rtc", "display"} \cup FrameClients
    BY <1>10 DEF Modelled
  <2>2. Call \/ Return \/ UNCHANGED run
    BY <1>1, <1>10, OthersCountNothing
  <2>3. QED
    BY <1>2, <1>3, <1>4, <2>1, <2>2, MainKeepsWell DEF WellInv
<1>11. QED
  BY <1>2, <1>5, <1>6, <1>7, <1>8, <1>9, <1>10 DEF Modelled

LEMMA WellInvHolds ==
  ASSUME AnswersFit
  PROVE  Spec => []WellInv
<1>1. Init => WellInv /\ RunTypes /\ OptionsTyped
  <2>1. SUFFICES ASSUME Init PROVE WellInv
    BY InitTypes DEF TypeOK
  <2>2. Well /\ EthWell /\ FrameWell /\ FioWell /\ ClockWell /\ OptionsWell
    BY <2>1 DEF Init, RunInit, EthInit, FrameInit, FioInit, PowerInit, DisplayInit, Well, EthWell,
         FrameWell, FioWell, ClockWell, OptionsWell
  <2>3. QED
    BY <2>2 DEF WellInv
<1>2. WellInv /\ TypeOK /\ OptionsTyped /\ TableInv /\ FrameInv /\ FioInv /\ [Next]_vars => WellInv' /\ OptionsTyped'
  BY WellStep, DisplayTypesStep DEF TypeOK
<1>3. QED
  BY <1>1, <1>2, TypeOKHolds, TableInvHolds, FrameInvHolds, FioInvHolds, PTL DEF Spec

\* When the environment does nothing wrong and nobody interrupts, every test of the links
\* but powerdown, which fails when the power comes back, says PASSED each time it says
\* something (FitLinks).
THEOREM FaultFreePassesHolds ==
  ASSUME AnswersFit
  PROVE  Spec => []FaultFreePasses
<1>1. WellInv => FaultFreePasses
  BY DEF WellInv, FaultFreePasses, Calm, Well
<1>2. QED
  BY <1>1, WellInvHolds, PTL
===============================================================================
