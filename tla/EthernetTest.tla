----------------------------- MODULE EthernetTest -----------------------------
(****************************************************************************)
(* The ethernet test (src/ethernetFit.c).  It sets up an alias of eth0 and  *)
(* one of eth1, and for each of them forks a ping and a process that        *)
(* sleeps: whichever wait returns first decides.  A child is known by its   *)
(* pid only, and a dead one stays until a wait collects it.                 *)
(****************************************************************************)
EXTENDS FitRun, SequencesExt

CONSTANT Pids        \* bound: how many children there may be at a time

ASSUME EthernetAssumption ==
  /\ Pids \subseteq Nat \ {0} /\ \E p, q \in Pids : p # q
  /\ "ethernet" \in Clients => "ethernet" \in OwnCounters

VARIABLES
  proc,              \* what runs under a pid: ping, timer, a copy of fit, dead, or nothing
  pingPid, timeoutPid,
  ethAt, host,       \* where ethernetFit and its ping are, and for which interface
  broken,            \* wait is about to return EINTR
  answered,          \* the hosts that answered in the last call that got to its pings
  alias, base,       \* the interfaces whose alias, or which themselves, are up
  slots,             \* if_uped_name
  baseFound          \* what was up before the test

children == <<proc, pingPid, timeoutPid, ethAt, host, broken, answered>>
interfaces == <<alias, base, slots, baseFound>>
network == <<children, interfaces>>

Ifs == 1..2
MaxSlots == 2
Dead == {p \in Pids : proc[p] = "dead"}
Free == {p \in Pids : proc[p] = "free"}

EthInit ==
  /\ proc = [p \in Pids |-> "free"] /\ pingPid = 0 /\ timeoutPid = 0
  /\ ethAt = "start" /\ host = 1 /\ broken = FALSE /\ answered = {}
  /\ alias = {} /\ slots = <<>>
  /\ base \in (IF client = "ethernet" THEN SUBSET Ifs ELSE {{}}) /\ baseFound = base

------------------------------------------------------------------------------
EthIn(where) == at = "client" /\ client = "ethernet" /\ ethAt = where

EthGo(S, where) == Update(S) /\ ethAt' = where /\ UNCHANGED <<chosen, loop, verdict>>

\* ethernetFit returns without ftComplete: nothing is printed.
LeaveUnreported(S) ==
  /\ Update(S)
  /\ at' = "returned" /\ ethAt' = "start"
  /\ UNCHANGED <<chosen, iter, keepGoing, signals, calls, verdict>>

\* setInterfaceInfo of one alias and of the other, up to where an ioctl fails.
PartlySet == {alias \cup done : done \in {{}, {1}, Ifs}}

\* What if_isUp does not find up and running: what is down and, where a cable may be
\* out, any part of what is up besides.
NotRunning ==
  {down \in SUBSET Ifs : Ifs \ base \subseteq down /\ (down = Ifs \ base \/ "cable" \in faults)}

\* What if_setUp raises of it: what was up stays up, and has its name recorded as well.
CanRaise ==
  {up \in SUBSET Ifs : \E down \in NotRunning :
     up = down \/ ("ioctl" \in faults /\ up \subseteq down)}

\* The name of an interface that has been raised is kept while there is room.
Recorded(list, i, up) == IF i \in up /\ Len(list) < MaxSlots THEN Append(list, i) ELSE list

Configure ==
  /\ EthIn("start")
  /\ \/ \E up \in CanRaise :
          /\ alias' = Ifs /\ base' = base \cup up
          /\ slots' = Recorded(Recorded(slots, 1, up), 2, up)
          /\ answered' = {} /\ host' = 1 /\ EthGo({}, "ping")
     \/ /\ "ioctl" \in faults /\ alias' \in PartlySet
        /\ LeaveUnreported({"ftError"})
        /\ UNCHANGED <<base, slots, host, answered>>
     \/ /\ "file" \in faults /\ Complete({})
        /\ UNCHANGED <<ethAt, alias, base, slots, host, answered>>
  /\ UNCHANGED <<proc, pingPid, timeoutPid, broken, baseFound>>

\* ping returns: on to the next host, or to the end of the test.
Following == IF host = 1 THEN "ping" ELSE "down"
\* Mutant: the second call is not the last.
NextHostCounted(S) == EthGo(S, Following) /\ host' = host + 1
NextHost(S) == EthGo(S, Following) /\ host' = 2

\* A fork fails for want of a pid, or otherwise; which pid it finds does not matter.
ForkFails == Free = {} \/ "fork" \in faults
NewPid == CHOOSE p \in Free : TRUE
Fork(kind) == Free # {} /\ proc' = [proc EXCEPT ![NewPid] = kind]

\* Where there is no ping to execute, the child returns from ping into the program.
ForkPing ==
  /\ EthIn("ping")
  /\ \/ /\ Fork(IF "exec" \in faults THEN "copy" ELSE "ping") /\ pingPid' = NewPid
        /\ EthGo({}, "timer") /\ UNCHANGED host
     \/ ForkFails /\ NextHost({"ftError"}) /\ UNCHANGED <<proc, pingPid>>
  /\ UNCHANGED <<timeoutPid, broken, answered, interfaces>>

ForkTimer ==
  /\ EthIn("timer")
  /\ \/ /\ Fork("timer") /\ timeoutPid' = NewPid
        /\ EthGo({}, "wait") /\ UNCHANGED host
     \/ ForkFails /\ NextHost({"ftError"}) /\ UNCHANGED <<proc, timeoutPid>>
  /\ UNCHANGED <<pingPid, broken, answered, interfaces>>

------------------------------------------------------------------------------
(* wait.                                                                    *)

Living(p) == proc[p] \notin {"free", "dead"}

\* The child p is collected and those of K are killed.
Collected(p, K) ==
  proc' = [q \in Pids |-> IF q = p THEN "free" ELSE IF q \in K /\ Living(q) THEN "dead" ELSE proc[q]]

\* What wait returns: a dead child, or 0 for none when a signal interrupts it.
Returned(p) ==
  \/ ~broken /\ p \in Dead /\ UNCHANGED broken
  \/ broken /\ p = 0 /\ broken' = FALSE

\* Mutants: after a time-out the ping is left alone; the time-out is only returned.
TimeoutUnkilled(p) == Collected(p, {}) /\ EthGo({"ftError"}, "collect")
TimeoutUncounted(p) == Collected(p, {pingPid}) /\ EthGo({}, "collect")
Timeout(p) == Collected(p, {pingPid}) /\ EthGo({"ftError"}, "collect")

\* The status of the child is not looked at.
Wait ==
  /\ EthIn("wait")
  /\ \E p \in Pids \cup {0} :
       /\ Returned(p)
       /\ \/ p = timeoutPid /\ Timeout(p)
          \/ p = pingPid /\ Collected(p, {timeoutPid}) /\ EthGo({"ftPass"}, "collect")
          \/ /\ p \notin {pingPid, timeoutPid}
             /\ Collected(p, {pingPid, timeoutPid}) /\ EthGo({"ftError"}, "collectBoth")
  /\ UNCHANGED <<pingPid, timeoutPid, host, answered, interfaces>>

\* A wait whose result is not looked at.
Reap == \E p \in Pids \cup {0} : Returned(p) /\ Collected(p, {})

CollectBoth ==
  /\ EthIn("collectBoth")
  /\ Reap /\ EthGo({}, "collect")
  /\ UNCHANGED <<pingPid, timeoutPid, host, answered, interfaces>>

\* Mutant: the dying process is not collected.
CollectNone ==
  /\ EthIn("collect")
  /\ NextHost({})
  /\ UNCHANGED <<proc, broken, pingPid, timeoutPid, answered, interfaces>>
Collect ==
  /\ EthIn("collect")
  /\ Reap /\ NextHost({})
  /\ UNCHANGED <<pingPid, timeoutPid, answered, interfaces>>

\* SIGINT while wait blocks.
BreakWait ==
  /\ at = "client" /\ ethAt \in {"wait", "collect", "collectBoth"} /\ Dead = {}
  /\ broken' = TRUE
  /\ UNCHANGED <<proc, pingPid, timeoutPid, ethAt, host, answered, interfaces>>

------------------------------------------------------------------------------
\* Mutant: only the first name is looked at.
RaisedFirst == {slots[i] : i \in DOMAIN slots \cap {1}}
Raised == {slots[i] : i \in DOMAIN slots}

\* What if_down leaves up of a set, and errors are not counted.
LeftUp(S) == IF "ioctl" \in faults THEN SUBSET S ELSE {{}}

\* The aliases, if_setDown, and the verdict.
Down ==
  /\ EthIn("down")
  /\ alias' \in LeftUp(alias)
  /\ \E left \in LeftUp(Raised) : base' = base \ (Raised \ left)
  /\ Complete({}) /\ ethAt' = "start"
  /\ UNCHANGED <<proc, pingPid, timeoutPid, host, broken, answered, slots, baseFound>>

EthernetStep ==
  Configure \/ ForkPing \/ ForkTimer \/ Wait \/ CollectBoth \/ Collect \/ Down

------------------------------------------------------------------------------
(* The children.                                                            *)

\* ping -c1 ends with an answer, because the host is reported unreachable, or by the
\* SIGINT of the terminal, which its children get too.
PingEnds(p) ==
  /\ proc[p] = "ping"
  /\ proc' = [proc EXCEPT ![p] = "dead"]
  /\ \/ answered' = answered \cup (IF p = pingPid THEN {host} ELSE {})
     \/ (faults \cap {"noreply", "cable"} # {} \/ signals > 0) /\ UNCHANGED answered
  /\ UNCHANGED <<run, pingPid, timeoutPid, ethAt, host, broken, interfaces>>

\* The time is over before an answer; or a SIGINT ends the sleep.
TimerEnds(p) ==
  /\ proc[p] = "timer"
  /\ "slow" \in faults \/ signals > 0
  /\ proc' = [proc EXCEPT ![p] = "dead"]
  /\ UNCHANGED <<run, pingPid, timeoutPid, ethAt, host, broken, answered, interfaces>>

\* The copy of the program goes through the rest of the run, over the same interfaces.
CopyActs(p) ==
  /\ proc[p] = "copy"
  /\ alias' \in SUBSET Ifs
  /\ base' \in SUBSET Ifs /\ (baseFound \subseteq base' \/ "cable" \in faults)
  /\ UNCHANGED <<run, children, slots, baseFound>>
CopyEnds(p) ==
  /\ proc[p] = "copy"
  /\ proc' = [proc EXCEPT ![p] = "dead"]
  /\ UNCHANGED <<run, pingPid, timeoutPid, ethAt, host, broken, answered, interfaces>>

ChildStep == \E p \in Pids : PingEnds(p) \/ TimerEnds(p) \/ CopyActs(p) \/ CopyEnds(p)

------------------------------------------------------------------------------
\* A timer runs out; a ping ends unless answers may be missing for good.
Answering(p) == "slow" \notin faults /\ PingEnds(p)

EthTypes ==
  /\ proc \in [Pids -> {"free", "ping", "timer", "copy", "dead"}]
  /\ pingPid \in Pids \cup {0} /\ timeoutPid \in Pids \cup {0}
  /\ ethAt \in {"start", "ping", "timer", "wait", "collect", "collectBoth", "down"}
  /\ host \in Ifs /\ broken \in BOOLEAN /\ answered \in SUBSET Ifs
  /\ alias \in SUBSET Ifs /\ base \in SUBSET Ifs /\ baseFound \in SUBSET Ifs
  /\ slots \in Seq(Ifs) /\ Len(slots) <= MaxSlots

\* "Test both /dev/eth0 and /dev/eth1 using ping messages".
\* Where there is a ping to execute, no host is reported unreachable, no cable is out and
\* the user does not interrupt, a PASSED means that both hosts have answered: no late death of a
\* child, of this call of ping or of one before, is taken for an answer.
PassedMeansReplied ==
  (client = "ethernet" /\ verdict = "PASSED" /\ at # "client"
     /\ faults \cap {"exec", "noreply", "cable"} = {} /\ signals = 0) => answered = Ifs

\* Every child has been collected when the test returns, whichever died first; where
\* a fork fails or a signal ends a wait, one may stay.
NoChildLeft ==
  (at # "client" /\ signals = 0 /\ "fork" \notin faults) => \A p \in Pids : proc[p] = "free"

\* "And conditionally ifdown any other interfaces we had to bring up": the aliases are
\* gone and nothing that was down before the test is left up, after any number of
\* iterations and also after those of a copy of the program.  What was up stays up as
\* long as its cable is in: without a carrier if_isUp does not tell it from one that is
\* down, and the test takes it down.
NetworkRestored ==
  (at # "client" /\ "ioctl" \notin faults) =>
    alias = {} /\ base \subseteq baseFound /\ ("cable" \notin faults => base = baseFound)
===============================================================================
