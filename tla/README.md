# M-Fit in TLA+

TLA+ models of M-Fit, the functional integrity tests for ATC controllers in `src/`, with the
TLC configurations that check them and TLAPS proofs. Source files are named
relative to `src/src/`.

M-Fit is one program, `fit`, that contains a dozen tests. `main` (fit.c) finds the test by
name, calls it as often as option `-I` says, and stops after an iteration when SIGINT has
cleared `keepGoing`. A test reports statuses to `ftUpdateTestStatus`, which counts them;
the status `ftComplete` prints the verdict. What a user relies on is that verdict: that
PASSED was earned, that a run ends, and that a test that calls itself non-destructive was.
Most properties here are about one of these three.

## The system

| component | source | state | operations | what is hard, and what makes it correct |
|---|---|---|---|---|
| framework | fit.c | `argv`, `keepGoing`, `iter`, counters (`ftResults_t`) | options, `compactArgv`, run loop, SIGINT handler, `ftUpdateTestStatus` | one argument list for two programs' options; most tests have counters of their own that `main` never clears; a signal at any moment. The test sees its own arguments, the iterations asked for are run, an interrupted run ends |
| serial, before its threads | serialFit.c | options, `spDatDat`, rate tables | `spConfigDat`, `calculateTimeout` | `fscanf` knows no lines; int32 products; two tables per cable that must agree. The schedule is what the file says |
| serial, its threads | serialFit.c/.h | semaphores, two state words per test, threads | monitor, reader and writer threads, rendezvous of the readers | state words polled and written without a lock; semaphores posted and waited for in several orders; early exits. Sweeps are barriers, both directions of a cable change rate together, no frame uncounted, the run ends |
| serial_port, serial_echo | serialPortFit.c, serialEchoFit.c | two descriptors, counters | one frame there (and back), time-out, retry | late frames look like those awaited; options seen in the first iteration only; a lost frame fails the test |
| ethernet | ethernetFit.c | aliases, `if_uped_name`, child processes | interfaces up and down, ping against a timer | which child dies first; signals that end `wait`; failed `fork` and `exec`. No time-out taken for an answer, nothing left behind |
| datakey, eeprom, memory | datakeyFit.c, eepromFit.c, memoryFit.c | the device, the saved copy, a buffer | save, overwrite, compare, restore | any call may fail between overwriting and restoring; a PASSED has restored |
| the header of eeprom | eepromFit.c, eepromFit.h | the copy, the file of `-l` and `-s` | initialize, default, load, edit, save | 28 prompts in an order that the CRCs depend on; short files; sizes that wrap in 16 bits |
| filesystem, sd, usb | fsFit.c | files in a list of directories | append, read back, compare, remove | early returns leave files to which the next iteration appends; one result for many directories |
| fio_monitor | fioMonitorFit.c | a serial port, the receive buffer | ask for the type, ask for the inputs | an answer is so many bytes and does not say what it answers; the port is never flushed, the buffer outlives the call |
| display | displayFit.c, displayLib.c | a terminal and its modes, descriptors | options, screens, keypad | tests in sequence that each switch modes on and off; keys that come together; descriptors never closed |
| powerdown | powerdownFit.c | one device | a blocking read of events | a signal ends `read`; events that wait |
| rtc | rtcFit.c | one device | read, set, sleep, read | any call may fail, and the signal ends the sleep |
| tod | todFit.c | none | none | compiled out of the table of tests |

The framework calls a test; a test calls back only `ftUpdateTestStatus` and `fitPrint`. The
tests share nothing but `keepGoing` and the devices: two of them never run in one process.
Concurrency is inside serial (threads), ethernet (processes), and between any test and
SIGINT or what it waits for. `PROJECT.json` lists the hazards line by line with the property
that watches each.

## Modules

| module | models | state and actions |
|---|---|---|
| SerialTest | serialFit.c: monitor, readers, writers | one program counter per thread (`mpc`, `rpc`, `wpc`); semaphores as counters; a step is one access to shared data with the thread-local work after it. `Park`..`PostMon` are `serialPort_r`, `Ready`..`Count` are `serialPort_w`, `PostReader`..`JoinReader` are `serialFit` after its options |
| SerialSweep | what serialFit promises: sweeps are barriers | `phase` of each test, `Start`, `Finish`, `EndSweep`; SerialTest implements it under `ImplementsSweep` |
| FitArgs | fit.c: options of `main`, `compactArgv` | `argv` as a C array with NULLs; `Scan` is a turn of the loop over `getopt`, `Compact` a call of `compactArgv`; `OnePass` says in closed form what its loop of swaps does, which MCSerialConfig compares with the loop for up to four arguments |
| SerialConfig | serialFit.c: options, `spConfigDat`, rates, locks, `calculateTimeout` | the words of a file not yet read and the table of entries; `Options`, `ReadRecord`, `EndOfFile` |
| FitRun | fit.c: the run loop, counters, verdicts, SIGINT | `Call`, `Return`, `Interrupt`; `Update`, `Complete` for the tests |
| DeviceTest | datakey, eeprom, memory | `Script` is the order of the calls; one action per kind of call; a device is a function from cells to contents |
| FsTest | filesystem, sd, usb | per directory what a read of one block would get: none, short, intact, corrupt; `ReadBack` ignores what `unlink` returns, as the code does |
| Fit | FitRun with DeviceTest and FsTest | `Progress` is the process, `Next` adds the user |
| EepromHeader | eepromFit.c: `eeHdrOps` | the header in the device, the copy and the file as functions from members to values; one action per operation and per answer to a prompt |
| EthernetTest | ethernetFit.c | a table of processes by pid; `ForkPing`, `ForkTimer`, `Wait`, `Collect`; the children's `PingEnds`, `TimerEnds`, `CopyEnds`; `NotRunning` is what `if_isUp` does not find up and running, which with a cable out is more than what is down |
| FrameTest | serialPortFit.c, serialEchoFit.c | the pieces of frames on the line and those owed; `OpenPorts`, `WriteFrame`, `Receive`, `ReceiveNothing` |
| FioTest | fioMonitorFit.c | the bytes in the port and those on their way, each by its kind; `AskType`, `FioReceive`, `TakeType`, `TakeInputs`, `ReportInputs` |
| PowerTest | powerdownFit.c, rtcFit.c | the power, the events not yet read, whether the clock ticked; `ReadEvent`, `ReadBroken`, `ReadClock`, `SetClock`, `CompareClock` |
| DisplayTest | displayFit.c, displayLib.c | the options not yet seen, the set of steps to go (`Steps` is their order), the modes of the screen; `ParseDisplayOptions`, `InitPort`, `ShowModes`, `ReadKey`; `ResetDisplay` reads the answer to a reset without a time-out, `ResetOver` is that read's end, by an answer (`LateAnswer`) or a SIGINT (`BreakReset`) |
| FitLinks | FitRun with EthernetTest, FrameTest, FioTest, PowerTest, DisplayTest | as Fit; `Beside` is the world outside the process, `Break` what a SIGINT breaks |
| SerialTestProofs, RateProofs, CountProofs, SerialConfigProofs, FitProofs, EepromProofs, FitLinksProofs, EthernetProofs | | theorems: three on SerialTest, each of which extends the one before; one each on SerialConfig, Fit, EepromHeader; two on FitLinks, of which FitLinksProofs takes its tests one by one and EthernetProofs ethernet and all of them together |
| MCSerialLoop, MCSerialPair, MCSerialConfig, MCFit, MCEepromHeader, MCLinks | | constants for TLC |

SerialTest, SerialConfig and the rest meet in their constants: SerialConfig decides what
SerialTest takes as `DevR`, `DevW`, `RatesRun`, `MinFrame` and `MaxFrame`, and its properties
are the assumptions of SerialTest. EepromHeader has in detail what is one step, `Header`, in
DeviceTest; no refinement relates the two, whose states are told apart by other things.

What the device, the line or the kernel may do wrong is a set of fault names, `Faults` or
`faults`; what the user does (options, SIGINT) is a choice as well. A fault that is absent
does not happen, one that is present may happen at every step where the code can meet it.

Abstractions, all of data: a counter in FitRun is zero or not, as far as the verdict looks;
a frame is its size (SerialTest) or a number of pieces (FrameTest), as the code sends the
same byte throughout; a byte from the field I/O module is of a header, a type or an input;
the contents of a device are told apart by cell, and reading returns what is stored; a CRC
is the contents it was generated from; a text is a number, numbers keep their width; option
letters of eeprom are a set. An operator marked "Mutant" in a comment is not part of a
model: it is a slip that the property named with it in `PROJECT.json` has to notice.

## Runs

| run | instance | what it shows |
|---|---|---|
| serial_loop | one looped-back port, two rates of which one is skipped, frames of one and two bytes, every receiver `-x 0..3`, `-q`, two monitor loops, every fault, one SIGINT, any interleaving | `FrameConservation`: a frame the reader asked for is never lost between the two threads. `PassedMeansAllFrames`: no failure is lost before the verdict. `Terminates` |
| serial_pair | two ports, both directions at once, two rates, two sweeps, no faults, a SIGINT, under `PromptRendezvous` | `Barrier`, `RateAgreement`, `GrantFindsSleeper`, `NeverBothAsleep`, `FaultFreePasses`, and the refinement `ImplementsSweep` with its liveness |
| serial_pair_any | the same cable, one rate, ports that fail to open, any interleaving | `FrameConservation`; `Terminates` although readers may sleep for ever, as `waitAndUnblock` gives up on them |
| serial_config | command lines of up to five phrases in every order, clustered options, seven files | `NoHoles`, `TestGetsItsOwn`: fit and the test each get their arguments. `ScheduledAsWritten`, `RatesAlike`, `LockShared`, `SweepFits`: what SerialTest takes for granted. `SmallTimeoutsEnough` |
| fit_tests | five tests; -I 2, 1, 0 and -1; two cells, two directories; no faults, all but short files and failed removals, or removals that fail on a medium that does not keep what it is given; a SIGINT | `PassedMeansRestored`, `PassedMeansRemoved`, `FaultFreePasses`, `IterationsRun`, `InterruptEnds` |
| eeprom_header | two calls of eeprom with three sets of operations; two members expanded; a file that may be cut short | `OnePassSuffices`, `SafeSizes`, `OnlyNamed` |
| links | the seven other tests; -I as above; five sets of faults, cables that are out in one of them; three pids; one or two frames in two pieces; three types of field I/O module; two keys; six sets of options of display; a SIGINT | `PassedMeansReplied`, `NoChildLeft`, `NetworkRestored`; `PassedMeansReceived`; `PassedMeansIdentified`, `MonitorReceived`; `PassedMeansDown`; `AskedTestsRun`, `ScreenQuiet`; `FaultFreePasses`, `CallReturns` for all |
| both_asleep, quick_fail_hangs, half_loaded, comment_swallows, timeout_overflow | the smallest instance that shows it | the findings below: TLC finds a behaviour of the code that breaks what a comment or usage text says |

Why these bounds are enough. Serial: the protocol is pairwise, a reader with its writer and a
reader with the one reader of the other direction, and the monitor treats its entries alike
one by one; two rates are the first and a next one, two sweeps likewise. Further pairs share
nothing but the monitor. serial_config: `main` and the test treat their options one by one and look at a
neighbour at most, so what an order or a cluster can do shows with two or three; the files
have each kind of line (comments, a line repeated, ports that are not in the table, sizes
at and beyond the limits) and one has all cables. Twenty `-F` reach `MAX_RECURS_DEPTH`, of
which `compactArgv` gives up. Fit: two cells tell whole contents from partly written ones;
two directories are a last and a not-last one; what passes from an iteration to the next passes
from the first to the second, and an endless run (`-I 0`) has no bound on its iterations at
all, only its count of calls stops at `MaxCalls`. eeprom_header: the second call finds what
the first left in device and file; two members (`MaxExpanded`) are one of each CRC or two of
one; calls are bounded by `MaxRuns`, which is why the run does not look for deadlocks. Links:
a call of `ping` has two children, the third pid is for one that an earlier call left; two
pieces make a frame that can come in part; modules 1, 3 and 5 have the short, the long and no
inputs, and sizes of 1, 3 and 5 bytes keep the order of the 3, 15 and 22 of the code; two
events (`MaxEvents`) are a power-down and its restoration, two bytes of backlog
(`MaxBacklog`) an answer that was not read; the third file (`MaxFiles`) is one too many for
an endless run. One SIGINT does what later ones do again. The theorems are for all values.

Fairness. Serial: weak fairness of every thread, as the kernel's scheduler gives; the
semaphores need no more, as each has one waiter at a time. Fit: weak fairness of the process.
Links: weak fairness of the process and of each child that can end: a ping ends unless the
environment is "slow", in which its timer does. The module answers unless it is "slow", the
clock ticks unless it is "stuck", the power that went comes back, and the user of an
attended test presses keys and switches off; of the keys, strong fairness says that not
every one is of those the test does not know. The user owes no SIGINT, and faults nothing.
`CallReturns` leaves out what never ends in the code either: a keypad test without a port,
and a tabs test whose display does not answer the reset, which only a SIGINT gets on.

`PromptRendezvous` is an assumption about the scheduler, not the code: a reader is
not preempted between looking at the other's state word and sleeping, and one that is woken
runs before the other goes a step further. The serial test relies on it: without it both
readers may sleep (both_asleep), and a reader may be posted twice (serialFit.c:2471). Runs
that need it set it, the others do not; no theorem assumes it. `WholeWaits` in
`Barrier` says that no wait of the monitor is cut short: a SIGINT ends `sem_wait` in the
monitor, whose result is not looked at (serialFit.c:3197), so the test in progress is taken
for complete and cancelled.

## Findings

- **both_asleep** serialFit.c:2454. A reader tests whether the other is asleep and then says
  that it is going to sleep, without a lock: both can sleep, with nobody to wake them.
- **quick_fail_hangs** serialFit.c:2573. With `-q` a reader that leaves after a failure never
  wakes its partner at the next rate.
- **half_loaded** eepromFit.c:2110. A short header file is read over half of the saved image,
  which is then written to the EEPROM, and the test passes.
- **comment_swallows** serialFit.c:2844. `fscanf` knows no lines: the words of a comment are
  read as records, and an odd one takes the first port of the next line with it.
- **timeout_overflow** serialFit.c:1843. The time for a frame of more than 214 bytes is
  computed in 32 bits that do not hold it, and is shorter than the frame takes, or negative.

What the models have and no run of its own shows:

- fsFit.c:227: the result of each directory replaces the one before, so that a corrupt file
  is only noticed in the last one.
- fsFit.c:235: the result of `unlink` is not looked at, so that a fitFile may be left behind by
  a test that passes. `PassedMeansRemoved` excludes it (the fault "unlink").
- ethernetFit.c:526: a ping that ends is taken for an answer; it also ends when the host is
  unreachable and when there is no ping to execute. `PassedMeansReplied` excludes both.
- ethernetFit.c:334: `if_isUp` wants IFF_UP and IFF_RUNNING, so that an interface that is up
  without a carrier is raised, recorded as raised (399-401) and taken down by `if_setDown`
  (463-470), although the comment at 898 speaks of interfaces "we had to bring up".
  `NetworkRestored` says of what was up that it stays up only where cables are in.
- serialEchoFit.c:272: from the second iteration of `-I` on the options are not seen any more
  (`getopt` is not reset), and default ports are tested in place of those of the file.
- displayFit.c:207 and 414: `initPort` returns a positive `errno`, and a display that cannot
  be opened passes; its descriptor is never closed; the branch for a keypad error
  (838-841) cannot be reached.
- displayLib.c:235: `resetDisplay`, with which the tabs test begins (displayFit.c:698), reads
  the display's answer without a time-out; a display that does not answer hangs the test.
- serialFit.c:2471: a reader that was posted still shows that it waits until it runs again, and
  may be posted again, whereupon the two ends of the cable lose each other.
- fioMonitorFit.c: byte 17 of the buffer, the monitor register, lies beyond the 15 bytes of
  a 2070-2 and is not asked of types 4 to 6; it is reported all the same.
- eepromFit.c: `setCom_drop` stores into `contr_id` (1842); the recommended size of 203 makes
  `setUser_data` copy some 64000 bytes (1894); `setPorts` stores 2 whatever is asked; October
  is stored as BCD 0x16; `setEthdev` judges the new type by the old one; a version is judged
  by its first digit; the file of `-s` is opened without O_TRUNC.
- fit.c: in a cluster like `-FV`, or with `-I5`, `main` puts NULL over an argument that is
  not its own. `TestGetsItsOwn` is stated for options typed one by one.

## Theorems

Each holds for every value of the constants that satisfies the assumptions of the modules.

SerialTestProofs, of `Spec` of SerialTest:
- `TypeCorrect`. `TypeOK` is strengthened by `FrameSized`: a reader that is receiving has
  been given a frame of positive size, without which taking it off the wire has no type.
- `BarrierHolds`. `Barrier` is not inductive: `BarrierInv` adds that each test owes the
  monitor exactly one post (`Owed`), on `mp` or by a reader that has been started and not
  finished (`AtWork`), so that the monitor, past its waits, finds nobody at work.
- `SweepImplemented`: every step is one of SerialSweep or a stutter, assuming that the
  monitor polls, or blocks and there is no signal (`AlwaysWhole`). `BarrierInv` places every post
  (`PhaseOfPosts`), from which each step's effect on `Phase` follows.
- `FramesConserved`. `FrameInv` adds what the reader knows of its writer at each place, and
  that the writer is cancelled before the reader (`WriterCancelledFirst`).

RateProofs, of `Spec` of SerialTest, for the two directions of a cable.
- `RateAgreementHolds`, in every interleaving up to the first post of a lock that does not find
  a sleeper (`Spec /\ []GrantFindsSleeper => []RateAgreement`; a behaviour may stutter for
  ever, so that this speaks of every beginning of one in which all posts so far found theirs).
  It says that the double post is the only way in which the ends lose each other. It assumes
  that no wait of the monitor is cut short (`AlwaysWhole`) and that both directions of a cable
  have the same rates (`PairsAlike`, which for what serialFit makes of a configuration is
  `RatesAlike` of SerialConfig). `LockedInv` says that a reader's word says it waits only while
  it does (`WordInv`) and that a post of the lock is one and is for a reader that waits
  (`LockInv`). `Where` tells from its place whether a reader is before or after the
  rendezvous of its rate, through with the sweep or not in it. `PairInv` says how the places
  and rates of the two ends fit: past the same rendezvous, or one past it and the other on
  its way to the next that is run, or both on their way to the same. It is a fact about
  numbers that no step of one reader breaks this (`PairMoves`), and every step is of that
  kind (`ReaderMoved`) but the one that wakes the other, which moves both (`GrantWakes`).

CountProofs, of `Spec` of SerialTest:
- `PassedMeansAllFramesHolds`, assuming that the failure of every open is counted
  (`OpensCounted`): the receiver of a cable that cannot be opened leaves without counting it
  (serialFit.c:2310), so that a cable's ports must open, and a loopback's need not.
  `CountInv` says how many frames a reader has counted as long as nothing failed: those of the
  sweeps before, and of this one a number that its place in the three nested loops gives
  (`InSweep`). `EndInv` says that a verdict comes when all threads are gone.
- `FaultFreePassesHolds`. `GoodInv` says where the frame is that a reader waits for: a post
  of `mp_w`, with the writer, or whole on the wire (`Handed`), and that the writer has
  counted as many frames as the reader but for that one (`Balanced`). It assumes that some
  rate of some test is not skipped (`SomethingRuns`), as a sweep of nothing has nothing to
  report, and holds in the behaviours in which every post of a lock finds its sleeper.
- `LoopbacksPassHolds`: where no two tests share a cable there is no such post, and
  `FaultFreePasses` holds in every interleaving.

SerialConfigProofs, of `Spec` of SerialConfig, with the arguments of FitArgs beside it:
- `LockSharedHolds`. `TableInv` says that what is scheduled is an entry of the table, and the
  lock of a cable is its lower port from either end (`LockOfBothWays`).
- `RatesAlikeHolds`, from `TableInv` and the tables of rates: two ports of one kind have the
  same rates, in ascending order, and skip the same.
- `SmallTimeoutsEnoughHolds`: the products of `calculateTimeout` modulo 2^32, for all 214
  sizes, 11 rates and multipliers from 1 to the default of 1000.
- `NoHolesHolds`. `ArgvInv` says that from `argc` on there is only NULL, which the swaps of
  `compactArgv` keep.
- `TestGetsItsOwnHolds`. `ScanInv` says how far `main` has come: before phrase `k` every word
  of an option of fit is NULL and its letter is in `own`, from there on `argv` is as typed
  (`ScanAt`, with the word `j` inside a phrase of the test and letters left of a cluster).
  `CompactInv` says that `argv` without its NULLs does not change while `compactArgv` closes
  the gaps: a pass drops the first NULL and nothing else (`Dense`).
- `ScheduledAsWrittenHolds`. `SchedInv` says that between two options of serialFit the table
  is what the lines of the files named before them say (`OptAt`; inside a cluster too), and
  inside a file what its first `m` lines say besides (`ReadAt`): what is left of the words is
  the rest of the lines, or an even number of words of a comment before it, which go two by
  two (`Skippable`). It rests on `TestGetsItsOwn`, which says which arguments serialFit sees.
- `SweepFitsHolds`, from `SchedInv`: what is scheduled is a line (`OrderlyFits`).

The last three hold for phrases, files and lines of any number and length. What they assume
of the constants describes input and is checked by TLC on the instances. `ArgsAssumption`:
arguments are words, and a dashed one has a letter. `PhrasesAssumption`: a phrase is an
option of fit with its value or an argument of the test, in which no word is one of fit's;
`fit serial -c -F` would be the user's mistake, as `main` takes every `-F` it sees.
`OptionsAssumption`: an option that takes a value is followed by one, unless it is the last;
otherwise what follows is a value for serialFit and another option for the user.
`FilesAssumption`: a line is a comment or five words, a receiver, a transmitter and three
numbers, as usage describes it. The model splits a dashed word into its letters, `%u` takes
the sign alone: a dashed word of a comment therefore has one letter, and no number, which
`%u` would read with its sign. `InStep`, a premise and no assumption, leaves out the comments
that shift the words of the next record (comment_swallows). `SweepFits` has this premise too:
of a file whose comments shift its records nothing is known, not even that sizes are in
order, as the proof showed; the files of the run happen to keep step.

FitProofs, of `Spec` of Fit:
- `FitTypeCorrect`: in particular no script runs past its end.
- `IterationsRunHolds`: `LoopInv` relates `iter`, `calls` and `asked` (`Counted`).
- `PassedMeansRestoredHolds`, assuming that the tests with a script have counters of their
  own and that no header file is short (`ScriptsOwn`, `WholeFiles`; half_loaded shows that
  the second cannot be dropped, the mutant of `Call` that the first cannot). The lemmas
  `DatakeyPlaces`, `EepromPlaces`, `MemoryPlaces` say where the calls stand in the scripts.
  `RestoreInv` relates device, copy and buffer at each place as long as no failure was
  counted (`Kept`), and says that a PASSED means that none was.
- `PassedMeansRemovedHolds`, for removals that do not fail: `RemoveInv` says which files there
  are at each place of fsFit as long as `unlink` does what it is asked for.
- `FaultFreePassesHolds`, assuming `ScriptsOwn`. `NoFaultInv` says that without faults
  nothing failed so far, that what is compared next is what was written (`SramInv`,
  `FilesInv`), and that what a test still has to count stands ahead of it (`Due`).

EepromProofs, of `Spec` of EepromHeader:
- `OnlyNamedHolds`, an action property.
- `OnePassSufficesHolds`. `HInv` has three parts: where the editor is (`EditorInv`), that all
  copies have all members (`HeaderInv`), and that during a pass a CRC said y to is right and
  the members it covers are behind it (`CrcInv`); `CrcsComeLast` reads that off the layout.
- `SafeSizesHolds`, by arithmetic modulo 2^16.

FitLinksProofs, of `Spec` of FitLinks:
- `PassedMeansReceivedHolds`. `FrameInv` says at each place of the test how many pieces are
  owed, on the line and got, as long as nothing has failed in this call.
- `PassedMeansDownHolds`: PASSED has read the power-down only, as with the restoration the
  verdict is FAILED. `PowerInv` says that events alternate, and tells what was seen
  from the counters (`Story`).
- `PassedMeansIdentifiedHolds`, `MonitorReceivedHolds`, both for modules that answer in time
  and reads that do not fail: a late answer may be taken for that of the next request, in the
  code and in the model. `FioInv` says that, with what is already in the buffer, port and wire hold the awaited answer and nothing else.
- `ScreenQuietHolds`. `QuietInv` says that for every loud mode that is on, the step that
  switches it off is still to come (`SoonQuiet`), because the steps of a test stay together
  (`Ordered`) and none is skipped.
- `AskedTestsRunHolds`, assuming that `MaxCalls` tells a second call from the first
  (`SecondCallSeen`). `AskedInv` says that what has been done and what is still to do make up
  what was asked for.

EthernetProofs, of `Spec` of FitLinks:
- `NoChildLeftHolds`, `PassedMeansRepliedHolds`. `TableInv` says which processes there are at
  each place, as long as no fork failed and no signal came; `ReplyInv` adds that the ping
  whose death is awaited is that of the current host.
- `NetworkRestoredHolds`, also with SIGINTs and cables out. `NetInv` says that what is up beyond what was
  found up is named in `slots` (`Named`), and that a copy of the program, which a failed
  `exec` leaves behind and which takes the network down as well, is the ping that is awaited
  (`OnlyPingCopies`). It needs `PidInv`: each SIGINT costs at most one child that is never
  collected. Two assumptions: there are pids for two children and one for each of the
  `MaxSignals` (`PidsSuffice`; a fork that fails for want of them would be the fault "fork"),
  and "exec" and "fork" do not come together (`CopiesAwaited`): the copy of a ping whose
  timer could not be forked is awaited by nobody and may go on after the test.
- `TypeOKHolds`. To the types of each test `FrameMore` and `OptionsTyped` add what their
  bounds rest on: how far a frame can be and that options are options.
- `FaultFreePassesHolds`. `WellInv` says for each test that nothing has failed and what makes
  the next step succeed: the timer of a ping runs (`EthWell`), nothing is lost of what is
  awaited (`FrameWell`, `FioWell`), the clock has ticked (`ClockWell`). `AnswersFit` assumes
  that the module may answer at all (`MaxBacklog > 0`).

Only model-checked are the liveness properties (`Terminates`, `InterruptEnds`, `CallReturns`)
and the fair half of `ImplementsSweep`, which the prover cannot state.

Of the invariants and action properties that the passing runs check, all but two are theorems.
`NeverBothAsleep` and `GrantFindsSleeper` hold under `PromptRendezvous` only, which the code
does not provide: a proof would be one about the assumption, so TLC's run is all there is. The
findings are TLC's alone: a counterexample needs no proof.

Where a proof needs induction over data (the words of `argv`, the lines of a file), the
library's induction theorems, which take an operator, are of no use; but `<` on Nat is
well-founded, so that a nonempty set of numbers has a least element, and the set of lengths
for which a fact about `SubSeq(s, 1, n)` fails has none (`Upward`). The same shows that the
recursive function behind `FlattenSeq` exists and is unique (`FlatteningExists`,
`FlatteningUnique`); `FlatSplit`, `FlatConcat` and `FlatAt` say of it what the rest needs.

## Not modelled

- fit.c: log files, `getTargetArch`, time stamps, texts.
- serialFit.c: the line parameters that are set, which is one step that may fail, and the
  measurements that `printSerialStats` prints. Two lines that share a port are excluded from
  SerialTest by `TestsAssumption`.
- eepromFit.c: the texts of the header and the make, model and version of a module; `-v` and
  `-p`, which change nothing.
- memoryFit.c: the bits walked by `dmtest`; its outcome is one choice. What other programs do
  with an SRAM that could not be unmounted (548) is outside the program.
- ethernetFit.c: addresses and the configuration file with them.
- displayFit.c, displayLib.c: what is shown, and the codes of the keys.
- tod: compiled out.

## Plan

Everything planned is built. What is left would be, in this order: the refinement of the
step `Header` of DeviceTest by EepromHeader; the configuration file of ethernet, whose
`fgets` of 16 bytes (ethernetFit.c:654) splits a long address; SerialTest with two lines that
share a port.
