------------------------------ MODULE DeviceTest ------------------------------
(****************************************************************************)
(* The tests of a memory device that save its contents, overwrite it and    *)
(* restore it: datakey (src/datakeyFit.c), eeprom (src/eepromFit.c) and the *)
(* SRAM part of memory (src/memoryFit.c).  Each is a straight line of calls *)
(* that is left at the first call that fails.                               *)
(*                                                                          *)
(* The contents of the device are told apart by cells.  What the device     *)
(* reads is what it holds, and a CRC tells contents apart.                  *)
(****************************************************************************)
EXTENDS FitRun, Sequences

CONSTANTS
  Cells,         \* the parts of the device
  HeaderCells,   \* those that hold the header of the EEPROM
  Contents,      \* what a cell may hold before the test
  HdrOps         \* what the user may ask of eeHdrOps, a set of sets

ASSUME DeviceAssumption ==
  /\ HeaderCells \subseteq Cells
  /\ HdrOps \subseteq SUBSET {"init", "default", "load", "edit"}

VARIABLES
  dev,           \* what the device holds
  saved, buf,    \* mp_orig and mp
  step,          \* the next step of the script
  hdrOps,        \* what the option letters of eeprom ask for in this iteration
  wanted,        \* what the device should hold for the user: as found, or as edited
  sram           \* the file system of the SRAM: mounted, unmounted by memoryFit, unmounted

device == <<dev, saved, buf, step, hdrOps, wanted, sram>>

All(value) == [c \in Cells |-> value]
Value == Contents \cup {"ones", "zero", "rand", "default", "file", "edited"}

\* The order of the calls.  "complete" is where each early return leads.
DatakeyCalls ==
  <<"open", "save", "erase", "read", "isErased", "clear", "read", "isClear",
    "erase", "read", "isErased", "restore", "read", "isSaved", "complete">>
EepromCalls ==
  <<"open", "save", "header", "clear", "read", "isClear", "restore", "read", "isSaved", "complete">>
MemoryCalls ==
  <<"dram", "mounts", "open", "save", "randomize", "read", "isRandom",
    "restore", "read", "isSaved", "complete">>
Script == [datakey |-> DatakeyCalls, eeprom |-> EepromCalls, memory |-> MemoryCalls]

DeviceInit ==
  /\ dev \in [Cells -> Contents] /\ wanted = dev
  /\ saved = All("zero") /\ buf = All("zero")
  /\ step = 1 /\ sram = "mounted"
  /\ hdrOps \in HdrOps

------------------------------------------------------------------------------
Op(name) ==
  /\ at = "client" /\ client \in DOMAIN Script
  /\ Script[client][step] = name

Go(S) == Update(S) /\ step' = step + 1 /\ UNCHANGED <<chosen, loop, verdict, hdrOps>>
GiveUp(S) ==
  /\ Update(S)
  /\ step' = Len(Script[client])
  /\ UNCHANGED <<chosen, loop, verdict, hdrOps>>

\* A call returns -1, or fewer bytes than it was asked for.
CallFails == "io" \in faults /\ \E s \in {"ftError", "ftFail"} : GiveUp({s})

\* What the cells hold after some of them took the data.
Mixed(data) == {[c \in Cells |-> IF c \in taken THEN data[c] ELSE dev[c]] : taken \in SUBSET Cells}

\* A write or an erase: it is complete, or claims to be, or fails on the way.
Store(data) ==
  \/ dev' = data /\ Go({})
  \/ "stuck" \in faults /\ dev' \in Mixed(data) /\ Go({})
  \/ CallFails /\ dev' \in Mixed(data)

------------------------------------------------------------------------------
\* What dmtest of the stack, the data and the heap makes memoryFit count: a good heap
\* is not counted.
DramStatuses ==
  {{"ftPass"}} \cup (IF "ram" \in faults THEN {{"ftFail"}, {"ftPass", "ftFail"}} ELSE {})

Dram ==
  /\ Op("dram")
  /\ \E S \in DramStatuses : Go(S)
  /\ UNCHANGED <<dev, saved, buf, wanted, sram>>

\* Finds the SRAM in /proc/mounts and unmounts it; it is tested even when it could
\* not be unmounted.  Without /proc/mounts the SRAM is skipped without error.
Mounts ==
  /\ Op("mounts")
  /\ \/ sram = "mounted" /\ sram' = "ours" /\ Go({})
     \/ sram = "mounted" /\ "mount" \in faults /\ UNCHANGED sram /\ Go({})
     \/ sram # "mounted" /\ UNCHANGED sram /\ GiveUp({"ftError"})
     \/ "mount" \in faults /\ UNCHANGED sram /\ GiveUp({})
  /\ UNCHANGED <<dev, saved, buf, wanted>>

\* open, the size of the device, and the two buffers.
Open ==
  /\ Op("open")
  /\ Go({}) \/ ("io" \in faults /\ GiveUp({"ftError"}))
  /\ UNCHANGED <<dev, saved, buf, wanted, sram>>

Save ==
  /\ Op("save")
  /\ \/ Go({}) /\ saved' = dev
     \/ CallFails /\ UNCHANGED saved
  /\ UNCHANGED <<dev, buf, wanted, sram>>

Erase ==
  /\ Op("erase")
  /\ Store(All("ones"))
  /\ UNCHANGED <<saved, buf, wanted, sram>>

Clear ==
  /\ Op("clear")
  /\ buf' = All("zero")
  /\ Store(All("zero"))
  /\ UNCHANGED <<saved, wanted, sram>>

Randomize ==
  /\ Op("randomize")
  /\ buf' = All("rand")
  /\ Store(All("rand"))
  /\ UNCHANGED <<saved, wanted, sram>>

Restore ==
  /\ Op("restore")
  /\ Store(saved)
  /\ UNCHANGED <<saved, buf, wanted, sram>>

\* Mutant: the buffer of the write is compared.
ReadNothing ==
  /\ Op("read")
  /\ Go({}) /\ UNCHANGED buf
  /\ UNCHANGED <<dev, saved, wanted, sram>>

Read ==
  /\ Op("read")
  /\ \/ Go({}) /\ buf' = dev
     \/ CallFails /\ UNCHANGED buf
  /\ UNCHANGED <<dev, saved, wanted, sram>>

\* The comparisons count a failure and go on.
Compare(good, pass, fail) ==
  /\ Go({IF good THEN pass ELSE fail})
  /\ UNCHANGED <<dev, saved, buf, wanted, sram>>
IsErased == Op("isErased") /\ Compare(buf = All("ones"), "ftPass", "ftFail")
IsClear == Op("isClear") /\ Compare(buf = All("zero"), "ftPass", "ftFail")
IsRandom == Op("isRandom") /\ Compare(buf = All("rand"), "none", "ftError")
IsSaved == Op("isSaved") /\ Compare(buf = saved, "ftPass", "ftFail")

------------------------------------------------------------------------------
(* eeHdrOps works on the saved copy, which is restored to the device later.  *)

Initialized(image) == IF "init" \in hdrOps THEN All("ones") ELSE image
Defaulted(image) ==
  IF "default" \in hdrOps
  THEN [c \in Cells |-> IF c \in HeaderCells THEN "default" ELSE image[c]]
  ELSE image
Edited(image, cells) == [c \in Cells |-> IF c \in cells THEN "edited" ELSE image[c]]

\* eeLoadHdr reads the file over the copy: not at all, completely, or, when the
\* file is short, a part of it.  A file without valid CRCs ends the process.
Header ==
  /\ Op("header")
  /\ \E cells \in SUBSET HeaderCells :
       /\ cells # {} => "edit" \in hdrOps
       /\ \/ /\ "load" \in hdrOps => "file" \in faults
             /\ saved' = Edited(Defaulted(Initialized(saved)), cells)
             /\ wanted' = saved'
             /\ Go({})
          \/ /\ "load" \in hdrOps
             /\ saved' = Edited(All("file"), cells)
             /\ wanted' = saved'
             /\ Go({})
          \/ /\ "load" \in hdrOps /\ "shortFile" \in faults
             /\ \E got \in SUBSET Cells :
                  LET image == Defaulted(Initialized(saved)) IN
                  /\ saved' = Edited([c \in Cells |-> IF c \in got THEN "file" ELSE image[c]], cells)
                  /\ wanted' = Edited(image, cells)
             /\ Go({})
          \/ /\ "load" \in hdrOps /\ "file" \in faults
             /\ at' = "exited"
             /\ UNCHANGED <<saved, wanted, step, hdrOps, chosen, iter, keepGoing, signals, calls,
                            counters, verdict>>
  /\ UNCHANGED <<dev, buf, sram>>

\* Frees, closes, mounts what memoryFit unmounted, and prints the verdict.  The
\* next call of eepromFit finds optind past the options and has none.
Finish ==
  /\ Op("complete")
  /\ Complete({})
  /\ step' = 1
  /\ \/ sram = "ours" /\ sram' = "mounted"
     \/ sram = "ours" /\ "mount" \in faults /\ sram' = "unmounted"
     \/ sram # "ours" /\ UNCHANGED sram
  /\ hdrOps' = IF client = "eeprom" THEN {} ELSE hdrOps
  /\ UNCHANGED <<dev, saved, buf, wanted>>

DeviceStep ==
  \/ Dram \/ Mounts \/ Open \/ Save \/ Header \/ Erase \/ Clear \/ Randomize \/ Read
  \/ IsErased \/ IsClear \/ IsRandom \/ Restore \/ IsSaved \/ Finish

------------------------------------------------------------------------------
ContentTypes ==
  /\ dev \in [Cells -> Value] /\ saved \in [Cells -> Value] /\ buf \in [Cells -> Value]
  /\ wanted \in [Cells -> Value]
StepTypes == step \in Nat \ {0} /\ (client \in DOMAIN Script => step <= Len(Script[client]))
DeviceTypes ==
  /\ ContentTypes /\ StepTypes
  /\ hdrOps \in HdrOps \cup {{}} /\ sram \in {"mounted", "ours", "unmounted"}

\* A test that says PASSED has left the device as the user had it: contents lost by
\* an error, in this iteration or in one before, are never reported as a success.
PassedMeansRestored == (verdict = "PASSED" /\ at # "client") => dev = wanted
===============================================================================
