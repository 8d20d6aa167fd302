------------------------------- MODULE FitProofs -------------------------------
(****************************************************************************)
(* Proofs about Fit for every set of tests, cells, contents and directories,*)
(* every number of iterations, and every choice of faults.                  *)
(****************************************************************************)
EXTENDS Fit, TLAPS

------------------------------------------------------------------------------
(* Where the calls stand in the scripts.                                    *)

SaveAt == [datakey |-> 2, eeprom |-> 2, memory |-> 4]
Last(c) == Len(Script[c])

LEMMA ScriptShape ==
  /\ DOMAIN Script = {"datakey", "eeprom", "memory"}
  /\ DOMAIN SaveAt = DOMAIN Script
  /\ SaveAt["datakey"] = 2 /\ SaveAt["eeprom"] = 2 /\ SaveAt["memory"] = 4
  /\ Last("datakey") = 15 /\ Last("eeprom") = 10 /\ Last("memory") = 11
BY DEF Script, DatakeyCalls, EepromCalls, MemoryCalls, SaveAt, Last

\* The contents are saved once, before anything is written; they are restored,
\* read back and compared by the last three calls.
Places(c, s) ==
  LET name == Script[c][s] IN
  /\ name \in {"open", "mounts", "dram"} => s < SaveAt[c]
  /\ name = "save" => s = SaveAt[c]
  /\ name = "header" => c = "eeprom" /\ s = SaveAt[c] + 1
  /\ name \in {"erase", "clear", "randomize"} => SaveAt[c] < s /\ s < Last(c) - 3
  /\ name \in {"isErased", "isClear", "isRandom"} => SaveAt[c] + 1 < s /\ s < Last(c) - 3
  /\ name = "restore" => s = Last(c) - 3
  /\ name = "read" => SaveAt[c] < s /\ s < Last(c) - 1
  /\ name = "isSaved" => s = Last(c) - 1
  /\ IF name = "complete" THEN s = Last(c) ELSE s < Last(c)
  /\ SaveAt[c] \in Nat \ {0} /\ Last(c) \in Nat /\ SaveAt[c] + 4 < Last(c)

LEMMA DatakeyPlaces ==
  ASSUME NEW s \in 1..Last("datakey")
  PROVE  Places("datakey", s)
<1>1. s \in 1..15
  BY ScriptShape
<1>2. LET list == Script["datakey"] IN
      /\ list[1] = "open" /\ list[2] = "save" /\ list[3] = "erase" /\ list[4] = "read"
      /\ list[5] = "isErased" /\ list[6] = "clear" /\ list[7] = "read" /\ list[8] = "isClear"
      /\ list[9] = "erase" /\ list[10] = "read" /\ list[11] = "isErased"
      /\ list[12] = "restore" /\ list[13] = "read" /\ list[14] = "isSaved"
      /\ list[15] = "complete"
  BY DEF Script, DatakeyCalls
<1>3. QED
  BY <1>1, <1>2, ScriptShape DEF Places

LEMMA EepromPlaces ==
  ASSUME NEW s \in 1..Last("eeprom")
  PROVE  Places("eeprom", s)
<1>1. s \in 1..10
  BY ScriptShape
<1>2. LET list == Script["eeprom"] IN
      /\ list[1] = "open" /\ list[2] = "save" /\ list[3] = "header" /\ list[4] = "clear"
      /\ list[5] = "read" /\ list[6] = "isClear" /\ list[7] = "restore" /\ list[8] = "read"
      /\ list[9] = "isSaved" /\ list[10] = "complete"
  BY DEF Script, EepromCalls
<1>3. QED
  BY <1>1, <1>2, ScriptShape DEF Places

LEMMA MemoryPlaces ==
  ASSUME NEW s \in 1..Last("memory")
  PROVE  Places("memory", s)
<1>1. s \in 1..11
  BY ScriptShape
<1>2. LET list == Script["memory"] IN
      /\ list[1] = "dram" /\ list[2] = "mounts" /\ list[3] = "open" /\ list[4] = "save"
      /\ list[5] = "randomize" /\ list[6] = "read" /\ list[7] = "isRandom"
      /\ list[8] = "restore" /\ list[9] = "read" /\ list[10] = "isSaved"
      /\ list[11] = "complete"
  BY DEF Script, MemoryCalls
<1>3. QED
  BY <1>1, <1>2, ScriptShape DEF Places

LEMMA EveryPlace ==
  ASSUME NEW c \in DOMAIN Script, NEW s \in 1..Last(c)
  PROVE  Places(c, s)
BY ScriptShape, DatakeyPlaces, EepromPlaces, MemoryPlaces

------------------------------------------------------------------------------
(* Types.                                                                   *)

\* The loop of main keeps the types.
LEMMA RunTypesStep ==
  ASSUME RunTypes, Call \/ Return \/ Interrupt
  PROVE  RunTypes'
<1>1. CASE Call
  <2>1. ChoiceTypes' /\ VerdictTypes'
    BY <1>1 DEF Call, RunTypes, ChoiceTypes, VerdictTypes, chosen
  <2>2. LoopTypes'
    BY <1>1, RunAssumption DEF Call, RunTypes, LoopTypes
  <2>3. FlagTypes'
    <3>1. keepGoing' \in BOOLEAN
      BY <1>1 DEF Call, RunTypes, FlagTypes
    <3>2. passed' \in BOOLEAN /\ failed' \in BOOLEAN
      BY <1>1 DEF Call
    <3>3. QED
      BY <3>1, <3>2 DEF FlagTypes
  <2>4. QED
    BY <2>1, <2>2, <2>3 DEF RunTypes
<1>2. CASE Return
  <2>1. ChoiceTypes' /\ VerdictTypes' /\ FlagTypes'
    BY <1>2 DEF Return, RunTypes, ChoiceTypes, VerdictTypes, FlagTypes, chosen, counters
  <2>2. at' \in {"call", "ended"}
    BY <1>2 DEF Return
  <2>3. iter' \in Int
    BY <1>2, RunAssumption DEF Return, RunTypes, LoopTypes
  <2>4. LoopTypes'
    BY <1>2, <2>2, <2>3 DEF Return, RunTypes, LoopTypes
  <2>5. QED
    BY <2>1, <2>4 DEF RunTypes
<1>3. CASE Interrupt
  <2>1. ChoiceTypes' /\ VerdictTypes' /\ FlagTypes'
    BY <1>3 DEF Interrupt, RunTypes, ChoiceTypes, VerdictTypes, FlagTypes, chosen, counters
  <2>2. LoopTypes'
    BY <1>3, RunAssumption DEF Interrupt, RunTypes, LoopTypes
  <2>3. QED
    BY <2>1, <2>2 DEF RunTypes
<1>4. QED
  BY <1>1, <1>2, <1>3

LEMMA UpdateTypes ==
  ASSUME RunTypes, NEW S, Update(S), UNCHANGED <<chosen, loop, verdict>>
  PROVE  RunTypes'
<1>1. passed' \in BOOLEAN /\ failed' \in BOOLEAN
  BY DEF Update
<1>2. QED
  BY <1>1 DEF RunTypes, ChoiceTypes, LoopTypes, FlagTypes, VerdictTypes, chosen, loop

LEMMA CompleteTypes ==
  ASSUME RunTypes, NEW S, Complete(S)
  PROVE  RunTypes'
<1>1. passed' \in BOOLEAN /\ failed' \in BOOLEAN
  BY DEF Complete, Update
<1>2. VerdictTypes'
  BY <1>1 DEF Complete, VerdictOf, VerdictTypes
<1>3. QED
  BY <1>1, <1>2 DEF Complete, RunTypes, ChoiceTypes, LoopTypes, FlagTypes, chosen

\* Every step of a device test is at a place of its script.
LEMMA AtPlace ==
  ASSUME StepTypes, NEW name, Op(name)
  PROVE  /\ client \in DOMAIN Script /\ step \in 1..Last(client)
         /\ Script[client][step] = name
         /\ Places(client, step)
<1>1. client \in DOMAIN Script /\ step \in 1..Last(client) /\ Script[client][step] = name
  BY ScriptShape DEF StepTypes, Op, Last
<1>2. QED
  BY <1>1, EveryPlace

Names == {"dram", "mounts", "open", "save", "header", "erase", "clear", "randomize", "read",
          "isErased", "isClear", "isRandom", "restore", "isSaved"}

\* Going on stays inside the script, and so does giving up.
LEMMA GoTypes ==
  ASSUME RunTypes, StepTypes, NEW name \in Names, Op(name), NEW S, Go(S) \/ GiveUp(S)
  PROVE  RunTypes' /\ StepTypes' /\ hdrOps' = hdrOps
<1>1. RunTypes'
  BY UpdateTypes DEF Go, GiveUp
<1>2. Places(client, step) /\ step \in Nat /\ client \in DOMAIN Script /\ client' = client
  BY AtPlace DEF Go, GiveUp, chosen, StepTypes
<1>3. step < Len(Script[client]) /\ Len(Script[client]) \in Nat
  BY <1>2, AtPlace DEF Places, Names, Last
<1>4. CASE Go(S)
  <2>1. step' = step + 1 /\ hdrOps' = hdrOps
    BY <1>4 DEF Go
  <2>2. QED
    BY <1>1, <1>2, <1>3, <2>1 DEF StepTypes
<1>5. CASE GiveUp(S)
  <2>1. step' = Len(Script[client]) /\ hdrOps' = hdrOps
    BY <1>5 DEF GiveUp
  <2>2. QED
    BY <1>1, <1>2, <1>3, <2>1 DEF StepTypes
<1>6. QED
  BY <1>4, <1>5

\* What is stored are values.
LEMMA Values ==
  /\ All("zero") \in [Cells -> Value] /\ All("ones") \in [Cells -> Value]
  /\ All("rand") \in [Cells -> Value] /\ All("file") \in [Cells -> Value]
BY DEF All, Value

LEMMA MixedIsImage ==
  ASSUME dev \in [Cells -> Value], NEW data \in [Cells -> Value]
  PROVE  Mixed(data) \subseteq [Cells -> Value]
BY DEF Mixed

\* A store is a step on or a leave, and leaves an image.
LEMMA StoreTypes ==
  ASSUME RunTypes, DeviceTypes, NEW name \in Names, Op(name),
         NEW data \in [Cells -> Value], Store(data)
  PROVE  RunTypes' /\ StepTypes' /\ hdrOps' = hdrOps /\ dev' \in [Cells -> Value]
<1>1. dev' \in [Cells -> Value]
  BY MixedIsImage DEF Store, DeviceTypes, ContentTypes
<1>2. \E S : Go(S) \/ GiveUp(S)
  BY DEF Store, CallFails
<1>3. QED
  BY <1>1, <1>2, GoTypes DEF DeviceTypes

LEMMA FailTypes ==
  ASSUME RunTypes, DeviceTypes, NEW name \in Names, Op(name), CallFails
  PROVE  RunTypes' /\ StepTypes' /\ hdrOps' = hdrOps
BY GoTypes DEF CallFails, DeviceTypes

LEMMA CompareTypes ==
  ASSUME RunTypes, DeviceTypes, NEW name \in Names, Op(name),
         NEW good, NEW pass, NEW fail, Compare(good, pass, fail)
  PROVE  RunTypes' /\ DeviceTypes'
<1>1. RunTypes' /\ StepTypes' /\ hdrOps' = hdrOps
  BY GoTypes DEF Compare, DeviceTypes
<1>2. QED
  BY <1>1 DEF Compare, DeviceTypes, ContentTypes

\* The images that the operations on the header make.
LEMMA EditedIsImage ==
  ASSUME NEW image \in [Cells -> Value], NEW cells \in SUBSET HeaderCells
  PROVE  Edited(image, cells) \in [Cells -> Value]
BY DEF Edited, Value
LEMMA DefaultedIsImage ==
  ASSUME saved \in [Cells -> Value]
  PROVE  Defaulted(Initialized(saved)) \in [Cells -> Value]
<1>1. Initialized(saved) \in [Cells -> Value]
  BY Values DEF Initialized
<1>2. QED
  BY <1>1 DEF Defaulted, Value

LEMMA HeaderTypes ==
  ASSUME RunTypes, DeviceTypes, Header
  PROVE  RunTypes' /\ DeviceTypes'
<1>1. PICK cells \in SUBSET HeaderCells :
        \/ saved' = Edited(Defaulted(Initialized(saved)), cells) /\ wanted' = saved' /\ Go({})
        \/ saved' = Edited(All("file"), cells) /\ wanted' = saved' /\ Go({})
        \/ /\ \E got \in SUBSET Cells :
                saved' = Edited([c \in Cells |-> IF c \in got THEN "file"
                                   ELSE Defaulted(Initialized(saved))[c]], cells)
           /\ wanted' = Edited(Defaulted(Initialized(saved)), cells)
           /\ Go({})
        \/ /\ at' = "exited"
           /\ UNCHANGED <<saved, wanted, step, hdrOps, chosen, iter, keepGoing, signals, calls,
                          counters, verdict>>
  BY DEF Header
<1>2. Op("header") /\ UNCHANGED <<dev, buf, sram>> /\ "header" \in Names
  BY DEF Header, Names
<1>3. Defaulted(Initialized(saved)) \in [Cells -> Value]
  BY DefaultedIsImage DEF DeviceTypes, ContentTypes
<1>4. CASE Go({})
  <2>1. saved' \in [Cells -> Value] /\ wanted' \in [Cells -> Value]
    <3>1. CASE saved' = Edited(Defaulted(Initialized(saved)), cells) /\ wanted' = saved'
      BY <3>1, <1>3, EditedIsImage
    <3>2. CASE saved' = Edited(All("file"), cells) /\ wanted' = saved'
      BY <3>2, Values, EditedIsImage
    <3>3. ASSUME NEW got \in SUBSET Cells,
                 saved' = Edited([c \in Cells |-> IF c \in got THEN "file"
                                    ELSE Defaulted(Initialized(saved))[c]], cells),
                 wanted' = Edited(Defaulted(Initialized(saved)), cells)
          PROVE  saved' \in [Cells -> Value] /\ wanted' \in [Cells -> Value]
      <4>1. [c \in Cells |-> IF c \in got THEN "file" ELSE Defaulted(Initialized(saved))[c]]
              \in [Cells -> Value]
        BY <1>3 DEF Value
      <4>2. QED
        BY <3>3, <4>1, <1>3, EditedIsImage
    <3>4. CASE UNCHANGED <<saved, wanted>>
      BY <3>4 DEF DeviceTypes, ContentTypes
    <3>5. QED
      BY <1>1, <3>1, <3>2, <3>3, <3>4
  <2>2. RunTypes' /\ StepTypes' /\ hdrOps' = hdrOps
    BY <1>2, <1>4, GoTypes DEF DeviceTypes
  <2>3. QED
    BY <1>2, <2>1, <2>2 DEF DeviceTypes, ContentTypes
<1>5. CASE /\ at' = "exited"
           /\ UNCHANGED <<saved, wanted, step, hdrOps, chosen, iter, keepGoing, signals, calls,
                          counters, verdict>>
  <2>1. RunTypes'
    BY <1>5 DEF RunTypes, ChoiceTypes, LoopTypes, FlagTypes, VerdictTypes, chosen, counters
  <2>2. QED
    BY <1>2, <1>5, <2>1 DEF DeviceTypes, ContentTypes, StepTypes, chosen
<1>6. QED
  BY <1>1, <1>4, <1>5

LEMMA FinishTypes ==
  ASSUME RunTypes, DeviceTypes, Finish
  PROVE  RunTypes' /\ DeviceTypes'
<1>1. RunTypes' /\ client' = client /\ step' = 1
  BY CompleteTypes DEF Finish, Complete, chosen
<1>2. StepTypes'
  <2>1. \A c \in DOMAIN Script : 1 <= Len(Script[c])
    <3>1. 1 <= Len(Script["datakey"]) /\ 1 <= Len(Script["eeprom"]) /\ 1 <= Len(Script["memory"])
      BY ScriptShape DEF Last
    <3>2. QED
      BY <3>1, ScriptShape
  <2>2. QED
    BY <1>1, <2>1 DEF StepTypes
<1>3. sram' \in {"mounted", "ours", "unmounted"} /\ hdrOps' \in HdrOps \cup {{}}
  BY DEF Finish, DeviceTypes
<1>4. QED
  BY <1>1, <1>2, <1>3 DEF Finish, DeviceTypes, ContentTypes

\* A step of a device test keeps the types.
LEMMA DeviceStepTypes ==
  ASSUME RunTypes, DeviceTypes, DeviceStep
  PROVE  RunTypes' /\ DeviceTypes'
<1> USE DEF Names
<1>1. CASE Dram
  <2>1. \E S : Go(S)
    BY <1>1 DEF Dram
  <2>2. RunTypes' /\ StepTypes' /\ hdrOps' = hdrOps
    BY <1>1, <2>1, GoTypes DEF Dram, DeviceTypes
  <2>3. QED
    BY <1>1, <2>2 DEF Dram, DeviceTypes, ContentTypes
<1>2. CASE Mounts
  <2>1. \E S : Go(S) \/ GiveUp(S)
    BY <1>2 DEF Mounts
  <2>2. RunTypes' /\ StepTypes' /\ hdrOps' = hdrOps
    BY <1>2, <2>1, GoTypes DEF Mounts, DeviceTypes
  <2>3. sram' \in {"mounted", "ours", "unmounted"}
    BY <1>2 DEF Mounts, DeviceTypes
  <2>4. QED
    BY <1>2, <2>2, <2>3 DEF Mounts, DeviceTypes, ContentTypes
<1>3. CASE Open
  <2>1. \E S : Go(S) \/ GiveUp(S)
    BY <1>3 DEF Open
  <2>2. RunTypes' /\ StepTypes' /\ hdrOps' = hdrOps
    BY <1>3, <2>1, GoTypes DEF Open, DeviceTypes
  <2>3. QED
    BY <1>3, <2>2 DEF Open, DeviceTypes, ContentTypes
<1>4. CASE Save
  <2>1. RunTypes' /\ StepTypes' /\ hdrOps' = hdrOps
    BY <1>4, GoTypes, FailTypes DEF Save, DeviceTypes
  <2>2. saved' \in [Cells -> Value]
    BY <1>4 DEF Save, DeviceTypes, ContentTypes
  <2>3. QED
    BY <1>4, <2>1, <2>2 DEF Save, DeviceTypes, ContentTypes
<1>5. CASE Header
  BY <1>5, HeaderTypes
<1>6. CASE Erase
  <2>1. RunTypes' /\ StepTypes' /\ hdrOps' = hdrOps /\ dev' \in [Cells -> Value]
    BY <1>6, StoreTypes, Values DEF Erase
  <2>2. QED
    BY <1>6, <2>1 DEF Erase, DeviceTypes, ContentTypes
<1>7. CASE Clear
  <2>1. RunTypes' /\ StepTypes' /\ hdrOps' = hdrOps /\ dev' \in [Cells -> Value]
    BY <1>7, StoreTypes, Values DEF Clear
  <2>2. QED
    BY <1>7, <2>1, Values DEF Clear, DeviceTypes, ContentTypes
<1>8. CASE Randomize
  <2>1. RunTypes' /\ StepTypes' /\ hdrOps' = hdrOps /\ dev' \in [Cells -> Value]
    BY <1>8, StoreTypes, Values DEF Randomize
  <2>2. QED
    BY <1>8, <2>1, Values DEF Randomize, DeviceTypes, ContentTypes
<1>9. CASE Read
  <2>1. RunTypes' /\ StepTypes' /\ hdrOps' = hdrOps
    BY <1>9, GoTypes, FailTypes DEF Read, DeviceTypes
  <2>2. buf' \in [Cells -> Value]
    BY <1>9 DEF Read, DeviceTypes, ContentTypes
  <2>3. QED
    BY <1>9, <2>1, <2>2 DEF Read, DeviceTypes, ContentTypes
<1>10. CASE IsErased \/ IsClear \/ IsRandom \/ IsSaved
  BY <1>10, CompareTypes DEF IsErased, IsClear, IsRandom, IsSaved
<1>11. CASE Restore
  <2>1. saved \in [Cells -> Value]
    BY DEF DeviceTypes, ContentTypes
  <2>2. RunTypes' /\ StepTypes' /\ hdrOps' = hdrOps /\ dev' \in [Cells -> Value]
    BY <1>11, <2>1, StoreTypes DEF Restore
  <2>3. QED
    BY <1>11, <2>2 DEF Restore, DeviceTypes, ContentTypes
<1>12. CASE Finish
  BY <1>12, FinishTypes
<1>13. QED
  BY <1>1, <1>2, <1>3, <1>4, <1>5, <1>6, <1>7, <1>8, <1>9, <1>10, <1>11, <1>12 DEF DeviceStep

\* What becomes of a file is a state of a file.
LEMMA BecomesTypes ==
  ASSUME file \in [1..Dirs -> FileState], dir \in 1..Dirs, NEW content \in FileState, Becomes(content)
  PROVE  file' \in [1..Dirs -> FileState]
BY DEF Becomes

LEMMA AppendIsState ==
  ASSUME NEW content \in FileState
  PROVE  Appended(content) \in FileState /\ PartAppended(content) \subseteq FileState
BY DEF Appended, PartAppended, FileState

LEMMA LeaveTypes ==
  ASSUME RunTypes, NEW result, Leave(result)
  PROVE  RunTypes' /\ place' = "start" /\ dir' \in 1..Dirs
<1>1. 1 \in 1..Dirs
  BY FsAssumption
<1>2. QED
  BY <1>1, CompleteTypes DEF Leave

LEMMA StayTypes ==
  ASSUME RunTypes, Stay
  PROVE  RunTypes'
BY DEF Stay, RunTypes, ChoiceTypes, LoopTypes, FlagTypes, VerdictTypes, run, chosen, loop, counters

\* A step of a file system test keeps the types.
LEMMA FsStepTypes ==
  ASSUME RunTypes, FsTypes, FsStep
  PROVE  RunTypes' /\ FsTypes'
<1>1. 1 \in 1..Dirs /\ DirCount \in 1..Dirs
  BY FsAssumption DEF DirCount
<1>2. dir \in 1..Dirs /\ (dir < DirCount => dir + 1 \in 1..Dirs)
  BY <1>1, FsAssumption DEF FsTypes
<1>3. file[dir] \in FileState /\ file \in [1..Dirs -> FileState]
  BY <1>2 DEF FsTypes
<1>4. ASSUME CallError \/ CallShort
      PROVE  RunTypes' /\ place' = "start" /\ dir' \in 1..Dirs
  BY <1>4, LeaveTypes DEF CallError, CallShort
<1>5. CASE Source
  <2>1. file' = file
    BY <1>5 DEF Source
  <2>2. RunTypes' /\ place' \in {"start", "write"} /\ dir' \in 1..Dirs
    BY <1>2, <1>4, <1>5, LeaveTypes, StayTypes DEF Source
  <2>3. QED
    BY <1>3, <2>1, <2>2 DEF FsTypes
<1>6. CASE AppendBlock
  <2>1. file' \in [1..Dirs -> FileState]
    <3>1. "corrupt" \in FileState /\ "short" \in FileState
      BY DEF FileState
    <3>2. QED
      BY <1>2, <1>3, <1>6, <3>1, AppendIsState, BecomesTypes DEF AppendBlock
  <2>2. RunTypes' /\ place' \in {"start", "write", "read"} /\ dir' \in 1..Dirs
    <3>1. CASE CallError \/ CallShort
      BY <1>4, <3>1
    <3>2. CASE /\ \/ dir < DirCount /\ dir' = dir + 1 /\ UNCHANGED place
                  \/ dir = DirCount /\ dir' = 1 /\ place' = "read"
               /\ Stay
      BY <1>1, <1>2, <3>2, StayTypes DEF FsTypes
    <3>3. QED
      BY <1>6, <3>1, <3>2 DEF AppendBlock
  <2>3. QED
    BY <2>1, <2>2 DEF FsTypes
<1>7. CASE ReadBack
  <2>1. file' \in [1..Dirs -> FileState]
    <3>1. "none" \in FileState
      BY DEF FileState
    <3>2. QED
      BY <1>2, <1>3, <1>7, <3>1, BecomesTypes DEF ReadBack
  <2>2. RunTypes' /\ place' \in {"start", "write", "read"} /\ dir' \in 1..Dirs
    <3>1. CASE \E result : Leave(result)
      BY <3>1, LeaveTypes
    <3>2. CASE dir < DirCount /\ dir' = dir + 1 /\ UNCHANGED place /\ Stay
      BY <1>2, <3>2, StayTypes DEF FsTypes
    <3>3. CASE CallError \/ CallShort
      BY <1>4, <3>3
    <3>4. QED
      BY <1>7, <3>1, <3>2, <3>3 DEF ReadBack
  <2>3. QED
    BY <2>1, <2>2 DEF FsTypes
<1>8. QED
  BY <1>5, <1>6, <1>7 DEF FsStep

------------------------------------------------------------------------------
LEMMA InitTypes == Init => TypeOK
<1> SUFFICES ASSUME Init
             PROVE  TypeOK
  OBVIOUS
<1>1. RunTypes
  <2>1. asked \in Int
    BY RunAssumption DEF Init, RunInit
  <2>2. LoopTypes
    BY <2>1, RunAssumption DEF Init, RunInit, LoopTypes
  <2>3. QED
    BY <2>2 DEF Init, RunInit, RunTypes, ChoiceTypes, FlagTypes, VerdictTypes
<1>2. DeviceTypes
  <2>1. StepTypes
    <3>1. 1 <= Len(Script["datakey"]) /\ 1 <= Len(Script["eeprom"]) /\ 1 <= Len(Script["memory"])
      BY ScriptShape DEF Last
    <3>2. \A c \in DOMAIN Script : 1 <= Len(Script[c])
      BY <3>1, ScriptShape
    <3>3. QED
      BY <3>2 DEF Init, DeviceInit, StepTypes
  <2>2. ContentTypes
    <3>1. [Cells -> Contents] \subseteq [Cells -> Value]
      BY DEF Value
    <3>2. QED
      BY <3>1, Values DEF Init, DeviceInit, ContentTypes
  <2>3. QED
    BY <2>1, <2>2 DEF Init, DeviceInit, DeviceTypes
<1>3. FsTypes
  BY FsAssumption DEF Init, FsInit, FsTypes, FileState
<1>4. QED
  BY <1>1, <1>2, <1>3 DEF TypeOK

LEMMA NextTypes ==
  ASSUME TypeOK, [Next]_vars
  PROVE  TypeOK'
<1>1. ASSUME UNCHANGED device, client' = client
      PROVE  DeviceTypes'
  BY <1>1 DEF TypeOK, DeviceTypes, ContentTypes, StepTypes, device
<1>2. ASSUME UNCHANGED files
      PROVE  FsTypes'
  BY <1>2 DEF TypeOK, FsTypes, files
<1>3. CASE (Call \/ Return \/ Interrupt) /\ UNCHANGED <<device, files>>
  <2>1. client' = client
    BY <1>3 DEF Call, Return, Interrupt, chosen
  <2>2. QED
    BY <1>1, <1>2, <1>3, <2>1, RunTypesStep DEF TypeOK
<1>4. CASE DeviceStep /\ UNCHANGED files
  BY <1>2, <1>4, DeviceStepTypes DEF TypeOK
<1>5. CASE FsStep /\ UNCHANGED device
  <2>1. client' = client
    BY <1>5 DEF FsStep, Source, AppendBlock, ReadBack, CallError, CallShort, Leave, Stay,
                Complete, run, chosen
  <2>2. QED
    BY <1>1, <1>5, <2>1, FsStepTypes DEF TypeOK
<1>6. CASE UNCHANGED vars
  <2>1. RunTypes' /\ client' = client
    BY <1>6, StayTypes DEF vars, Stay, TypeOK, run, chosen
  <2>2. QED
    BY <1>1, <1>2, <1>6, <2>1 DEF TypeOK, vars
<1>7. QED
  BY <1>3, <1>4, <1>5, <1>6 DEF Next, Progress

\* Every variable of the framework, of the devices and of the file systems has its
\* type in every reachable state.
THEOREM FitTypeCorrect == Spec => []TypeOK
<1>1. Init => TypeOK
  BY InitTypes
<1>2. TypeOK /\ [Next]_vars => TypeOK'
  BY NextTypes
<1>3. QED
  BY <1>1, <1>2, PTL DEF Spec

------------------------------------------------------------------------------
(* The loop of main.                                                        *)

\* A test leaves the loop of main alone.
LEMMA TestStep ==
  ASSUME DeviceStep \/ FsStep
  PROVE  /\ at = "client" /\ at' \in {"client", "returned", "exited"}
         /\ UNCHANGED <<chosen, iter, keepGoing, signals, calls>>
<1>1. ASSUME NEW name, Op(name), NEW S, Go(S) \/ GiveUp(S)
      PROVE  at = "client" /\ at' = at /\ UNCHANGED <<chosen, iter, keepGoing, signals, calls>>
  BY <1>1 DEF Op, Go, GiveUp, loop
<1>2. ASSUME NEW name, Op(name), NEW data, Store(data) \/ CallFails
      PROVE  at = "client" /\ at' = at /\ UNCHANGED <<chosen, iter, keepGoing, signals, calls>>
  BY <1>1, <1>2 DEF Store, CallFails
<1>3. CASE Dram \/ Mounts \/ Open
  BY <1>1, <1>3 DEF Dram, Mounts, Open
<1>4. CASE Save \/ Read
  BY <1>1, <1>2, <1>4 DEF Save, Read
<1>5. CASE Erase \/ Clear \/ Randomize \/ Restore
  BY <1>2, <1>5 DEF Erase, Clear, Randomize, Restore
<1>6. CASE IsErased \/ IsClear \/ IsRandom \/ IsSaved
  BY <1>1, <1>6 DEF IsErased, IsClear, IsRandom, IsSaved, Compare
<1>7. CASE Header
  <2>1. CASE Go({})
    BY <1>1, <1>7, <2>1 DEF Header
  <2>2. CASE at' = "exited" /\ UNCHANGED <<chosen, iter, keepGoing, signals, calls>>
    BY <1>7, <2>2 DEF Header, Op
  <2>3. QED
    BY <1>7, <2>1, <2>2 DEF Header
<1>8. CASE Finish
  BY <1>8 DEF Finish, Complete, Op
<1>9. CASE FsStep
  BY <1>9 DEF FsStep, Source, AppendBlock, ReadBack, CallError, CallShort, Leave, Complete, In, Stay,
              run, loop
<1>10. QED
  BY <1>3, <1>4, <1>5, <1>6, <1>7, <1>8, <1>9 DEF DeviceStep

\* While no signal has come, the calls and the counter of iterations make up what
\* was asked for.
Counted ==
  /\ asked > 0 /\ at = "call" => iter \in 1..asked /\ calls = asked - iter
  /\ asked > 0 /\ at \in {"client", "returned", "exited"} =>
       iter \in 1..asked /\ calls = asked - iter + 1
  /\ asked < 0 /\ at = "call" => iter = asked /\ calls = 0
  /\ asked < 0 /\ at \in {"client", "returned", "exited"} => iter = asked /\ calls = 1
LoopInv == (signals = 0 => keepGoing /\ Counted) /\ IterationsRun

LEMMA CallCounts ==
  ASSUME TypeOK, LoopInv, Call
  PROVE  LoopInv'
<1>1. asked \in Int /\ asked <= MaxCalls /\ calls \in Nat /\ iter \in Int /\ MaxCalls \in Nat \ {0}
  BY RunAssumption DEF TypeOK, RunTypes, ChoiceTypes, LoopTypes
<1>2. /\ at = "call" /\ at' = "client" /\ UNCHANGED <<asked, iter, keepGoing, signals>>
      /\ calls' = IF calls < MaxCalls THEN calls + 1 ELSE calls
  BY DEF Call, chosen
<1>3. ASSUME signals' = 0
      PROVE  keepGoing' /\ Counted'
  <2>1. keepGoing' /\ Counted
    BY <1>2, <1>3 DEF LoopInv
  <2>2. Counted'
    BY <1>1, <1>2, <2>1 DEF Counted
  <2>3. QED
    BY <2>1, <2>2
<1>4. IterationsRun'
  BY <1>2 DEF IterationsRun
<1>5. QED
  BY <1>3, <1>4 DEF LoopInv

LEMMA ReturnCounts ==
  ASSUME TypeOK, LoopInv, Return
  PROVE  LoopInv'
<1>1. asked \in Int /\ asked <= MaxCalls /\ calls \in Nat /\ iter \in Int /\ MaxCalls \in Nat \ {0}
  BY RunAssumption DEF TypeOK, RunTypes, ChoiceTypes, LoopTypes
<1>2. /\ at = "returned" /\ UNCHANGED <<asked, keepGoing, signals, calls>>
      /\ iter' = IF iter > -MaxCalls THEN iter - 1 ELSE iter
      /\ at' = IF keepGoing /\ (runContinuous \/ iter' > 0) THEN "call" ELSE "ended"
  BY DEF Return, chosen
<1>3. ASSUME signals' = 0
      PROVE  keepGoing' /\ Counted' /\ IterationsRun'
  <2>1. keepGoing /\ keepGoing' /\ Counted
    BY <1>2, <1>3 DEF LoopInv
  <2>2. CASE asked > 0
    <3>1. iter \in 1..asked /\ calls = asked - iter + 1 /\ iter' = iter - 1
      BY <1>1, <1>2, <2>1, <2>2 DEF Counted
    <3>2. CASE iter' > 0
      <4>1. at' = "call"
        BY <1>2, <2>1, <3>2
      <4>2. QED
        BY <1>1, <1>2, <2>1, <2>2, <3>1, <3>2, <4>1 DEF Counted, IterationsRun
    <3>3. CASE ~(iter' > 0)
      <4>1. at' = "ended" /\ ~runContinuous'
        BY <1>1, <1>2, <2>2, <3>3 DEF runContinuous
      <4>2. calls' = asked'
        BY <1>1, <1>2, <3>1, <3>3
      <4>3. QED
        BY <1>2, <2>1, <2>2, <4>1, <4>2 DEF Counted, IterationsRun
    <3>4. QED
      BY <3>2, <3>3
  <2>3. CASE asked < 0
    <3>1. iter = asked /\ calls = 1
      BY <1>2, <2>1, <2>3 DEF Counted
    <3>2. ~(iter' > 0)
      BY <1>1, <1>2, <2>3, <3>1
    <3>3. at' = "ended" /\ ~runContinuous'
      BY <1>1, <1>2, <2>3, <3>2 DEF runContinuous
    <3>4. QED
      BY <1>1, <1>2, <2>1, <2>3, <3>1, <3>3 DEF Counted, IterationsRun
  <2>4. CASE asked = 0
    <3>1. at' = "call"
      BY <1>2, <2>1, <2>4 DEF runContinuous
    <3>2. QED
      BY <1>2, <2>1, <2>4, <3>1 DEF Counted, IterationsRun
  <2>5. QED
    BY <1>1, <2>2, <2>3, <2>4
<1>4. QED
  BY <1>3 DEF LoopInv, IterationsRun

LEMMA LoopNext ==
  ASSUME TypeOK, LoopInv, [Next]_vars
  PROVE  LoopInv'
<1>1. CASE Call
  BY <1>1, CallCounts
<1>2. CASE Return
  BY <1>2, ReturnCounts
<1>3. CASE Interrupt
  <2>1. signals' # 0
    BY <1>3 DEF Interrupt, TypeOK, RunTypes, LoopTypes
  <2>2. QED
    BY <2>1 DEF LoopInv, IterationsRun
<1>4. CASE DeviceStep \/ FsStep
  <2>1. /\ at = "client" /\ at' \in {"client", "returned", "exited"}
        /\ UNCHANGED <<asked, iter, keepGoing, signals, calls>>
    BY <1>4, TestStep DEF chosen
  <2>2. QED
    BY <2>1 DEF LoopInv, Counted, IterationsRun
<1>5. CASE UNCHANGED vars
  BY <1>5 DEF vars, run, chosen, loop, LoopInv, Counted, IterationsRun, runContinuous
<1>6. QED
  BY <1>1, <1>2, <1>3, <1>4, <1>5 DEF Next, Progress

\* Whatever the tests find, a run that is not interrupted calls its test as often
\* as -I says and then ends.
THEOREM IterationsRunHolds == Spec => []IterationsRun
<1>1. Init => LoopInv
  BY RunAssumption DEF Init, RunInit, LoopInv, Counted, IterationsRun
<1>2. TypeOK /\ LoopInv /\ [Next]_vars => LoopInv'
  BY LoopNext
<1>3. LoopInv => IterationsRun
  BY DEF LoopInv
<1>4. QED
  BY <1>1, <1>2, <1>3, FitTypeCorrect, PTL DEF Spec

------------------------------------------------------------------------------
(* Whoever passes has restored the device.                                  *)

\* The tests with a script have counters of their own, and no file for eeprom -l
\* is too short (with one, the run half_loaded finds the property violated).
ScriptsOwn == DOMAIN Script \cap Clients \subseteq OwnCounters
WholeFiles == \A f \in FaultSets : "shortFile" \notin f

\* How the device, the copy and the buffer are related at each place of a script
\* as long as no failure has been counted.
Kept ==
  /\ step <= SaveAt[client] + 1 => dev = wanted
  /\ SaveAt[client] < step /\ step < Last(client) => saved = wanted
  /\ step = Last(client) - 1 => buf = dev
  /\ step = Last(client) => dev = wanted

RestoreInv ==
  /\ client \notin DOMAIN Script => dev = wanted /\ step = 1
  /\ client \in DOMAIN Script /\ ~failed => IF at = "client" THEN Kept ELSE dev = wanted
  /\ at \in {"call", "returned"} => step = 1
  /\ client \in DOMAIN Script /\ verdict = "PASSED" /\ at # "client" => ~failed
  /\ client = "eeprom" /\ verdict # "none" => hdrOps = {}

\* A failure once counted stays, and a status that is one is counted.
LEMMA FailureStays ==
  ASSUME NEW S, Update(S), ~failed'
  PROVE  ~failed /\ S \cap FailureStatus = {}
BY DEF Update

LEMMA CallFailsCounts ==
  ASSUME CallFails
  PROVE  failed'
<1>1. PICK s \in {"ftError", "ftFail"} : Update({s})
  BY DEF CallFails, GiveUp
<1>2. {s} \cap FailureStatus # {}
  BY DEF FailureStatus
<1>3. QED
  BY <1>1, <1>2, FailureStays

\* What a script has kept before a call and keeps after it is all there is to show.
LEMMA KeepsInv ==
  ASSUME RestoreInv, at = "client", at' = "client", client \in DOMAIN Script,
         UNCHANGED <<client, verdict, hdrOps>>,
         ~failed' => ~failed /\ (Kept => Kept')
  PROVE  RestoreInv'
BY DEF RestoreInv

LEMMA GoKeeps ==
  ASSUME NEW S, Go(S) \/ GiveUp(S), NEW name, Op(name)
  PROVE  /\ at = "client" /\ at' = "client" /\ client \in DOMAIN Script
         /\ UNCHANGED <<client, verdict, hdrOps>>
         /\ ~failed' => ~failed /\ S \cap FailureStatus = {}
BY FailureStays DEF Go, GiveUp, Op, chosen, loop

LEMMA StoreKeeps ==
  ASSUME NEW data, Store(data), NEW name, Op(name)
  PROVE  /\ at = "client" /\ at' = "client" /\ client \in DOMAIN Script
         /\ UNCHANGED <<client, verdict, hdrOps>>
         /\ ~failed' => ~failed /\ step' = step + 1
<1>1. CASE Go({})
  BY <1>1, GoKeeps DEF Go
<1>2. CASE CallFails
  BY <1>2, GoKeeps, CallFailsCounts DEF CallFails
<1>3. QED
  BY <1>1, <1>2 DEF Store

LEMMA DeviceStepKeeps ==
  ASSUME WholeFiles, TypeOK, RestoreInv, DeviceStep
  PROVE  RestoreInv'
<1> USE DEF Places
<1>1. StepTypes /\ step \in Nat
  BY DEF TypeOK, DeviceTypes, StepTypes
<1>2. CASE Dram \/ Open
  <2>1. PICK name \in {"dram", "open"} : Op(name)
    BY <1>2 DEF Dram, Open
  <2>2. step < SaveAt[client] /\ SaveAt[client] + 4 < Last(client)
        /\ SaveAt[client] \in Nat /\ Last(client) \in Nat
    BY <1>1, <2>1, AtPlace
  <2>3. UNCHANGED <<dev, saved, buf, wanted>>
    BY <1>2 DEF Dram, Open
  <2>4. PICK S : Go(S) \/ (GiveUp(S) /\ S = {"ftError"})
    BY <1>2 DEF Dram, Open
  <2>5. ~failed' => Go(S)
    BY <2>1, <2>4, GoKeeps DEF FailureStatus
  <2>6. UNCHANGED client
    BY <2>1, <2>4, GoKeeps
  <2>7. Go(S) /\ Kept => Kept'
    <3>1. SUFFICES ASSUME Go(S), Kept
                   PROVE  Kept'
      OBVIOUS
    <3>2. step' = step + 1
      BY <3>1 DEF Go
    <3>3. QED
      BY <1>1, <2>2, <2>3, <2>6, <3>1, <3>2 DEF Kept, Last
  <2>8. QED
    BY <2>1, <2>4, <2>5, <2>7, GoKeeps, KeepsInv
<1>3. CASE Mounts
  <2>1. Op("mounts")
    BY <1>3 DEF Mounts
  <2>2. step < SaveAt[client] /\ SaveAt[client] + 4 < Last(client)
        /\ SaveAt[client] \in Nat /\ Last(client) \in Nat
    BY <1>1, <2>1, AtPlace
  <2>3. UNCHANGED <<dev, saved, buf, wanted>>
    BY <1>3 DEF Mounts
  <2>4. PICK S : Go(S) \/ GiveUp(S)
    BY <1>3 DEF Mounts
  <2>5. UNCHANGED client
    BY <2>1, <2>4, GoKeeps
  <2>6. step' = step + 1 \/ step' = Last(client)
    BY <2>4 DEF Go, GiveUp, Last
  <2>7. Kept => Kept'
    <3>1. SUFFICES ASSUME Kept
                   PROVE  Kept'
      OBVIOUS
    <3>2. dev' = wanted' /\ Last(client') = Last(client)
      <4>1. step <= SaveAt[client] + 1
        BY <1>1, <2>2
      <4>2. QED
        BY <2>3, <2>5, <3>1, <4>1 DEF Kept, Last
    <3>3. ~(SaveAt[client] < step' /\ step' < Last(client)) /\ step' # Last(client) - 1
      BY <1>1, <2>2, <2>6
    <3>4. QED
      BY <2>5, <3>2, <3>3 DEF Kept, Last
  <2>8. QED
    BY <2>1, <2>4, <2>7, GoKeeps, KeepsInv
<1>4. CASE Save
  <2>1. Op("save") /\ UNCHANGED <<dev, buf, wanted>>
    BY <1>4 DEF Save
  <2>2. step = SaveAt[client] /\ SaveAt[client] + 4 < Last(client)
        /\ SaveAt[client] \in Nat /\ Last(client) \in Nat
    BY <1>1, <2>1, AtPlace
  <2>3. PICK S : Go(S) \/ GiveUp(S)
    BY <1>4 DEF Save, CallFails
  <2>4. UNCHANGED client
    BY <2>1, <2>3, GoKeeps
  <2>5. ~failed' => step' = step + 1 /\ saved' = dev
    BY <1>4, CallFailsCounts DEF Save, Go
  <2>6. ~failed' /\ Kept => Kept'
    <3>1. SUFFICES ASSUME ~failed', Kept
                   PROVE  Kept'
      OBVIOUS
    <3>2. step' = step + 1 /\ saved' = wanted' /\ dev' = wanted' /\ Last(client') = Last(client)
      BY <2>1, <2>2, <2>4, <2>5, <3>1 DEF Kept, Last
    <3>3. QED
      BY <2>2, <2>4, <3>2 DEF Kept
  <2>7. QED
    BY <2>1, <2>3, <2>6, GoKeeps, KeepsInv
<1>5. CASE Header
  <2>1. Op("header") /\ UNCHANGED <<dev, buf>>
    BY <1>5 DEF Header
  <2>2. step = SaveAt[client] + 1 /\ SaveAt[client] + 4 < Last(client) /\ client = "eeprom"
        /\ SaveAt[client] \in Nat /\ Last(client) \in Nat /\ client \in DOMAIN Script
    BY <1>1, <2>1, AtPlace
  <2>3. "shortFile" \notin faults
    BY DEF WholeFiles, TypeOK, RunTypes, ChoiceTypes
  <2>4. CASE Go({}) /\ wanted' = saved'
    <3>1. UNCHANGED client
      BY <2>1, <2>4, GoKeeps
    <3>2. step' = step + 1 /\ saved' = wanted' /\ Last(client') = Last(client)
      BY <2>4, <3>1 DEF Go, Last
    <3>3. Kept'
      BY <2>2, <3>1, <3>2 DEF Kept
    <3>4. QED
      BY <2>1, <2>4, <3>3, GoKeeps, KeepsInv
  <2>5. CASE "load" \in hdrOps /\ at' = "exited"
             /\ UNCHANGED <<saved, wanted, step, hdrOps, chosen, counters, verdict>>
    <3>1. verdict = "none" /\ at = "client" /\ client' = client
      BY <2>1, <2>2, <2>5 DEF RestoreInv, Op, VerdictTypes, chosen
    <3>2. ~failed => dev = wanted
      BY <2>2, <3>1 DEF RestoreInv, Kept
    <3>3. QED
      BY <2>1, <2>2, <2>5, <3>1, <3>2 DEF RestoreInv, counters
  <2>6. QED
    BY <1>5, <2>3, <2>4, <2>5 DEF Header
<1>6. CASE Erase \/ Clear \/ Randomize \/ Restore
  <2>1. PICK name \in {"erase", "clear", "randomize", "restore"} : Op(name)
    BY <1>6 DEF Erase, Clear, Randomize, Restore
  <2>2. SaveAt[client] < step /\ step < Last(client) - 2
        /\ SaveAt[client] \in Nat /\ Last(client) \in Nat
    BY <1>1, <2>1, AtPlace
  <2>3. PICK data : Store(data)
    BY <1>6 DEF Erase, Clear, Randomize, Restore
  <2>4. UNCHANGED <<saved, wanted>>
    BY <1>6 DEF Erase, Clear, Randomize, Restore
  <2>5. UNCHANGED client /\ (~failed' => step' = step + 1)
    BY <2>1, <2>3, StoreKeeps
  <2>6. ~failed' /\ Kept => Kept'
    <3>1. SUFFICES ASSUME ~failed', Kept
                   PROVE  Kept'
      OBVIOUS
    <3>2. step' = step + 1 /\ saved' = wanted' /\ Last(client') = Last(client)
      BY <1>1, <2>2, <2>4, <2>5, <3>1 DEF Kept, Last
    <3>3. QED
      BY <1>1, <2>2, <2>5, <3>2 DEF Kept
  <2>7. QED
    BY <2>1, <2>3, <2>6, StoreKeeps, KeepsInv
<1>7. CASE Read
  <2>1. Op("read") /\ UNCHANGED <<dev, saved, wanted>>
    BY <1>7 DEF Read
  <2>2. SaveAt[client] < step /\ step < Last(client) - 1
        /\ SaveAt[client] \in Nat /\ Last(client) \in Nat
    BY <1>1, <2>1, AtPlace
  <2>3. PICK S : Go(S) \/ GiveUp(S)
    BY <1>7 DEF Read, CallFails
  <2>4. UNCHANGED client
    BY <2>1, <2>3, GoKeeps
  <2>5. ~failed' => step' = step + 1 /\ buf' = dev
    BY <1>7, CallFailsCounts DEF Read, Go
  <2>6. ~failed' /\ Kept => Kept'
    <3>1. SUFFICES ASSUME ~failed', Kept
                   PROVE  Kept'
      OBVIOUS
    <3>2. step' = step + 1 /\ saved' = wanted' /\ buf' = dev' /\ Last(client') = Last(client)
      BY <1>1, <2>1, <2>2, <2>4, <2>5, <3>1 DEF Kept, Last
    <3>3. QED
      BY <1>1, <2>2, <2>4, <3>2 DEF Kept
  <2>7. QED
    BY <2>1, <2>3, <2>6, GoKeeps, KeepsInv
<1>8. CASE IsErased \/ IsClear \/ IsRandom
  <2>1. PICK name \in {"isErased", "isClear", "isRandom"} : Op(name)
    BY <1>8 DEF IsErased, IsClear, IsRandom
  <2>2. SaveAt[client] + 1 < step /\ step < Last(client) - 3
        /\ SaveAt[client] \in Nat /\ Last(client) \in Nat
    BY <1>1, <2>1, AtPlace
  <2>3. PICK S : Go(S)
    BY <1>8 DEF IsErased, IsClear, IsRandom, Compare
  <2>4. UNCHANGED <<dev, saved, buf, wanted>>
    BY <1>8 DEF IsErased, IsClear, IsRandom, Compare
  <2>5. UNCHANGED client /\ step' = step + 1
    BY <2>1, <2>3, GoKeeps DEF Go
  <2>6. Kept => Kept'
    <3>1. SUFFICES ASSUME Kept
                   PROVE  Kept'
      OBVIOUS
    <3>2. saved' = wanted' /\ Last(client') = Last(client)
      BY <1>1, <2>2, <2>4, <2>5, <3>1 DEF Kept, Last
    <3>3. QED
      BY <1>1, <2>2, <2>5, <3>2 DEF Kept
  <2>7. QED
    BY <2>1, <2>3, <2>6, GoKeeps, KeepsInv
<1>9. CASE IsSaved
  <2>1. Op("isSaved") /\ UNCHANGED <<dev, saved, buf, wanted>>
    BY <1>9 DEF IsSaved, Compare
  <2>2. SaveAt[client] + 4 < Last(client) /\ step = Last(client) - 1
        /\ SaveAt[client] \in Nat /\ Last(client) \in Nat
    BY <1>1, <2>1, AtPlace
  <2>3. Go({IF buf = saved THEN "ftPass" ELSE "ftFail"})
    BY <1>9 DEF IsSaved, Compare
  <2>4. UNCHANGED client /\ step' = step + 1
    BY <2>1, <2>3, GoKeeps DEF Go
  <2>5. ~failed' => buf = saved
    BY <2>1, <2>3, GoKeeps DEF FailureStatus
  <2>6. ~failed' /\ Kept => Kept'
    <3>1. SUFFICES ASSUME ~failed', Kept
                   PROVE  Kept'
      OBVIOUS
    <3>2. dev' = wanted' /\ Last(client') = Last(client)
      BY <1>1, <2>1, <2>2, <2>4, <2>5, <3>1 DEF Kept, Last
    <3>3. QED
      BY <1>1, <2>2, <2>4, <3>2 DEF Kept
  <2>7. QED
    BY <2>1, <2>3, <2>6, GoKeeps, KeepsInv
<1>10. CASE Finish
  <2>1. Op("complete") /\ Complete({}) /\ step' = 1 /\ UNCHANGED <<dev, wanted>>
        /\ hdrOps' = IF client = "eeprom" THEN {} ELSE hdrOps
    BY <1>10 DEF Finish
  <2>2. step = Last(client) /\ client \in DOMAIN Script /\ at = "client"
    BY <1>1, <2>1, AtPlace DEF Op
  <2>3. failed' = failed /\ at' = "returned" /\ client' = client
        /\ (verdict' = "PASSED" => ~failed')
    <3>1. failed' = (failed \/ {} \cap FailureStatus # {})
      BY <2>1 DEF Complete, Update
    <3>2. failed \in BOOLEAN
      BY DEF TypeOK, RunTypes, FlagTypes
    <3>3. verdict' = VerdictOf(passed', failed')
      BY <2>1 DEF Complete
    <3>4. verdict' = "PASSED" => ~failed'
      BY <3>3 DEF VerdictOf
    <3>5. QED
      BY <2>1, <3>1, <3>2, <3>4 DEF Complete, chosen
  <2>4. ~failed => dev = wanted
    BY <2>2 DEF RestoreInv, Kept
  <2>5. QED
    BY <2>1, <2>2, <2>3, <2>4 DEF RestoreInv
<1>11. QED
  BY <1>2, <1>3, <1>4, <1>5, <1>6, <1>7, <1>8, <1>9, <1>10 DEF DeviceStep

LEMMA FsClientsHaveNoScript ==
  ASSUME ScriptsOwn, TypeOK, FsStep
  PROVE  client \notin DOMAIN Script
<1>1. client \in Clients /\ client \in Media \cup {"filesystem"}
  BY DEF FsStep, Source, AppendBlock, ReadBack, In, FsClients, TypeOK, RunTypes, ChoiceTypes
<1>2. QED
  BY <1>1, FsAssumption, ScriptShape DEF ScriptsOwn

LEMMA RestoreNext ==
  ASSUME ScriptsOwn, WholeFiles, TypeOK, RestoreInv, [Next]_vars
  PROVE  RestoreInv'
<1>1. CASE Call /\ UNCHANGED device
  <2>1. /\ at = "call" /\ at' = "client" /\ step' = 1 /\ UNCHANGED <<client, verdict>>
        /\ UNCHANGED <<dev, saved, buf, wanted, hdrOps>>
    BY <1>1 DEF Call, chosen, device, RestoreInv
  <2>2. client \in DOMAIN Script /\ ~failed' => ~failed
    BY <1>1 DEF Call, ScriptsOwn, TypeOK, RunTypes, ChoiceTypes
  <2>3. client \in DOMAIN Script /\ dev = wanted => Kept'
    <3>1. SUFFICES ASSUME client \in DOMAIN Script, dev = wanted
                   PROVE  Kept'
      OBVIOUS
    <3>2. 1 <= SaveAt[client] /\ 1 < Last(client) - 1 /\ SaveAt[client] \in Nat
          /\ Last(client) \in Nat
      BY <3>1, ScriptShape
    <3>3. Last(client') = Last(client)
      BY <2>1 DEF Last
    <3>4. QED
      BY <2>1, <3>1, <3>2, <3>3 DEF Kept
  <2>4. QED
    BY <2>1, <2>2, <2>3 DEF RestoreInv
<1>2. CASE (Return \/ Interrupt) /\ UNCHANGED device
  <2>1. /\ UNCHANGED <<client, verdict, failed, dev, saved, buf, wanted, hdrOps, step>>
        /\ at' = at \/ (at = "returned" /\ at' \in {"call", "ended"})
    BY <1>2 DEF Return, Interrupt, chosen, counters, device
  <2>2. Kept' = Kept
    BY <2>1 DEF Kept, Last
  <2>3. QED
    BY <2>1, <2>2 DEF RestoreInv
<1>3. CASE DeviceStep
  BY <1>3, DeviceStepKeeps
<1>4. CASE FsStep /\ UNCHANGED device
  <2>1. client \notin DOMAIN Script /\ client # "eeprom"
    BY <1>4, FsClientsHaveNoScript, ScriptShape
  <2>2. client' = client /\ at = "client" /\ at' \in {"client", "returned", "exited"}
    BY <1>4, TestStep DEF chosen
  <2>3. at' = "returned" => step = 1
    BY <2>1, <2>2 DEF RestoreInv
  <2>4. QED
    BY <1>4, <2>1, <2>2, <2>3 DEF RestoreInv, device
<1>5. CASE UNCHANGED vars
  <2>1. UNCHANGED <<client, at, verdict, failed, dev, saved, buf, wanted, hdrOps, step>>
    BY <1>5 DEF vars, run, chosen, loop, counters, device
  <2>2. Kept' = Kept
    BY <2>1 DEF Kept, Last
  <2>3. QED
    BY <2>1, <2>2 DEF RestoreInv
<1>6. QED
  BY <1>1, <1>2, <1>3, <1>4, <1>5 DEF Next, Progress

\* A device test that says PASSED has left the device as its user had it, whatever
\* calls failed in this iteration or in the ones before, and whatever the device kept
\* of what it was given.
THEOREM PassedMeansRestoredHolds ==
  ASSUME ScriptsOwn, WholeFiles
  PROVE  Spec => []PassedMeansRestored
<1>1. Init => RestoreInv
  BY ScriptShape DEF Init, RunInit, DeviceInit, RestoreInv
<1>2. TypeOK /\ RestoreInv /\ [Next]_vars => RestoreInv'
  BY RestoreNext
<1>3. RestoreInv => PassedMeansRestored
  BY DEF RestoreInv, PassedMeansRestored
<1>4. QED
  BY <1>1, <1>2, <1>3, FitTypeCorrect, PTL DEF Spec

------------------------------------------------------------------------------
(* Whoever passes has removed the files, where unlink does.                 *)

RemoveInv ==
  (client = "filesystem" /\ "unlink" \notin faults) =>
    /\ at # "client" => place = "start"
    /\ at = "client" /\ place = "read" => \A d \in 1..Dirs : d < dir => file[d] = "none"
    /\ verdict = "PASSED" /\ at # "client" => \A d \in 1..Dirs : file[d] = "none"

\* Only the result ftPass gets a PASSED out of ftComplete.
LEMMA LeaveVerdict ==
  ASSUME NEW result, Leave(result)
  PROVE  /\ at' = "returned" /\ client' = client /\ place' = "start"
         /\ verdict' = "PASSED" => result \notin FailureStatus
<1>1. verdict' = "PASSED" => ~failed'
  BY DEF Leave, Complete, VerdictOf
<1>2. ~failed' => result \notin FailureStatus
  BY FailureStays DEF Leave, Complete
<1>3. QED
  BY <1>1, <1>2 DEF Leave, Complete, chosen

LEMMA FsStepRemoves ==
  ASSUME TypeOK, RemoveInv, FsStep
  PROVE  RemoveInv'
<1>1. dir \in 1..Dirs /\ Dirs \in Nat /\ file \in [1..Dirs -> FileState]
  BY FsAssumption DEF TypeOK, FsTypes
<1>2. at = "client" /\ client' = client /\ faults' = faults
  BY TestStep DEF chosen
<1>3. ASSUME NEW result \in FailureStatus, Leave(result)
      PROVE  RemoveInv'
  BY <1>3, LeaveVerdict DEF RemoveInv
<1>4. CASE CallError \/ CallShort
  BY <1>3, <1>4 DEF CallError, CallShort, FailureStatus
<1>5. CASE Source
  <2>1. CASE place' = "write" /\ Stay
    BY <1>2, <2>1 DEF RemoveInv, Stay, run, loop
  <2>2. CASE Leave("ftFail")
    BY <1>3, <2>2 DEF FailureStatus
  <2>3. QED
    BY <1>4, <1>5, <2>1, <2>2 DEF Source
<1>6. CASE AppendBlock
  <2>1. CASE Stay /\ dir' = dir + 1 /\ place' = "write"
    BY <1>2, <2>1 DEF RemoveInv, Stay, run, loop
  <2>2. CASE Stay /\ dir' = 1
    BY <1>1, <1>2, <2>2 DEF RemoveInv, Stay, run, loop
  <2>3. QED
    BY <1>4, <1>6, <2>1, <2>2 DEF AppendBlock, In
<1>7. CASE ReadBack
  <2>1. SUFFICES ASSUME client = "filesystem", "unlink" \notin faults
                 PROVE  RemoveInv'
    BY <1>2 DEF RemoveInv
  <2>2. DirCount = Dirs
    BY <2>1, FsAssumption DEF DirCount
  <2>3. place = "read" /\ \A d \in 1..Dirs : d < dir => file[d] = "none"
    BY <1>2, <1>7, <2>1 DEF ReadBack, In, RemoveInv
  <2>4. CASE Becomes("none") /\ dir < DirCount /\ dir' = dir + 1 /\ UNCHANGED place /\ Stay
    <3>1. \A d \in 1..Dirs : d < dir' => file'[d] = "none"
      BY <1>1, <2>3, <2>4 DEF Becomes
    <3>2. QED
      BY <1>2, <2>4, <3>1 DEF RemoveInv, Stay, run, loop
  <2>5. CASE Becomes("none") /\ dir = DirCount
             /\ Leave(IF file[dir] = "intact" THEN "ftPass" ELSE "ftFail")
    <3>1. \A d \in 1..Dirs : file'[d] = "none"
      BY <1>1, <2>2, <2>3, <2>5 DEF Becomes
    <3>2. at' = "returned" /\ place' = "start"
      BY <2>5, LeaveVerdict
    <3>3. QED
      BY <3>1, <3>2 DEF RemoveInv
  <2>6. CASE Leave("ftFail")
    BY <1>3, <2>6 DEF FailureStatus
  <2>7. QED
    BY <1>4, <1>7, <2>1, <2>4, <2>5, <2>6 DEF ReadBack
<1>8. QED
  BY <1>5, <1>6, <1>7 DEF FsStep

LEMMA RemoveNext ==
  ASSUME TypeOK, RemoveInv, [Next]_vars
  PROVE  RemoveInv'
<1>1. CASE (Call \/ Return \/ Interrupt) /\ UNCHANGED files
  <2>1. UNCHANGED <<client, faults, verdict, file, place, dir>>
    BY <1>1 DEF Call, Return, Interrupt, chosen, files
  <2>2. \/ at = "call" /\ at' = "client"
        \/ at = "returned" /\ at' \in {"call", "ended"}
        \/ at' = at
    BY <1>1 DEF Call, Return, Interrupt
  <2>3. QED
    BY <2>1, <2>2 DEF RemoveInv
<1>2. CASE DeviceStep
  <2>1. client \in DOMAIN Script /\ client' = client
    BY <1>2, TestStep DEF DeviceStep, Dram, Mounts, Open, Save, Header, Erase, Clear, Randomize,
                      Read, IsErased, IsClear, IsRandom, Restore, IsSaved, Finish, Op, chosen
  <2>2. QED
    BY <2>1, ScriptShape DEF RemoveInv
<1>3. CASE FsStep
  BY <1>3, FsStepRemoves
<1>4. CASE UNCHANGED vars
  BY <1>4 DEF vars, run, chosen, loop, files, RemoveInv
<1>5. QED
  BY <1>1, <1>2, <1>3, <1>4 DEF Next, Progress

\* Where every unlink does what it is asked for, a filesystem test that says PASSED has
\* left no fitFile behind, whatever failed in the iterations before it.
THEOREM PassedMeansRemovedHolds == Spec => []PassedMeansRemoved
<1>1. Init => RemoveInv
  BY DEF Init, RunInit, FsInit, RemoveInv
<1>2. TypeOK /\ RemoveInv /\ [Next]_vars => RemoveInv'
  BY RemoveNext
<1>3. RemoveInv => PassedMeansRemoved
  BY DEF RemoveInv, PassedMeansRemoved
<1>4. QED
  BY <1>1, <1>2, <1>3, FitTypeCorrect, PTL DEF Spec

------------------------------------------------------------------------------
(* Without faults everything passes.                                        *)

Comparisons == {"isErased", "isClear", "isRandom", "isSaved"}
Plain == {"mounts", "open", "save", "header", "erase", "clear", "randomize", "restore"}

\* What a call is followed by: what was written is read and compared, and after the
\* last comparison the test is over.
Follows(c, s) ==
  LET name == Script[c][s]
      next == Script[c][s + 1]
  IN
  /\ s = 1 => name \in {"open", "dram"}
  /\ name \in {"dram", "mounts"} => c = "memory"
  /\ name = "dram" => s = 1
  /\ name = "mounts" => s = 2
  /\ name = "erase" => next = "read" /\ Script[c][s + 2] = "isErased"
  /\ name = "clear" => next = "read" /\ Script[c][s + 2] = "isClear"
  /\ name = "randomize" => next = "read" /\ Script[c][s + 2] = "isRandom"
  /\ name = "restore" => next = "read" /\ Script[c][s + 2] = "isSaved"
  /\ name = "read" => next \in Comparisons
  /\ name = "isSaved" => next = "complete"
  /\ name \in {"dram", "mounts", "open", "save", "header", "isErased", "isClear", "isRandom"} =>
       next \in Plain

LEMMA DatakeyFollows ==
  ASSUME NEW s \in 1..Last("datakey")
  PROVE  Follows("datakey", s)
<1>1. s \in 1..15
  BY ScriptShape
<1>2. LET list == Script["datakey"] IN
      /\ list[1] = "open" /\ list[2] = "save" /\ list[3] = "erase" /\ list[4] = "read"
      /\ list[5] = "isErased" /\ list[6] = "clear" /\ list[7] = "read" /\ list[8] = "isClear"
      /\ list[9] = "erase" /\ list[10] = "read" /\ list[11] = "isErased"
      /\ list[12] = "restore" /\ list[13] = "read" /\ list[14] = "isSaved"
      /\ list[15] = "complete"
  BY DEF Script, DatakeyCalls
<1>3. QED
  BY <1>1, <1>2 DEF Follows, Comparisons, Plain

LEMMA EepromFollows ==
  ASSUME NEW s \in 1..Last("eeprom")
  PROVE  Follows("eeprom", s)
<1>1. s \in 1..10
  BY ScriptShape
<1>2. LET list == Script["eeprom"] IN
      /\ list[1] = "open" /\ list[2] = "save" /\ list[3] = "header" /\ list[4] = "clear"
      /\ list[5] = "read" /\ list[6] = "isClear" /\ list[7] = "restore" /\ list[8] = "read"
      /\ list[9] = "isSaved" /\ list[10] = "complete"
  BY DEF Script, EepromCalls
<1>3. QED
  BY <1>1, <1>2 DEF Follows, Comparisons, Plain

LEMMA MemoryFollows ==
  ASSUME NEW s \in 1..Last("memory")
  PROVE  Follows("memory", s)
<1>1. s \in 1..11
  BY ScriptShape
<1>2. LET list == Script["memory"] IN
      /\ list[1] = "dram" /\ list[2] = "mounts" /\ list[3] = "open" /\ list[4] = "save"
      /\ list[5] = "randomize" /\ list[6] = "read" /\ list[7] = "isRandom"
      /\ list[8] = "restore" /\ list[9] = "read" /\ list[10] = "isSaved"
      /\ list[11] = "complete"
  BY DEF Script, MemoryCalls
<1>3. QED
  BY <1>1, <1>2 DEF Follows, Comparisons, Plain

LEMMA EveryFollows ==
  ASSUME NEW c \in DOMAIN Script, NEW s \in 1..Last(c)
  PROVE  Follows(c, s)
BY ScriptShape, DatakeyFollows, EepromFollows, MemoryFollows

\* What a comparison looks for.
Sought(name) ==
  IF name = "isErased" THEN All("ones")
  ELSE IF name = "isClear" THEN All("zero")
  ELSE IF name = "isRandom" THEN All("rand")
  ELSE saved

\* What the next call of a script finds: a read gets what is compared with next.
Due ==
  LET name == Script[client][step] IN
  /\ name = "read" => dev = Sought(Script[client][step + 1])
  /\ name \in Comparisons => buf = Sought(name)
  /\ name = "complete" => passed = TRUE

\* The SRAM is mounted except while memoryFit is at work on it.
SramInv == sram = "mounted" \/ (sram = "ours" /\ client = "memory" /\ at = "client" /\ step > 2)

\* The files that are there: those of the directories written and not yet read.
FilesInv ==
  /\ dir \in 1..DirCount
  /\ at # "client" \/ place = "start" => dir = 1 /\ \A d \in 1..Dirs : file[d] = "none"
  /\ at # "client" => place = "start"
  /\ place = "write" =>
       \A d \in 1..Dirs : file[d] = IF d < dir THEN "intact" ELSE "none"
  /\ place = "read" =>
       \A d \in 1..Dirs : file[d] = IF dir <= d /\ d <= DirCount THEN "intact" ELSE "none"

NoFaultInv ==
  /\ failed = FALSE /\ verdict \in {"none", "PASSED"}
  /\ at \in {"call", "returned"} \/ client \notin DOMAIN Script => step = 1
  /\ SramInv
  /\ client \in DOMAIN Script /\ at = "client" => Due
  /\ client \in FsClients => FilesInv

\* A step of a script that changes neither device nor buffer.
LEMMA PlainNext ==
  ASSUME at' = "client", client \in DOMAIN Script, client' = client, step' = step + 1,
         Script[client][step + 1] \in Plain
  PROVE  Due'
BY DEF Due, Plain, Comparisons

LEMMA GoQuiet ==
  ASSUME NoFaultInv, NEW name, Op(name), NEW S, Go(S), S \cap FailureStatus = {}
  PROVE  /\ at = "client" /\ at' = "client" /\ client \in DOMAIN Script /\ client' = client
         /\ step' = step + 1 /\ failed' = FALSE /\ verdict' \in {"none", "PASSED"}
<1>1. failed' = (failed \/ S \cap FailureStatus # {}) /\ failed = FALSE
  BY DEF Go, Update, NoFaultInv
<1>2. failed' = FALSE
  BY <1>1
<1>3. QED
  BY <1>2 DEF Go, Op, chosen, loop, NoFaultInv

LEMMA QuietInv ==
  ASSUME NoFaultInv, ScriptsOwn, TypeOK, client \in DOMAIN Script, client' = client,
         at' = "client", failed' = FALSE, verdict' \in {"none", "PASSED"}, SramInv', Due'
  PROVE  NoFaultInv'
<1>1. client \in Clients
  BY DEF TypeOK, RunTypes, ChoiceTypes
<1>2. client \notin FsClients
  BY <1>1, FsAssumption, ScriptShape DEF ScriptsOwn, FsClients
<1>3. FsClients' = FsClients
  BY DEF FsClients
<1>4. QED
  BY <1>2, <1>3 DEF NoFaultInv

LEMMA DeviceStepPasses ==
  ASSUME ScriptsOwn, TypeOK, NoFaultInv, faults = {}, DeviceStep
  PROVE  NoFaultInv'
<1>1. StepTypes /\ step \in Nat
  BY DEF TypeOK, DeviceTypes, StepTypes
<1>2. ASSUME NEW name, Op(name)
      PROVE  /\ client \in DOMAIN Script /\ Script[client][step] = name /\ at = "client"
             /\ Follows(client, step) /\ Due
  BY <1>1, <1>2, AtPlace, EveryFollows DEF Op, NoFaultInv
<1>3. ~CallFails
  BY DEF CallFails
<1>4. ASSUME UNCHANGED sram, at' = "client", client' = client, step' = step + 1
      PROVE  SramInv'
  BY <1>1, <1>4 DEF NoFaultInv, SramInv
<1>5. CASE Dram
  <2>1. Op("dram") /\ UNCHANGED sram /\ Go({"ftPass"})
    BY <1>5 DEF Dram, DramStatuses
  <2>2. {"ftPass"} \cap FailureStatus = {}
    BY DEF FailureStatus
  <2>3. Script[client][step + 1] \in Plain
    BY <1>2, <2>1 DEF Follows
  <2>4. QED
    BY <1>4, <2>1, <2>2, <2>3, GoQuiet, PlainNext, QuietInv
<1>6. CASE Mounts
  <2>1. Op("mounts")
    BY <1>6 DEF Mounts
  <2>2. step = 2 /\ client = "memory" /\ Script[client][step + 1] \in Plain
    BY <1>2, <2>1 DEF Follows
  <2>3. sram = "mounted" /\ sram' = "ours" /\ Go({})
    BY <1>6, <2>2 DEF Mounts, NoFaultInv, SramInv
  <2>4. /\ at' = "client" /\ client \in DOMAIN Script /\ client' = client
        /\ step' = step + 1 /\ failed' = FALSE /\ verdict' \in {"none", "PASSED"}
    BY <2>1, <2>3, GoQuiet
  <2>5. SramInv'
    BY <2>2, <2>3, <2>4 DEF SramInv
  <2>6. QED
    BY <2>2, <2>4, <2>5, PlainNext, QuietInv
<1>7. CASE Open \/ Save \/ Header
  <2>1. PICK name \in {"open", "save", "header"} : Op(name)
    BY <1>7 DEF Open, Save, Header
  <2>2. UNCHANGED sram /\ Go({})
    BY <1>3, <1>7 DEF Open, Save, Header
  <2>3. Script[client][step + 1] \in Plain
    BY <1>2, <2>1 DEF Follows
  <2>4. QED
    BY <1>4, <2>1, <2>2, <2>3, GoQuiet, PlainNext, QuietInv
<1>8. CASE Erase \/ Clear \/ Randomize \/ Restore
  <2>1. PICK name \in {"erase", "clear", "randomize", "restore"} :
          /\ Op(name)
          /\ Store(CASE name = "erase" -> All("ones") [] name = "clear" -> All("zero")
                     [] name = "randomize" -> All("rand") [] name = "restore" -> saved)
    BY <1>8 DEF Erase, Clear, Randomize, Restore
  <2>2. UNCHANGED <<sram, saved>>
    BY <1>8 DEF Erase, Clear, Randomize, Restore
  <2>3. /\ dev' = CASE name = "erase" -> All("ones") [] name = "clear" -> All("zero")
                     [] name = "randomize" -> All("rand") [] name = "restore" -> saved
        /\ Go({})
    BY <1>3, <2>1 DEF Store
  <2>4. /\ at' = "client" /\ client \in DOMAIN Script /\ client' = client
        /\ step' = step + 1 /\ failed' = FALSE /\ verdict' \in {"none", "PASSED"}
    BY <2>1, <2>3, GoQuiet
  <2>5. /\ Script[client][step + 1] = "read"
        /\ Script[client][step + 2] =
             CASE name = "erase" -> "isErased" [] name = "clear" -> "isClear"
               [] name = "randomize" -> "isRandom" [] name = "restore" -> "isSaved"
    BY <1>2, <2>1 DEF Follows
  <2>6. Due'
    <3>1. PICK next : next = Script[client][step + 2]
      OBVIOUS
    <3>2. dev' = Sought(next)'
      BY <2>2, <2>3, <2>5, <3>1 DEF Sought, All
    <3>3. step' + 1 = step + 2
      BY <1>1, <2>4
    <3>4. Script[client'][step'] = "read" /\ Script[client'][step' + 1] = next
      BY <2>4, <2>5, <3>1, <3>3
    <3>5. QED
      BY <3>2, <3>4 DEF Due, Comparisons
  <2>7. QED
    BY <1>4, <2>2, <2>4, <2>6, QuietInv
<1>9. CASE Read
  <2>1. Op("read") /\ UNCHANGED <<dev, saved, sram>> /\ Go({}) /\ buf' = dev
    BY <1>3, <1>9 DEF Read
  <2>2. /\ at' = "client" /\ client \in DOMAIN Script /\ client' = client
        /\ step' = step + 1 /\ failed' = FALSE /\ verdict' \in {"none", "PASSED"}
    BY <2>1, GoQuiet
  <2>3. Script[client][step + 1] \in Comparisons /\ dev = Sought(Script[client][step + 1])
    BY <1>2, <2>1 DEF Follows, Due
  <2>4. Due'
    BY <2>1, <2>2, <2>3 DEF Due, Sought, Comparisons, All
  <2>5. QED
    BY <1>4, <2>1, <2>2, <2>4, QuietInv
<1>10. CASE IsErased \/ IsClear \/ IsRandom
  <2>1. PICK name \in {"isErased", "isClear", "isRandom"} :
          /\ Op(name) /\ UNCHANGED sram
          /\ \E pass \in {"ftPass", "none"}, fail \in {"ftFail", "ftError"} :
               Go({IF buf = Sought(name) THEN pass ELSE fail})
    BY <1>10 DEF IsErased, IsClear, IsRandom, Compare, Sought
  <2>2. buf = Sought(name) /\ Script[client][step + 1] \in Plain
    BY <1>2, <2>1 DEF Due, Comparisons, Follows
  <2>3. PICK pass \in {"ftPass", "none"} : Go({pass})
    BY <2>1, <2>2
  <2>4. {pass} \cap FailureStatus = {}
    BY DEF FailureStatus
  <2>5. QED
    BY <1>4, <2>1, <2>2, <2>3, <2>4, GoQuiet, PlainNext, QuietInv
<1>11. CASE IsSaved
  <2>1. Op("isSaved") /\ UNCHANGED sram /\ Go({IF buf = saved THEN "ftPass" ELSE "ftFail"})
    BY <1>11 DEF IsSaved, Compare
  <2>2. buf = saved /\ Script[client][step + 1] = "complete"
    <3>1. Script[client][step] = "isSaved" /\ Follows(client, step) /\ Due
      BY <1>2, <2>1
    <3>2. buf = Sought("isSaved")
      BY <3>1 DEF Due, Comparisons
    <3>3. Script[client][step + 1] = "complete"
      BY <3>1 DEF Follows
    <3>4. QED
      BY <3>2, <3>3 DEF Sought
  <2>3. Go({"ftPass"})
    BY <2>1, <2>2
  <2>4. {"ftPass"} \cap FailureStatus = {}
    BY DEF FailureStatus
  <2>5. /\ at' = "client" /\ client \in DOMAIN Script /\ client' = client
        /\ step' = step + 1 /\ failed' = FALSE /\ verdict' \in {"none", "PASSED"}
    BY <2>1, <2>3, <2>4, GoQuiet
  <2>6. passed' = TRUE
    BY <2>3 DEF Go, Update
  <2>7. Due'
    BY <2>2, <2>5, <2>6 DEF Due, Comparisons
  <2>8. QED
    BY <1>4, <2>1, <2>5, <2>7, QuietInv
<1>12. CASE Finish
  <2>1. Op("complete") /\ Complete({}) /\ step' = 1
    BY <1>12 DEF Finish
  <2>2. passed = TRUE /\ failed = FALSE /\ client \in DOMAIN Script
    BY <1>2, <2>1 DEF Due, NoFaultInv
  <2>3. passed' = TRUE /\ failed' = FALSE
    BY <2>1, <2>2 DEF Complete, Update
  <2>4. verdict' = "PASSED" /\ at' = "returned" /\ client' = client
    BY <2>1, <2>3 DEF Complete, VerdictOf, chosen
  <2>5. SramInv'
    BY <1>12 DEF Finish, NoFaultInv, SramInv
  <2>6. client \notin FsClients /\ FsClients' = FsClients
    BY <2>2, FsAssumption, ScriptShape DEF ScriptsOwn, FsClients, TypeOK, RunTypes, ChoiceTypes
  <2>7. QED
    BY <2>1, <2>3, <2>4, <2>5, <2>6 DEF NoFaultInv
<1>13. QED
  BY <1>5, <1>6, <1>7, <1>8, <1>9, <1>10, <1>11, <1>12 DEF DeviceStep

LEMMA FsStepPasses ==
  ASSUME ScriptsOwn, TypeOK, NoFaultInv, faults = {}, FsStep, UNCHANGED device
  PROVE  NoFaultInv'
<1>1. /\ dir \in 1..Dirs /\ Dirs \in Nat \ {0} /\ file \in [1..Dirs -> FileState]
      /\ DirCount \in 1..Dirs
  BY FsAssumption DEF TypeOK, FsTypes, DirCount
<1>2. client \notin DOMAIN Script
  BY FsClientsHaveNoScript
<1>3. at = "client" /\ client' = client /\ client \in FsClients
  BY TestStep DEF FsStep, Source, AppendBlock, ReadBack, In, chosen
<1>4. DirCount' = DirCount /\ FsClients' = FsClients
  BY <1>3 DEF DirCount, FsClients
<1>5. FilesInv
  BY <1>3 DEF NoFaultInv
<1>6. sram = "mounted" /\ sram' = "mounted"
  BY <1>2, ScriptShape DEF NoFaultInv, SramInv, device
<1>7. ASSUME FilesInv', failed' = FALSE, verdict' \in {"none", "PASSED"},
             step' = 1
      PROVE  NoFaultInv'
  BY <1>2, <1>3, <1>6, <1>7 DEF NoFaultInv, SramInv
<1>8. ~CallError /\ ~CallShort /\ ~MountFails /\ "stuck" \notin faults
  BY DEF CallError, CallShort, MountFails
<1>9. ASSUME Stay
      PROVE  failed' = FALSE /\ verdict' \in {"none", "PASSED"} /\ at' = "client"
  BY <1>3, <1>9 DEF Stay, run, loop, counters, NoFaultInv
<1> step' = 1
  BY <1>2 DEF NoFaultInv, device
<1>10. CASE Source
  <2>1. place = "start" /\ place' = "write" /\ Stay /\ UNCHANGED <<dir, file>>
    BY <1>8, <1>10 DEF Source, In
  <2>2. dir' = 1 /\ \A d \in 1..Dirs : file'[d] = "none"
    BY <1>5, <2>1 DEF FilesInv
  <2>3. FilesInv'
    BY <1>1, <1>4, <1>9, <2>1, <2>2 DEF FilesInv
  <2>4. QED
    BY <1>7, <1>9, <2>1, <2>3
<1>11. CASE AppendBlock
  <2>1. /\ place = "write" /\ Becomes(Appended(file[dir])) /\ Stay
        /\ \/ dir < DirCount /\ dir' = dir + 1 /\ place' = "write"
           \/ dir = DirCount /\ dir' = 1 /\ place' = "read"
    BY <1>8, <1>11 DEF AppendBlock, In
  <2>2. dir \in 1..DirCount /\ \A d \in 1..Dirs : file[d] = IF d < dir THEN "intact" ELSE "none"
    BY <1>5, <2>1 DEF FilesInv
  <2>3. Appended(file[dir]) = "intact"
    BY <1>1, <2>2 DEF Appended
  <2>4. \A d \in 1..Dirs : file'[d] = IF d <= dir THEN "intact" ELSE "none"
    BY <1>1, <2>1, <2>2, <2>3 DEF Becomes
  <2>5. FilesInv'
    BY <1>1, <1>4, <1>9, <2>1, <2>2, <2>4 DEF FilesInv
  <2>6. QED
    BY <1>7, <1>9, <2>1, <2>5
<1>12. CASE ReadBack
  <2>1. place = "read"
    BY <1>12 DEF ReadBack, In
  <2>2. /\ dir \in 1..DirCount
        /\ \A d \in 1..Dirs : file[d] = IF dir <= d /\ d <= DirCount THEN "intact" ELSE "none"
    BY <1>5, <2>1 DEF FilesInv
  <2>3. file[dir] = "intact"
    BY <1>1, <2>2
  <2>4. /\ Becomes("none")
        /\ \/ dir < DirCount /\ dir' = dir + 1 /\ UNCHANGED place /\ Stay
           \/ dir = DirCount /\ Leave("ftPass")
    BY <1>8, <1>12, <2>3 DEF ReadBack
  <2>5. \A d \in 1..Dirs : file'[d] = IF dir < d /\ d <= DirCount THEN "intact" ELSE "none"
    BY <1>1, <2>2, <2>4 DEF Becomes
  <2>6. CASE dir < DirCount /\ dir' = dir + 1 /\ UNCHANGED place /\ Stay
    <3>1. FilesInv'
      BY <1>1, <1>4, <1>9, <2>1, <2>2, <2>5, <2>6 DEF FilesInv
    <3>2. QED
      BY <1>7, <1>9, <2>6, <3>1
  <2>7. CASE dir = DirCount /\ Leave("ftPass")
    <3>1. /\ place' = "start" /\ dir' = 1 /\ at' = "returned"
          /\ passed' = TRUE /\ failed' = (failed \/ {"ftPass"} \cap FailureStatus # {})
          /\ verdict' = VerdictOf(passed', failed')
      BY <2>7 DEF Leave, Complete, Update
    <3>2. failed' = FALSE
      <4>1. {"ftPass"} \cap FailureStatus = {} /\ failed = FALSE
        BY DEF FailureStatus, NoFaultInv
      <4>2. QED
        BY <3>1, <4>1
    <3>3. verdict' = "PASSED"
      BY <3>1, <3>2 DEF VerdictOf
    <3>4. \A d \in 1..Dirs : file'[d] = "none"
      BY <1>1, <2>5, <2>7
    <3>5. FilesInv'
      BY <1>1, <1>4, <3>1, <3>4 DEF FilesInv
    <3>6. QED
      BY <1>7, <3>1, <3>2, <3>3, <3>5
  <2>8. QED
    BY <2>4, <2>6, <2>7
<1>13. QED
  BY <1>10, <1>11, <1>12 DEF FsStep

LEMMA NoFaultNext ==
  ASSUME ScriptsOwn, TypeOK, NoFaultInv, faults = {}, [Next]_vars
  PROVE  NoFaultInv'
<1>1. CASE Call /\ UNCHANGED <<device, files>>
  <2>1. /\ at = "call" /\ at' = "client" /\ client' = client /\ verdict' = verdict
        /\ failed' = (failed /\ client \in OwnCounters) /\ UNCHANGED <<step, sram, file, dir, place>>
    BY <1>1 DEF Call, chosen, device, files
  <2>2. failed' = FALSE /\ step' = 1 /\ sram' = "mounted"
    BY <2>1 DEF NoFaultInv, SramInv
  <2>3. client \in DOMAIN Script => Due'
    <3>1. SUFFICES ASSUME client \in DOMAIN Script PROVE Due'
      OBVIOUS
    <3>2. 1 \in 1..Last(client)
      BY <3>1, ScriptShape
    <3>3. Script[client][1] \in {"open", "dram"}
      BY <3>1, <3>2, EveryFollows DEF Follows
    <3>4. QED
      BY <2>1, <2>2, <3>3 DEF Due, Comparisons
  <2>4. client \in FsClients => FilesInv'
    BY <2>1 DEF NoFaultInv, FilesInv, DirCount
  <2>5. FsClients' = FsClients
    BY DEF FsClients
  <2>6. QED
    BY <2>1, <2>2, <2>3, <2>4, <2>5 DEF NoFaultInv, SramInv
<1>2. CASE (Return \/ Interrupt) /\ UNCHANGED <<device, files>>
  <2>1. /\ client' = client /\ verdict' = verdict /\ failed' = failed /\ passed' = passed
        /\ UNCHANGED <<dev, buf, saved, step, sram, file, dir, place>>
    BY <1>2 DEF Return, Interrupt, chosen, counters, device, files
  <2>2. (at = "returned" /\ at' \in {"call", "ended"}) \/ at' = at
    BY <1>2 DEF Return, Interrupt
  <2>3. FsClients' = FsClients
    BY DEF FsClients
  <2>4. client \in FsClients => FilesInv'
    BY <2>1, <2>2 DEF NoFaultInv, FilesInv, DirCount
  <2>5. client \in DOMAIN Script /\ at' = "client" => Due'
    BY <2>1, <2>2 DEF NoFaultInv, Due, Sought, All
  <2>6. QED
    BY <2>1, <2>2, <2>3, <2>4, <2>5 DEF NoFaultInv, SramInv
<1>3. CASE DeviceStep
  BY <1>3, DeviceStepPasses
<1>4. CASE FsStep /\ UNCHANGED device
  BY <1>4, FsStepPasses
<1>5. CASE UNCHANGED vars
  BY <1>5 DEF vars, run, chosen, loop, counters, device, files, NoFaultInv, SramInv, Due, Sought,
       All, FilesInv, DirCount, FsClients
<1>6. QED
  BY <1>1, <1>2, <1>3, <1>4, <1>5 DEF Next, Progress

\* With devices and media that do what they should, every iteration of every test passes,
\* whatever the device held, however many directories there are, and however often the
\* test is called (the calls of datakeyFit.c, eepromFit.c, memoryFit.c and fsFit.c).
THEOREM FaultFreePassesHolds ==
  ASSUME ScriptsOwn
  PROVE  Spec => []FaultFreePasses
<1> DEFINE Inv == faults = {} => NoFaultInv
<1>1. Init => Inv
  <2> SUFFICES ASSUME Init PROVE NoFaultInv
    OBVIOUS
  <2>1. DirCount \in Nat \ {0}
    BY FsAssumption DEF DirCount
  <2>2. FilesInv
    BY <2>1 DEF Init, RunInit, FsInit, FilesInv
  <2>3. QED
    BY <2>2 DEF Init, RunInit, DeviceInit, NoFaultInv, SramInv
<1>2. TypeOK /\ Inv /\ [Next]_vars => Inv'
  <2>1. [Next]_vars => faults' = faults
    BY TestStep DEF Next, Progress, Call, Return, Interrupt, chosen, vars, run
  <2>2. QED
    BY <2>1, NoFaultNext
<1>3. Inv => FaultFreePasses
  BY DEF NoFaultInv, FaultFreePasses
<1>4. QED
  BY <1>1, <1>2, <1>3, FitTypeCorrect, PTL DEF Spec
===============================================================================
