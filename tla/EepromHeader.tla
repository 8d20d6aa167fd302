----------------------------- MODULE EepromHeader -----------------------------
(****************************************************************************)
(* The header of the EEPROM (src/eepromFit.c): what eeHdrOps does with the  *)
(* copy of the device, operation by operation and prompt by prompt, in one  *)
(* call of the program after the other.  DeviceTest has the rest of the     *)
(* call; here its last write succeeds.                                      *)
(*                                                                          *)
(* Numbers keep their width, texts are numbers, and a CRC is the contents   *)
(* it was generated from.  A set function asks all of its questions in one  *)
(* step: nobody else sees the copy.                                         *)
(****************************************************************************)
EXTENDS Integers, Sequences, FiniteSets, TLC

CONSTANTS
  Requests,           \* the operations the user may ask of one call, a set of sets
  Typed,              \* the numbers the user may type for a member
  PortsTyped,         \* the ports the user may enable in a map
  ModuleAnswers, EthAnswers, PortAnswers,  \* the answers the user may give for one entry
  Cuts,               \* where a file may end, a set of members
  eeSize,             \* the size of the device
  MaxExpanded,        \* bound: members but the CRCs that the user expands in all
  MaxRuns             \* bound: calls of the program

ASSUME HeaderAssumption ==
  /\ Typed \subseteq Nat /\ eeSize \in 256..1024
  /\ MaxExpanded \in Nat /\ MaxRuns \in Nat \ {0}

VARIABLES
  ee, hp,             \* the header in the device, and in the copy
  file,               \* the file of -l and -s: the header in it and how much of it
  asked, op,          \* hdrOps, and the operation the call is at
  member, expanded,   \* eeEditHdr: the member it is at; how many the user said y to
  touched, said,      \* the CRCs of those of this pass; the CRCs the user said y to in it
  good, goodEe,       \* the CRCs that must be right in the copy, and in the device
  runs

header == <<ee, hp, file, asked, op, member, expanded, touched, said, good, goodEe, runs>>

------------------------------------------------------------------------------
(* eeprom_v1 and its members, in the order of eeEdit and of the layout.      *)

Bytes == {"t_lines", "t_cols", "g_rows0", "g_cols0", "spi3use", "spi4use", "expbus"}
Wide == {"contr_id"}
Texts == {"latitude", "longitude", "res_agency", "user_data"}
PortMaps == {"ports_used", "ports_pres", "sb1", "sb2", "ts2"}
Covered ==
  [crc1 |-> {"version", "size", "modules", "module", "ethdevs", "ethdev", "ports", "port"}
              \cup Bytes \cup PortMaps,
   crc2 |-> {"latitude", "longitude", "contr_id", "com_drop", "res_agency"}]
Crcs == DOMAIN Covered
Members == Covered["crc1"] \cup Covered["crc2"] \cup {"crc1", "crc2", "user_data"}

\* Mutant: crc1 is offered before the last members that it covers.
MembersCrcEarly ==
  <<"version", "size", "modules", "module", "t_lines", "t_cols", "g_rows0", "g_cols0",
    "ethdevs", "ethdev", "spi3use", "spi4use", "ports_used", "ports", "port", "crc1",
    "ports_pres", "sb1", "sb2", "ts2", "expbus", "latitude", "longitude", "contr_id",
    "com_drop", "res_agency", "crc2", "user_data">>

eeEdit ==
  <<"version", "size", "modules", "module", "t_lines", "t_cols", "g_rows0", "g_cols0",
    "ethdevs", "ethdev", "spi3use", "spi4use", "ports_used", "ports", "port", "ports_pres",
    "sb1", "sb2", "ts2", "expbus", "crc1", "latitude", "longitude", "contr_id", "com_drop",
    "res_agency", "crc2", "user_data">>

\* A file ends with a member.
ASSUME CutsAssumption == Cuts \subseteq Members

genCrc(h, crc) == <<[f \in Covered[crc] |-> h[f]]>>
Verifies(h) == \A crc \in Crcs : h[crc] = genCrc(h, crc)

\* memset 0xff.
ErasedMember(m) ==
  CASE m \in Bytes \cup {"version", "modules", "ethdevs", "ports"} -> 255
    [] m \in Wide \cup Texts \cup {"size", "com_drop"} -> 65535
    [] m \in PortMaps -> {"sp1", "sp1s", "sp2", "sp2s", "sp3", "sp3s", "sp4", "sp5s", "sp6",
                          "sp8", "sp8s", "spares"}
    [] m \in Crcs -> <<>>
    [] m = "module" -> [i \in 0..3 |-> [location |-> 255, year |-> 65535, mon |-> 255,
                                        day |-> 255, type |-> 255]]
    [] m = "ethdev" -> [i \in 0..1 |-> [type |-> 255, addr |-> 65535, interface |-> 255]]
    [] m = "port" -> [i \in 0..10 |-> [id |-> 255, mode |-> 255, speed |-> 65535]]
Erased == [m \in Members |-> ErasedMember(m)]

WithCrcs(h) ==
  [m \in DOMAIN h \cup Crcs |-> IF m \in Crcs THEN genCrc(h, m) ELSE h[m]]

eeDefaultHdr ==
  LET inUse == {"sp1", "sp2", "sp3s", "sp4", "sp5s", "sp6", "sp8", "sp8s"}
      located == <<2, 3, 1, 6>>
      ids == <<1, 2, 3, 4, 5, 6, 8, 9, 10, 12, 13>>
      modes == <<1, 1, 3, 1, 3, 1, 1, 0, 0, 2, 0>>
      speeds == <<9600, 9600, 153600, 115200, 614400, 38400, 9600, 0, 0, 0, 0>>
  IN  WithCrcs(
        [version |-> 1, size |-> 203, modules |-> 4, t_lines |-> 16, t_cols |-> 40,
         g_rows0 |-> 0, g_cols0 |-> 0, ethdevs |-> 2, spi3use |-> 2, spi4use |-> 1,
         ports |-> 11, expbus |-> 0, latitude |-> 0, longitude |-> 0, contr_id |-> 65535,
         com_drop |-> 65535, res_agency |-> 65535, user_data |-> 65535,
         ports_used |-> inUse, ports_pres |-> inUse,
         sb1 |-> {"sp5s"}, sb2 |-> {"sp3s"}, ts2 |-> {"sp3s"},
         module |-> [i \in 0..3 |-> [location |-> located[i + 1], year |-> 8212, mon |-> 1,
                                     day |-> 1, type |-> 2]],
         ethdev |-> [i \in 0..1 |-> [type |-> 4, addr |-> 0, interface |-> 2]],
         port |-> [i \in 0..10 |-> [id |-> ids[i + 1], mode |-> modes[i + 1],
                                    speed |-> speeds[i + 1]]]])

------------------------------------------------------------------------------
(* The set functions: the headers that the answers of the user can lead to.  *)

Byte(n) == n % 256
Word(n) == n % 65536
to2digitBCD(n) == ((n % 100) \div 10) * 16 + (n % 10)
to4digitBCD(n) ==
  (((n % 10000) \div 1000) + ((n % 1000) \div 100) + ((n % 100) \div 10)) * 16 + (n % 10)
FirstDigit(n) == CHOOSE d \in 0..9 : \E e \in 0..5 : n \div 10^e = d /\ (d > 0 \/ n = 0)

\* Years 1 to 5 are the entries of a menu, months and days are typed as BCD.
Years == <<8215, 8212, 8201, 8199, 8196>>
LastDay(mon) ==
  CASE mon = 2 -> 41 [] mon \in {4, 6, 9, 17} -> 48 [] mon \in {1, 3, 5, 7, 8, 16, 18} -> 49
    [] OTHER -> 0

\* A location that is not on the menu leaves the member; so does an index of 4.
ModuleSet(e, a) ==
  LET mon == IF a.mon \in (1..9 \cup 16..18) THEN to2digitBCD(a.mon) ELSE e.mon
  IN  IF a.location > 6 THEN e
      ELSE [location |-> a.location,
            year |-> IF a.year \in 1..5 THEN Years[a.year] ELSE to4digitBCD(a.year),
            mon |-> mon,
            day |-> IF a.day \in 1..LastDay(mon) THEN to2digitBCD(a.day) ELSE e.day,
            type |-> IF a.type < 4 THEN to2digitBCD(a.type) ELSE e.type]

\* The type is judged by the one that was there before.
EthSet(e, a) ==
  [type |-> IF e.type <= 5 THEN Byte(a.type) ELSE e.type,
   addr |-> a.addr,
   interface |-> IF Byte(a.interface) <= 4 THEN Byte(a.interface) ELSE e.interface]

Speeds == {0, 1200, 1312, 2400, 4800, 9600, 19200, 38400, 57600, 76800, 115200, 153600, 614400}
PortSet(e, a) ==
  [id |-> IF Byte(a.id) <= 13 THEN Byte(a.id) ELSE e.id,
   mode |-> IF Byte(a.mode) <= 4 THEN Byte(a.mode) ELSE e.mode,
   speed |-> IF a.speed \in Speeds THEN a.speed ELSE e.speed]

\* An entry of a table, one at a time until the user quits; here one, or none.
TableSet(table, answers, Set(_, _)) ==
  {table} \cup {[table EXCEPT ![i] = Set(@, a)] : i \in DOMAIN table, a \in answers}

\* What the set function of a member can store.
Stored(m) ==
  CASE m \in Bytes -> {Byte(n) : n \in Typed}
    [] m \in Wide -> {Word(n) : n \in Typed}
    [] m \in Texts -> Typed \cup {hp[m]}
    [] m = "size" -> {Word(n) : n \in Typed} \cup {203}
    [] m = "version" -> {IF FirstDigit(n) \in {1, 2} THEN Byte(n) ELSE hp[m] : n \in Typed}
    [] m = "modules" -> {4}
    [] m \in {"ethdevs", "ports"} -> {2}
    [] m \in PortMaps -> {hp[m] \cup S : S \in SUBSET PortsTyped}
    [] m = "module" -> TableSet(hp[m], ModuleAnswers, ModuleSet)
    [] m = "ethdev" -> TableSet(hp[m], EthAnswers, EthSet)
    [] m = "port" -> TableSet(hp[m], PortAnswers, PortSet)
    [] m \in Crcs -> {genCrc(hp, m)}

\* Mutant: setTs2 stores into sb2.
TargetCopied(m) ==
  CASE m = "com_drop" -> "contr_id" [] m = "ts2" -> "sb2" [] OTHER -> m

\* setCom_drop stores into contr_id.
Target(m) == IF m = "com_drop" THEN "contr_id" ELSE m

Stores(m) == LET t == Target(m) IN {[hp EXCEPT ![t] = v] : v \in Stored(t)}

------------------------------------------------------------------------------
(* setUser_data copies as many bytes as size leaves, whatever was typed.     *)

MUST_BE_BIG_ENOUGH == 512
UserDataAt == 252

\* Mutant: without the second adjustment.
UserDataUnclipped(size) == IF size = 0 THEN 4 ELSE Word(size - UserDataAt)

UserDataSize(size) ==
  LET left == UserDataUnclipped(size)
  IN  IF left >= MUST_BE_BIG_ENOUGH THEN left - MUST_BE_BIG_ENOUGH ELSE left

\* The copy reads the line that was typed and writes to the end of the device.
Overruns(size) == UserDataSize(size) > MUST_BE_BIG_ENOUGH \/ UserDataSize(size) > eeSize - UserDataAt

------------------------------------------------------------------------------
(* eeHdrOps, in its order.  verify and print change nothing.                 *)

hdrOps == <<"init", "default", "load", "edit", "save", "restore">>
NextOp == hdrOps[(CHOOSE i \in 1..5 : hdrOps[i] = op) + 1]
At(o) == op = o /\ o \in asked

pass == <<member, expanded, touched, said>>

Call ==
  /\ op \in {"idle", "overrun"} /\ runs < MaxRuns
  /\ runs' = runs + 1 /\ op' = "init" /\ asked' \in Requests
  /\ hp' = ee /\ good' = goodEe
  /\ UNCHANGED <<ee, file, pass, goodEe>>

Done == op' = NextOp /\ UNCHANGED <<ee, asked, pass, goodEe, runs>>

Skip ==
  /\ op \notin {"idle", "overrun", "restore"} /\ op \notin asked
  /\ Done /\ UNCHANGED <<hp, file, good>>

Initialize == At("init") /\ hp' = Erased /\ good' = {} /\ Done /\ UNCHANGED file

Default == At("default") /\ hp' = eeDefaultHdr /\ good' = Crcs /\ Done /\ UNCHANGED file

\* The process ends, and the device keeps what it had.
Exit(to) ==
  /\ op' = to /\ member' = 1 /\ touched' = {} /\ said' = {}
  /\ UNCHANGED <<ee, hp, file, asked, expanded, good, goodEe, runs>>

\* What lies over what, up to and with the member of an index.
Position(m) == CHOOSE i \in 1..Len(eeEdit) : eeEdit[i] = m
Over(top, bottom, last) ==
  [m \in DOMAIN bottom |-> IF Position(m) <= last THEN top[m] ELSE bottom[m]]

\* A short file is read over a part of the copy, and one that cannot be opened over
\* none; only a complete one is verified.
eeLoadHdr ==
  /\ At("load")
  /\ \/ /\ file.kept < Len(eeEdit) \/ Verifies(file.image)
        /\ hp' = Over(file.image, hp, file.kept)
        /\ good' = IF file.kept = Len(eeEdit) THEN Crcs
                   ELSE {c \in good : \A m \in Covered[c] \cup {c} : Position(m) > file.kept}
        /\ Done /\ UNCHANGED file
     \/ file.kept = Len(eeEdit) /\ ~Verifies(file.image) /\ Exit("idle")

\* The next member, or after the last one, or q, the next operation.
Leave ==
  /\ op' = NextOp /\ member' = 1
  /\ good' = said' \cup (good \ touched')
MoveOn ==
  \/ member < Len(eeEdit) /\ member' = member + 1 /\ UNCHANGED <<op, good>>
  \/ member = Len(eeEdit) /\ Leave
Prompt == At("edit") /\ UNCHANGED <<ee, file, asked, goodEe, runs>>

\* n, or anything that is not asked for.
Keep == Prompt /\ UNCHANGED <<hp, expanded, touched, said>> /\ MoveOn

\* y.
Expand ==
  LET m == eeEdit[member] IN
  /\ Prompt
  /\ m = "user_data" => ~Overruns(hp.size)
  /\ hp' \in Stores(m)
  /\ \/ m \in Crcs /\ said' = said \cup {m} /\ UNCHANGED <<expanded, touched>>
     \/ /\ m \notin Crcs /\ expanded < MaxExpanded
        /\ expanded' = expanded + 1
        /\ touched' = touched \cup {c \in Crcs : m \in Covered[c]}
        /\ UNCHANGED said
  /\ MoveOn

\* y for user_data, when it copies more than there is.
Overrun ==
  /\ At("edit") /\ eeEdit[member] = "user_data" /\ expanded < MaxExpanded
  /\ Overruns(hp.size) /\ Exit("overrun")

\* q.
Quit == Prompt /\ UNCHANGED <<hp, expanded, touched, said>> /\ Leave

eeSaveHdr ==
  /\ At("save")
  /\ \/ UNCHANGED file
     \/ /\ Verifies(hp)
        /\ \E last \in {Position(m) : m \in Cuts} \cup {Len(eeEdit)} :
             file' = [image |-> Over(hp, file.image, last),
                      kept |-> IF last > file.kept THEN last ELSE file.kept]
  /\ Done /\ UNCHANGED <<hp, good>>

\* The rest of eepromFit writes the copy back.
Restore ==
  /\ op = "restore"
  /\ ee' = hp /\ goodEe' = good /\ op' = "idle"
  /\ touched' = {} /\ said' = {}
  /\ UNCHANGED <<hp, file, asked, member, expanded, good, runs>>

\* A device that was never written, or that holds the default header.
Init ==
  /\ \/ ee = Erased /\ goodEe = {}
     \/ ee = eeDefaultHdr /\ goodEe = Crcs
  /\ hp = ee /\ good = goodEe
  /\ file = [image |-> Erased, kept |-> 0]
  /\ asked = {} /\ op = "idle" /\ runs = 0
  /\ member = 1 /\ expanded = 0 /\ touched = {} /\ said = {}

Next ==
  \/ Call \/ Skip \/ Initialize \/ Default \/ eeLoadHdr \/ Keep \/ Expand \/ Overrun \/ Quit
  \/ eeSaveHdr \/ Restore

Spec == Init /\ [][Next]_header

------------------------------------------------------------------------------
\* One pass of the editor is enough: a CRC that the user says y to in it, or that was
\* right and of whose members he said y to none, is right when the pass is over, whatever
\* the order of the members, and stays so over calls, files and calls that were cut off.
OnePassSuffices ==
  /\ op \notin {"edit", "overrun"} => \A c \in good : hp[c] = genCrc(hp, c)
  /\ \A c \in goodEe : ee[c] = genCrc(ee, c)

\* A prompt changes the member that it names: com_drop alone stores elsewhere.
OnlyNamed ==
  [][\A m \in DOMAIN hp :
       (op = "edit" /\ hp'[m] # hp[m]) => (m = eeEdit[member] \/ eeEdit[member] = "com_drop")]_header

\* user_data can be written with a size that was left at 0, or that lies between the
\* header and the end of the device: only other sizes, the recommended 203 among them,
\* make setUser_data copy more than it was given or more than there is room for.
SafeSizes == op = "overrun" => hp.size \notin {0} \cup UserDataAt..eeSize
===============================================================================
