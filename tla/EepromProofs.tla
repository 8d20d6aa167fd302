----------------------------- MODULE EepromProofs -----------------------------
(****************************************************************************)
(* Proofs about the header of the EEPROM, for every number of calls, files, *)
(* answers of the user and size of the device.                              *)
(****************************************************************************)
EXTENDS EepromHeader, TLAPS

------------------------------------------------------------------------------
(* The layout.                                                              *)

\* Where each member lies.
Index ==
  [version |-> 1, size |-> 2, modules |-> 3, module |-> 4, t_lines |-> 5, t_cols |-> 6,
   g_rows0 |-> 7, g_cols0 |-> 8, ethdevs |-> 9, ethdev |-> 10, spi3use |-> 11, spi4use |-> 12,
   ports_used |-> 13, ports |-> 14, port |-> 15, ports_pres |-> 16, sb1 |-> 17, sb2 |-> 18,
   ts2 |-> 19, expbus |-> 20, crc1 |-> 21, latitude |-> 22, longitude |-> 23, contr_id |-> 24,
   com_drop |-> 25, res_agency |-> 26, crc2 |-> 27, user_data |-> 28]

LEMMA CrcNames == Crcs = {"crc1", "crc2"}
BY DEF Crcs, Covered

LEMMA MemberNames ==
  /\ Members = DOMAIN Index
  /\ Covered["crc1"] \subseteq Members /\ Covered["crc2"] \subseteq Members
BY DEF Members, Covered, Index, Bytes, PortMaps

LEMMA IndexOfEntry ==
  /\ Len(eeEdit) = 28
  /\ \A i \in 1..28 : eeEdit[i] \in DOMAIN Index /\ Index[eeEdit[i]] = i
<1>1. Len(eeEdit) = 28
  BY DEF eeEdit
<1>2. ASSUME NEW i \in 1..28 PROVE eeEdit[i] \in DOMAIN Index /\ Index[eeEdit[i]] = i
  BY DEF eeEdit, Index
<1>3. QED
  BY <1>1, <1>2

LEMMA EntryOfIndex ==
  ASSUME NEW m \in DOMAIN Index
  PROVE  Index[m] \in 1..28 /\ eeEdit[Index[m]] = m
BY DEF eeEdit, Index

LEMMA Positions ==
  ASSUME NEW m \in Members
  PROVE  Position(m) = Index[m]
<1>1. m \in DOMAIN Index
  BY MemberNames
<1>2. \E i \in 1..Len(eeEdit) : eeEdit[i] = m
  BY <1>1, EntryOfIndex, IndexOfEntry
<1>3. Position(m) \in 1..28 /\ eeEdit[Position(m)] = m
  BY <1>2, IndexOfEntry DEF Position
<1>4. QED
  BY <1>3, IndexOfEntry

\* A CRC comes after all members that it covers.
LEMMA CrcsComeLast ==
  ASSUME NEW c \in Crcs, NEW m \in Covered[c]
  PROVE  m \in Members /\ Index[m] < Index[c] /\ m \notin Crcs
<1>1. CASE c = "crc1"
  BY <1>1, CrcNames DEF Members, Covered, Index, Bytes, PortMaps
<1>2. CASE c = "crc2"
  BY <1>2, CrcNames DEF Members, Covered, Index
<1>3. QED
  BY <1>1, <1>2, CrcNames

------------------------------------------------------------------------------
(* What a prompt changes.                                                   *)

\* A prompt of the editor stores into the member that it names, com_drop into contr_id,
\* for every answer of the user (eepromFit.c, eeEditHdr and the set functions).
THEOREM OnlyNamedHolds == Spec => OnlyNamed
<1>1. ASSUME [Next]_header, NEW m \in DOMAIN hp, op = "edit", hp'[m] # hp[m]
      PROVE  m = eeEdit[member] \/ eeEdit[member] = "com_drop"
  <2>1. Expand
    BY <1>1 DEF Next, Call, Skip, Initialize, Default, Exit, eeLoadHdr, Keep, Overrun, Quit,
         eeSaveHdr, Restore, At, header
  <2>2. PICK v : hp' = [hp EXCEPT ![Target(eeEdit[member])] = v]
    BY <2>1 DEF Expand, Stores
  <2>3. m = Target(eeEdit[member])
    BY <1>1, <2>2
  <2>4. QED
    BY <2>3 DEF Target
<1>2. [Next]_header =>
        [\A m \in DOMAIN hp :
           (op = "edit" /\ hp'[m] # hp[m]) => (m = eeEdit[member] \/ eeEdit[member] = "com_drop")]_header
  BY <1>1
<1>3. QED
  BY <1>2, PTL DEF Spec, OnlyNamed

------------------------------------------------------------------------------
(* Headers.                                                                 *)

Header(h) == h = [m \in Members |-> h[m]]
Right(h, c) == h[c] = genCrc(h, c)

LEMMA SameCrc ==
  ASSUME NEW c, NEW h, NEW k, \A m \in Covered[c] : h[m] = k[m]
  PROVE  genCrc(h, c) = genCrc(k, c)
BY DEF genCrc

LEMMA ErasedIsHeader == Header(Erased)
BY DEF Header, Erased

\* A header to which its CRCs are added has the right ones.
LEMMA WithCrcsIsRight ==
  ASSUME NEW h, DOMAIN h \cup Crcs = Members
  PROVE  /\ Header(WithCrcs(h))
         /\ \A c \in Crcs : Right(WithCrcs(h), c)
<1>1. Header(WithCrcs(h))
  BY DEF Header, WithCrcs
<1>2. ASSUME NEW c \in Crcs PROVE Right(WithCrcs(h), c)
  <2>1. c \in Members
    OBVIOUS
  <2>2. WithCrcs(h)[c] = genCrc(h, c)
    BY DEF WithCrcs
  <2>3. \A m \in Covered[c] : WithCrcs(h)[m] = h[m]
    BY CrcsComeLast DEF WithCrcs
  <2>4. QED
    BY <2>2, <2>3, SameCrc DEF Right
<1>3. QED
  BY <1>1, <1>2

\* The CRCs of the default header are right.
LEMMA DefaultIsRight ==
  /\ Header(eeDefaultHdr)
  /\ \A c \in Crcs : Right(eeDefaultHdr, c)
<1> DEFINE inUse == {"sp1", "sp2", "sp3s", "sp4", "sp5s", "sp6", "sp8", "sp8s"}
           located == <<2, 3, 1, 6>>
           ids == <<1, 2, 3, 4, 5, 6, 8, 9, 10, 12, 13>>
           modes == <<1, 1, 3, 1, 3, 1, 1, 0, 0, 2, 0>>
           speeds == <<9600, 9600, 153600, 115200, 614400, 38400, 9600, 0, 0, 0, 0>>
           modules == [i \in 0..3 |-> [location |-> located[i + 1], year |-> 8212, mon |-> 1,
                                       day |-> 1, type |-> 2]]
           ethdevs == [i \in 0..1 |-> [type |-> 4, addr |-> 0, interface |-> 2]]
           portlist == [i \in 0..10 |-> [id |-> ids[i + 1], mode |-> modes[i + 1],
                                         speed |-> speeds[i + 1]]]
           plain(a, b, d, e) ==
             [version |-> 1, size |-> 203, modules |-> 4, t_lines |-> 16, t_cols |-> 40,
              g_rows0 |-> 0, g_cols0 |-> 0, ethdevs |-> 2, spi3use |-> 2, spi4use |-> 1,
              ports |-> 11, expbus |-> 0, latitude |-> 0, longitude |-> 0, contr_id |-> 65535,
              com_drop |-> 65535, res_agency |-> 65535, user_data |-> 65535,
              ports_used |-> a, ports_pres |-> a,
              sb1 |-> {"sp5s"}, sb2 |-> {"sp3s"}, ts2 |-> {"sp3s"},
              module |-> b, ethdev |-> d, port |-> e]
<1>1. eeDefaultHdr = WithCrcs(plain(inUse, modules, ethdevs, portlist))
  BY DEF eeDefaultHdr
<1>2. ASSUME NEW a, NEW b, NEW d, NEW e
      PROVE  DOMAIN plain(a, b, d, e) \cup Crcs = Members
  BY CrcNames DEF Members, Covered, Bytes, PortMaps
<1> HIDE DEF plain
<1>3. QED
  BY <1>1, <1>2, WithCrcsIsRight

LEMMA OverIsHeader ==
  ASSUME NEW top, NEW bottom, NEW last \in Nat, Header(bottom)
  PROVE  /\ Header(Over(top, bottom, last))
         /\ \A m \in Members :
              Over(top, bottom, last)[m] = IF Index[m] <= last THEN top[m] ELSE bottom[m]
<1>1. DOMAIN bottom = Members
  BY DEF Header
<1>2. \A m \in Members : Position(m) = Index[m]
  BY Positions
<1>3. Over(top, bottom, last) = [m \in Members |-> IF Index[m] <= last THEN top[m] ELSE bottom[m]]
  BY <1>1, <1>2 DEF Over
<1>4. QED
  BY <1>3 DEF Header

\* A store into a member that a CRC does not cover leaves it right, and so does one
\* into another CRC.
LEMMA StoreElsewhere ==
  ASSUME NEW h, NEW t \in Members, NEW v, NEW c \in Crcs, Header(h), Right(h, c),
         t \notin Covered[c], t # c
  PROVE  Right([h EXCEPT ![t] = v], c)
<1> DEFINE k == [h EXCEPT ![t] = v]
<1>1. DOMAIN h = Members
  BY DEF Header
<1>2. \A m \in Members : m # t => k[m] = h[m]
  BY <1>1
<1>3. \A m \in Covered[c] : m \in Members
  BY CrcsComeLast
<1>4. \A m \in Covered[c] : k[m] = h[m]
  BY <1>2, <1>3
<1>5. k[c] = h[c]
  BY <1>2, CrcNames DEF Members
<1> HIDE DEF k
<1>6. Right(k, c)
  BY <1>4, <1>5, SameCrc DEF Right
<1>7. QED
  BY <1>6 DEF k

\* A CRC that is stored is right.
LEMMA StoreCrc ==
  ASSUME NEW h, NEW c \in Crcs, Header(h)
  PROVE  Right([h EXCEPT ![c] = genCrc(h, c)], c)
<1> DEFINE k == [h EXCEPT ![c] = genCrc(h, c)]
<1>1. DOMAIN h = Members /\ c \in Members
  BY CrcNames DEF Header, Members
<1>2. k[c] = genCrc(h, c) /\ \A m \in Members : m # c => k[m] = h[m]
  BY <1>1
<1>3. \A m \in Covered[c] : m \in Members /\ m # c
  BY CrcsComeLast
<1>4. \A m \in Covered[c] : k[m] = h[m]
  BY <1>2, <1>3
<1> HIDE DEF k
<1>5. Right(k, c)
  BY <1>2, <1>4, SameCrc DEF Right
<1>6. QED
  BY <1>5 DEF k

\* A store keeps the members.
LEMMA StoreIsHeader ==
  ASSUME NEW h, NEW t, NEW v, Header(h)
  PROVE  Header([h EXCEPT ![t] = v])
<1>1. DOMAIN h = Members /\ DOMAIN [h EXCEPT ![t] = v] = DOMAIN h
  BY DEF Header
<1>2. QED
  BY <1>1 DEF Header

\* Where the prompt for a member stores, seen from a CRC.
LEMMA Targets ==
  ASSUME NEW m \in Members, m \notin Crcs
  PROVE  /\ Target(m) \in Members \ Crcs
         /\ \A c \in Crcs : m \notin Covered[c] => Target(m) \notin Covered[c]
         /\ \A c \in Crcs : Index[c] < Index[m] => Target(m) \notin Covered[c]
<1>1. CASE m = "com_drop"
  BY <1>1, CrcNames DEF Target, Members, Covered, Bytes, PortMaps, Index
<1>2. CASE m # "com_drop"
  <2>1. Target(m) = m
    BY <1>2 DEF Target
  <2>2. ASSUME NEW c \in Crcs, Index[c] < Index[m] PROVE m \notin Covered[c]
    <3>1. Index[m] \in Int /\ Index[c] \in Int
      BY EntryOfIndex, MemberNames, CrcNames DEF Members
    <3>2. m \in Covered[c] => Index[m] < Index[c]
      BY CrcsComeLast
    <3>3. QED
      BY <2>2, <3>1, <3>2
  <2>3. QED
    BY <2>1, <2>2
<1>3. QED
  BY <1>1, <1>2

------------------------------------------------------------------------------
(* The inductive invariant.                                                 *)

\* Where the call is, and what the editor has to remember there.
EditorInv ==
  /\ op \in {"idle", "overrun", "init", "default", "load", "edit", "save", "restore"}
  /\ member \in 1..28
  /\ op # "edit" => member = 1
  /\ touched \subseteq Crcs /\ said \subseteq Crcs
  /\ op \notin {"edit", "save", "restore"} => touched = {} /\ said = {}
  /\ (op = "edit" /\ "edit" \notin asked) => member = 1 /\ touched = {} /\ said = {}

\* The copy, the device and the file hold headers.
HeaderInv ==
  /\ Header(hp) /\ Header(ee) /\ Header(file.image)
  /\ file.kept \in Nat /\ file.kept <= 28

\* In a pass, the CRCs that the user said y to lie behind the prompt and are right, and
\* those that were right are so still if he said y to none of their members.
PassInv ==
  \A c \in Crcs :
    /\ c \in said => Index[c] < member /\ Right(hp, c)
    /\ c \in good \ touched => Right(hp, c)

CrcInv ==
  /\ good \subseteq Crcs /\ goodEe \subseteq Crcs
  /\ \A c \in goodEe : Right(ee, c)
  /\ op \notin {"edit", "overrun"} => \A c \in good : Right(hp, c)
  /\ op = "edit" => PassInv

HInv == EditorInv /\ HeaderInv /\ CrcInv

\* The operations in their order.
LEMMA NextOps ==
  /\ op = "init" => NextOp = "default"
  /\ op = "default" => NextOp = "load"
  /\ op = "load" => NextOp = "edit"
  /\ op = "edit" => NextOp = "save"
  /\ op = "save" => NextOp = "restore"
<1> DEFINE i == CHOOSE i \in 1..5 : hdrOps[i] = op
<1>1. ASSUME NEW j \in 1..5, op = hdrOps[j] PROVE i = j
  <2>1. i \in 1..5 /\ hdrOps[i] = hdrOps[j]
    BY <1>1
  <2> HIDE DEF i
  <2>2. QED
    BY <2>1 DEF hdrOps
<1>2. NextOp = hdrOps[i + 1]
  BY DEF NextOp
<1> HIDE DEF i
<1>3. op = "init" => i = 1
  BY <1>1 DEF hdrOps
<1>4. op = "default" => i = 2
  BY <1>1 DEF hdrOps
<1>5. op = "load" => i = 3
  BY <1>1 DEF hdrOps
<1>6. op = "edit" => i = 4
  BY <1>1 DEF hdrOps
<1>7. op = "save" => i = 5
  BY <1>1 DEF hdrOps
<1>8. QED
  BY <1>2, <1>3, <1>4, <1>5, <1>6, <1>7 DEF hdrOps

LEMMA HInvInit == Init => HInv
<1> SUFFICES ASSUME Init PROVE HInv
  OBVIOUS
<1>1. EditorInv
  BY DEF Init, EditorInv
<1>2. Header(ee) /\ goodEe \subseteq Crcs /\ \A c \in goodEe : Right(ee, c)
  BY ErasedIsHeader, DefaultIsRight DEF Init
<1>3. file.image = Erased /\ file.kept = 0 /\ hp = ee /\ good = goodEe /\ op = "idle"
  BY DEF Init
<1>4. HeaderInv
  BY <1>2, <1>3, ErasedIsHeader DEF HeaderInv
<1>5. CrcInv
  BY <1>2, <1>3 DEF CrcInv
<1>6. QED
  BY <1>1, <1>4, <1>5 DEF HInv

LEMMA OutsideEditor ==
  ASSUME HInv, Call \/ Skip \/ Initialize \/ Default \/ Restore
  PROVE  HInv'
<1> USE DEF HInv
<1>1. CASE Call
  <2>1. EditorInv'
    BY <1>1 DEF Call, pass, EditorInv
  <2>2. HeaderInv'
    BY <1>1 DEF Call, HeaderInv
  <2>3. CrcInv'
    BY <1>1 DEF Call, CrcInv, Right
  <2>4. QED
    BY <2>1, <2>2, <2>3
<1>2. CASE Skip
  <2>1. EditorInv'
    <3>1. op \in {"init", "default", "load", "edit", "save"} /\ op \notin asked
      BY <1>2 DEF Skip, EditorInv
    <3>2. /\ op' = NextOp /\ asked' = asked /\ member' = member
          /\ touched' = touched /\ said' = said
      BY <1>2 DEF Skip, Done, pass
    <3>3. op' \in {"default", "load", "edit", "save", "restore"}
      BY <3>1, <3>2, NextOps
    <3>4. op = "edit" => member = 1 /\ touched = {} /\ said = {}
      BY <3>1, <3>2, NextOps DEF EditorInv
    <3>5. /\ op' = "edit" => op = "load"
          /\ op = "edit" => op' = "save"
          /\ op = "save" => op' = "restore"
      BY <3>1, <3>2, NextOps
    <3>6. QED
      BY <3>1, <3>2, <3>3, <3>4, <3>5 DEF EditorInv
  <2>2. HeaderInv'
    BY <1>2 DEF Skip, Done, HeaderInv
  <2>3. op' # "edit" /\ op' # "overrun" => \A c \in good : Right(hp, c)
    <3>1. CASE op = "edit"
      BY <1>2, <3>1 DEF Skip, EditorInv, CrcInv, PassInv
    <3>2. CASE op # "edit"
      BY <1>2, <3>2 DEF Skip, CrcInv
    <3>3. QED
      BY <3>1, <3>2
  <2>4. op' = "edit" => op = "load"
    BY <1>2, NextOps DEF Skip, Done, EditorInv
  <2>5. CrcInv'
    <3>1. op' = "edit" => PassInv'
      BY <1>2, <2>4 DEF Skip, Done, pass, EditorInv, CrcInv, PassInv, Right
    <3>2. QED
      BY <1>2, <2>3, <3>1 DEF Skip, Done, CrcInv, Right
  <2>6. QED
    BY <2>1, <2>2, <2>5
<1>3. CASE Initialize
  <2>1. op = "init" /\ op' = "default"
    BY <1>3, NextOps DEF Initialize, At, Done
  <2>2. EditorInv'
    BY <1>3, <2>1 DEF Initialize, Done, pass, EditorInv
  <2>3. HeaderInv'
    BY <1>3, ErasedIsHeader DEF Initialize, Done, HeaderInv
  <2>4. CrcInv'
    BY <1>3, <2>1 DEF Initialize, Done, CrcInv, Right
  <2>5. QED
    BY <2>2, <2>3, <2>4
<1>4. CASE Default
  <2>1. op = "default" /\ op' = "load"
    BY <1>4, NextOps DEF Default, At, Done
  <2>2. EditorInv'
    BY <1>4, <2>1 DEF Default, Done, pass, EditorInv
  <2>3. HeaderInv'
    BY <1>4, DefaultIsRight DEF Default, Done, HeaderInv
  <2>4. CrcInv'
    <3>1. \A c \in Crcs : Right(hp', c)
      BY <1>4, DefaultIsRight DEF Default
    <3>2. QED
      BY <1>4, <2>1, <3>1 DEF Default, Done, CrcInv, Right
  <2>5. QED
    BY <2>2, <2>3, <2>4
<1>5. CASE Restore
  <2>1. EditorInv'
    BY <1>5 DEF Restore, EditorInv
  <2>2. HeaderInv'
    BY <1>5 DEF Restore, HeaderInv
  <2>3. CrcInv'
    BY <1>5 DEF Restore, CrcInv, Right
  <2>4. QED
    BY <2>1, <2>2, <2>3
<1>6. QED
  BY <1>1, <1>2, <1>3, <1>4, <1>5

\* A complete file was verified; a short one leaves the CRCs that lie behind its end.
LEMMA LoadStep ==
  ASSUME HInv, eeLoadHdr
  PROVE  HInv'
<1> USE DEF HInv
<1>1. op = "load" /\ file' = file /\ ee' = ee /\ goodEe' = goodEe
  BY DEF eeLoadHdr, At, Done, Exit
<1>2. CASE Exit("idle")
  <2>1. EditorInv'
    BY <1>2 DEF Exit, EditorInv
  <2>2. HeaderInv'
    BY <1>2 DEF Exit, HeaderInv
  <2>3. CrcInv'
    BY <1>1, <1>2 DEF Exit, CrcInv, Right
  <2>4. QED
    BY <2>1, <2>2, <2>3
<1>3. CASE ~Exit("idle")
  <2>1. /\ file.kept < Len(eeEdit) \/ Verifies(file.image)
        /\ hp' = Over(file.image, hp, file.kept)
        /\ good' = IF file.kept = Len(eeEdit) THEN Crcs
                   ELSE {c \in good : \A m \in Covered[c] \cup {c} : Position(m) > file.kept}
        /\ Done
    BY <1>3 DEF eeLoadHdr
  <2>2. op' = "edit"
    BY <1>1, <2>1, NextOps DEF Done
  <2>3. EditorInv'
    BY <1>1, <2>1, <2>2 DEF Done, pass, EditorInv
  <2>4. Header(hp) /\ file.kept \in Nat /\ file.kept <= 28
    BY DEF HeaderInv
  <2>5. /\ Header(hp')
        /\ \A m \in Members : hp'[m] = IF Index[m] <= file.kept THEN file.image[m] ELSE hp[m]
    BY <2>1, <2>4, OverIsHeader
  <2>6. HeaderInv'
    BY <1>1, <2>5 DEF HeaderInv
  <2>7. \A c \in Crcs : c \in Members /\ Covered[c] \subseteq Members
    BY MemberNames, CrcNames DEF Members
  <2>8. \A m \in Members : Index[m] \in 1..28
    BY MemberNames, EntryOfIndex
  <2>9. good' \subseteq Crcs /\ \A c \in good' : Right(hp', c)
    <3>1. CASE file.kept = 28
      <4>1. Verifies(file.image) /\ good' = Crcs
        BY <2>1, <3>1, IndexOfEntry
      <4>2. \A m \in Members : hp'[m] = file.image[m]
        BY <2>5, <2>8, <3>1
      <4>3. ASSUME NEW c \in Crcs PROVE Right(hp', c)
        <5>1. genCrc(hp', c) = genCrc(file.image, c)
          BY <2>7, <4>2, SameCrc
        <5>2. QED
          BY <2>7, <4>1, <4>2, <5>1 DEF Verifies, Right
      <4>4. QED
        BY <4>1, <4>3
    <3>2. CASE file.kept # 28
      <4>1. good' = {c \in good : \A m \in Covered[c] \cup {c} : Position(m) > file.kept}
        BY <2>1, <3>2, IndexOfEntry
      <4>2. good' \subseteq good /\ good \subseteq Crcs
        BY <4>1 DEF CrcInv
      <4>3. ASSUME NEW c \in good' PROVE Right(hp', c)
        <5>1. c \in Crcs /\ Right(hp, c)
          BY <1>1, <4>2, <4>3 DEF CrcInv
        <5>2. ASSUME NEW m \in Covered[c] \cup {c} PROVE hp'[m] = hp[m]
          <6>1. m \in Members
            BY <2>7, <5>1, <5>2
          <6>2. Index[m] > file.kept
            BY <4>1, <4>3, <5>2, <6>1, Positions
          <6>3. QED
            BY <2>4, <2>5, <2>8, <6>1, <6>2
        <5>3. genCrc(hp', c) = genCrc(hp, c)
          BY <5>2, SameCrc
        <5>4. QED
          BY <5>1, <5>2, <5>3 DEF Right
      <4>4. QED
        BY <4>2, <4>3
    <3>3. QED
      BY <3>1, <3>2
  <2>10. CrcInv'
    <3>1. PassInv'
      BY <1>1, <2>1, <2>9 DEF Done, pass, EditorInv, PassInv, Right
    <3>2. QED
      BY <1>1, <2>2, <2>9, <3>1 DEF CrcInv, Right
  <2>11. QED
    BY <2>3, <2>6, <2>10
<1>4. QED
  BY <1>2, <1>3

\* A save changes the file alone, and a call that is cut off the editor alone.
LEMMA SaveStep ==
  ASSUME HInv, eeSaveHdr
  PROVE  HInv'
<1> USE DEF HInv
<1>1. op = "save" /\ op' = "restore" /\ UNCHANGED <<hp, good, ee, asked, pass, goodEe, runs>>
  BY NextOps DEF eeSaveHdr, At, Done
<1>2. EditorInv'
  BY <1>1 DEF EditorInv, pass
<1>3. CrcInv'
  BY <1>1 DEF CrcInv, Right, pass
<1>4. Header(file'.image) /\ file'.kept \in Nat /\ file'.kept <= 28
  <2>1. CASE UNCHANGED file
    BY <2>1 DEF HeaderInv
  <2>2. CASE ~UNCHANGED file
    <3>1. PICK last \in {Position(m) : m \in Cuts} \cup {Len(eeEdit)} :
            file' = [image |-> Over(hp, file.image, last),
                     kept |-> IF last > file.kept THEN last ELSE file.kept]
      BY <2>2 DEF eeSaveHdr
    <3>2. last \in 1..28 /\ last \in Nat
      BY CutsAssumption, Positions, EntryOfIndex, MemberNames, IndexOfEntry
    <3>3. Header(file.image) /\ file.kept \in Nat /\ file.kept <= 28
      BY DEF HeaderInv
    <3>4. Header(Over(hp, file.image, last))
      BY <3>2, <3>3, OverIsHeader
    <3>5. QED
      BY <3>1, <3>2, <3>3, <3>4
  <2>3. QED
    BY <2>1, <2>2
<1>5. HeaderInv'
  BY <1>1, <1>4 DEF HeaderInv
<1>6. QED
  BY <1>2, <1>3, <1>5

LEMMA OverrunStep ==
  ASSUME HInv, Overrun
  PROVE  HInv'
<1> USE DEF HInv
<1>1. EditorInv'
  BY DEF Overrun, Exit, EditorInv
<1>2. HeaderInv'
  BY DEF Overrun, Exit, HeaderInv
<1>3. CrcInv'
  BY DEF Overrun, Exit, CrcInv, Right
<1>4. QED
  BY <1>1, <1>2, <1>3

\* A prompt leaves what a pass owes: an expanded member takes the CRC that covers it out
\* of those that were right, and no CRC lies before a member that it covers.
LEMMA PromptStep ==
  ASSUME HInv, Keep \/ Expand \/ Quit
  PROVE  /\ Header(hp')
         /\ touched' \subseteq Crcs /\ said' \subseteq Crcs
         /\ \A c \in Crcs :
              /\ c \in said' => Index[c] <= member /\ Right(hp', c)
              /\ c \in good \ touched' => Right(hp', c)
         /\ Quit \/ MoveOn
<1> USE DEF HInv
<1>1. op = "edit" /\ member \in 1..28
  BY DEF Keep, Expand, Quit, Prompt, At, EditorInv
<1>2. /\ Header(hp) /\ PassInv
      /\ touched \subseteq Crcs /\ said \subseteq Crcs
  BY <1>1 DEF HeaderInv, CrcInv, EditorInv
<1>3. \A c \in Crcs : c \in Members /\ Index[c] \in 1..28
  BY CrcNames, MemberNames, EntryOfIndex DEF Members
<1>4. CASE Keep \/ Quit
  <2>1. UNCHANGED <<hp, touched, said>>
    BY <1>4 DEF Keep, Quit
  <2>2. Quit \/ MoveOn
    BY <1>4 DEF Keep
  <2>3. QED
    BY <1>1, <1>2, <1>3, <2>1, <2>2 DEF PassInv
<1>5. CASE Expand
  <2> DEFINE m == eeEdit[member]
  <2>1. m \in Members /\ Index[m] = member
    BY <1>1, IndexOfEntry, MemberNames
  <2>2. PICK v \in Stored(Target(m)) : hp' = [hp EXCEPT ![Target(m)] = v]
    BY <1>5 DEF Expand, Stores
  <2>3. MoveOn
    BY <1>5 DEF Expand
  <2>4. Header(hp')
    BY <1>2, <2>2, StoreIsHeader
  <2>5. CASE m \in Crcs
    <3>1. Target(m) = m /\ v = genCrc(hp, m)
      BY <2>2, <2>5, CrcNames DEF Target, Stored, Bytes, Wide, Texts, PortMaps
    <3>2. said' = said \cup {m} /\ touched' = touched
      BY <1>5, <2>5 DEF Expand
    <3>3. Right(hp', m)
      BY <1>2, <2>2, <2>5, <3>1, StoreCrc
    <3>4. ASSUME NEW c \in Crcs, Right(hp, c) PROVE Right(hp', c)
      <4>1. CASE c = m
        BY <3>3, <4>1
      <4>2. CASE c # m
        <5>1. m \notin Covered[c]
          BY <2>5, CrcsComeLast
        <5>2. QED
          BY <1>2, <2>1, <2>2, <3>1, <3>4, <4>2, <5>1, StoreElsewhere
      <4>3. QED
        BY <4>1, <4>2
    <3>5. ASSUME NEW c \in Crcs
          PROVE  /\ c \in said' => Index[c] <= member /\ Right(hp', c)
                 /\ c \in good \ touched' => Right(hp', c)
      BY <1>1, <1>2, <1>3, <2>1, <3>2, <3>3, <3>4 DEF PassInv
    <3> HIDE DEF m
    <3>6. QED
      BY <1>2, <2>3, <2>4, <2>5, <3>2, <3>5
  <2>6. CASE m \notin Crcs
    <3>1. said' = said /\ touched' = touched \cup {c \in Crcs : m \in Covered[c]}
      BY <1>5, <2>6 DEF Expand
    <3>2. /\ Target(m) \in Members \ Crcs
          /\ \A c \in Crcs : m \notin Covered[c] => Target(m) \notin Covered[c]
          /\ \A c \in Crcs : Index[c] < member => Target(m) \notin Covered[c]
      BY <2>1, <2>6, Targets
    <3>3. ASSUME NEW c \in Crcs, Right(hp, c), Target(m) \notin Covered[c]
          PROVE  Right(hp', c)
      BY <1>2, <2>2, <3>2, <3>3, StoreElsewhere
    <3>4. ASSUME NEW c \in Crcs, c \in said'
          PROVE  Index[c] <= member /\ Right(hp', c)
      BY <1>1, <1>2, <1>3, <3>1, <3>2, <3>3, <3>4 DEF PassInv
    <3>5. ASSUME NEW c \in Crcs, c \in good \ touched'
          PROVE  Right(hp', c)
      BY <1>2, <3>1, <3>2, <3>3, <3>5 DEF PassInv
    <3>6. QED
      BY <1>2, <2>3, <2>4, <3>1, <3>4, <3>5
  <2>7. QED
    BY <2>5, <2>6
<1>6. QED
  BY <1>4, <1>5

LEMMA EditStep ==
  ASSUME HInv, Keep \/ Expand \/ Quit
  PROVE  HInv'
<1> USE DEF HInv
<1>1. /\ op = "edit" /\ "edit" \in asked /\ member \in 1..28
      /\ UNCHANGED <<ee, file, asked, goodEe, runs>>
  BY DEF Keep, Expand, Quit, Prompt, At, EditorInv
<1>2. /\ Header(hp')
      /\ touched' \subseteq Crcs /\ said' \subseteq Crcs
      /\ \A c \in Crcs :
           /\ c \in said' => Index[c] <= member /\ Right(hp', c)
           /\ c \in good \ touched' => Right(hp', c)
      /\ Quit \/ MoveOn
  BY PromptStep
<1>3. HeaderInv'
  BY <1>1, <1>2 DEF HeaderInv
<1>4. good \subseteq Crcs /\ goodEe \subseteq Crcs /\ \A c \in goodEe : Right(ee, c)
  BY DEF CrcInv
<1>5. CASE Leave
  <2>1. op' = "save" /\ member' = 1 /\ good' = said' \cup (good \ touched')
    BY <1>1, <1>5, NextOps DEF Leave
  <2>2. EditorInv'
    BY <1>2, <2>1 DEF EditorInv
  <2>3. CrcInv'
    BY <1>1, <1>2, <1>4, <2>1 DEF CrcInv, Right
  <2>4. QED
    BY <1>3, <2>2, <2>3
<1>6. CASE member < Len(eeEdit) /\ member' = member + 1 /\ UNCHANGED <<op, good>>
  <2>1. member < 28 /\ member' = member + 1 /\ op' = "edit" /\ good' = good
    BY <1>1, <1>6, IndexOfEntry
  <2>2. EditorInv'
    BY <1>1, <1>2, <2>1 DEF EditorInv
  <2>3. \A c \in Crcs : Index[c] \in 1..28
    BY CrcNames, MemberNames, EntryOfIndex DEF Members
  <2>4. PassInv'
    BY <1>1, <1>2, <2>1, <2>3 DEF PassInv, Right
  <2>5. CrcInv'
    BY <1>1, <1>4, <2>1, <2>4 DEF CrcInv, Right
  <2>6. QED
    BY <1>3, <2>2, <2>5
<1>7. QED
  BY <1>2, <1>5, <1>6 DEF Quit, MoveOn

LEMMA HInvStep == HInv /\ [Next]_header => HInv'
<1> SUFFICES ASSUME HInv, [Next]_header PROVE HInv'
  OBVIOUS
<1>1. CASE UNCHANGED header
  BY <1>1 DEF header, HInv, EditorInv, HeaderInv, CrcInv, PassInv, Right
<1>2. CASE Next
  BY <1>2, OutsideEditor, LoadStep, SaveStep, OverrunStep, EditStep DEF Next
<1>3. QED
  BY <1>1, <1>2

\* One pass of the editor is enough (eepromFit.c, eeEditHdr over eeEdit): for every number
\* of calls, of members the user expands, of answers, and of files that end where they may.
THEOREM OnePassSufficesHolds == Spec => []OnePassSuffices
<1>1. HInv => OnePassSuffices
  BY DEF HInv, CrcInv, Right, OnePassSuffices
<1>2. QED
  BY <1>1, HInvInit, HInvStep, PTL DEF Spec

------------------------------------------------------------------------------
(* The size of user_data.                                                   *)

\* No size that is 0, or that ends between the header and the end of the device, lets
\* setUser_data copy too much, whatever the size of the device.
LEMMA SizesThatFit ==
  ASSUME NEW s \in {0} \cup UserDataAt..eeSize
  PROVE  ~Overruns(s)
<1>1. eeSize \in 256..1024
  BY HeaderAssumption
<1>2. CASE s = 0
  <2>1. UserDataUnclipped(s) = 4
    BY <1>2 DEF UserDataUnclipped
  <2>2. UserDataSize(s) = 4
    BY <2>1 DEF UserDataSize, MUST_BE_BIG_ENOUGH
  <2>3. QED
    BY <1>1, <2>2 DEF Overruns, MUST_BE_BIG_ENOUGH, UserDataAt
<1>3. CASE s # 0
  <2>1. s \in 252..eeSize
    BY <1>3 DEF UserDataAt
  <2>2. s - 252 \in 0..772 /\ s - 252 <= eeSize - 252
    BY <1>1, <2>1
  <2>3. (s - 252) % 65536 = s - 252
    BY <2>2
  <2>4. UserDataUnclipped(s) = s - 252
    BY <1>3, <2>3 DEF UserDataUnclipped, Word, UserDataAt
  <2>5. UserDataSize(s) = IF s - 252 >= 512 THEN s - 252 - 512 ELSE s - 252
    BY <2>4 DEF UserDataSize, MUST_BE_BIG_ENOUGH
  <2>6. UserDataSize(s) <= 512 /\ UserDataSize(s) <= eeSize - 252
    BY <1>1, <2>2, <2>5
  <2>7. UserDataSize(s) \in Int
    BY <2>2, <2>5
  <2>8. QED
    BY <1>1, <2>6, <2>7 DEF Overruns, MUST_BE_BIG_ENOUGH, UserDataAt
<1>4. QED
  BY <1>2, <1>3

\* The call that copied too much did so with another size (eepromFit.c, setUser_data),
\* whatever was typed for the size before, and in whatever call.
THEOREM SafeSizesHolds == Spec => []SafeSizes
<1> DEFINE Inv == op = "overrun" => Overruns(hp.size)
<1>1. Init => Inv
  BY DEF Init
<1>2. HInv /\ Inv /\ [Next]_header => Inv'
  <2> SUFFICES ASSUME HInv, Inv, [Next]_header, op' = "overrun" PROVE Overruns(hp'.size)
    OBVIOUS
  <2>1. CASE op = "overrun" /\ UNCHANGED header
    BY <2>1 DEF header
  <2>2. CASE Overrun
    BY <2>2 DEF Overrun, Exit
  <2>3. NextOp # "overrun" \/ op = "overrun" \/ op = "idle" \/ op = "restore"
    BY NextOps DEF HInv, EditorInv
  <2>4. QED
    BY <2>1, <2>2, <2>3 DEF Next, Call, Skip, Done, Initialize, Default, eeLoadHdr, Exit, Keep,
         Expand, MoveOn, Leave, Quit, Prompt, At, eeSaveHdr, Restore, header
<1>3. Inv => SafeSizes
  BY SizesThatFit DEF SafeSizes
<1>4. QED
  BY <1>1, <1>2, <1>3, HInvInit, HInvStep, PTL DEF Spec
===============================================================================
