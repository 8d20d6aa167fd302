-------------------------------- MODULE FsTest --------------------------------
(****************************************************************************)
(* The file system tests of M-Fit: fsFit (src/fsFit.c) and its callers fs,  *)
(* sd and usb of src/fit.c.  The same block is appended to a file fitFile   *)
(* in every directory of a list, and then each file is read back, compared  *)
(* and removed.                                                             *)
(****************************************************************************)
EXTENDS FitRun

CONSTANTS
  Dirs,          \* the directories of the filesystem test are 1..Dirs
  Media          \* the tests of a removable medium: one directory, mounted first

ASSUME FsAssumption ==
  Dirs \in Nat \ {0} /\ Media \subseteq (Clients \ OwnCounters) \ {"filesystem"}

VARIABLES
  file,          \* what a read of one block of fitFile gets, by directory
  place, dir     \* where fsFit is

files == <<file, place, dir>>

FsClients == Media \cup {"filesystem"}
DirCount == IF client \in Media THEN 1 ELSE Dirs
FileState == {"none", "short", "intact", "corrupt"}

FsInit ==
  /\ file = [d \in 1..Dirs |-> "none"]
  /\ place = "start" /\ dir = 1

------------------------------------------------------------------------------
In(where) == at = "client" /\ client \in FsClients /\ place = where
Stay == UNCHANGED run

\* fsFit returns result: ftUpdateTestStatus of it, ftComplete, and back to main.
\* Mutant: the list has moved on.
LeaveAdvanced(result) == Complete({result}) /\ place' = "start" /\ dir' = dir + 1
Leave(result) == Complete({result}) /\ place' = "start" /\ dir' = 1

CallError == "io" \in faults /\ Leave("ftError")
CallShort == "io" \in faults /\ Leave("ftFail")

\* mountMedia of a removable medium finds no device that it can mount.
MountFails == client \in Media /\ "mount" \in faults

\* The medium is mounted and the block read from /proc/kcore.
Source ==
  /\ In("start")
  /\ \/ place' = "write" /\ Stay /\ UNCHANGED dir
     \/ MountFails /\ Leave("ftFail")
     \/ CallError
     \/ CallShort
  /\ UNCHANGED file

\* What a block, or a part of one, makes of a file that is read from its head.
Appended(content) ==
  CASE content = "none" -> "intact" [] content = "short" -> "corrupt" [] OTHER -> content
PartAppended(content) ==
  CASE content = "none" -> {"short"} [] content = "short" -> {"short", "corrupt"} [] OTHER -> {content}
Becomes(content) == file' = [file EXCEPT ![dir] = content]

\* open with O_CREAT and O_APPEND, write.  The medium may not keep what it was given.
\* A failure leaves behind the files that are there by then.
AppendBlock ==
  /\ In("write")
  /\ \/ /\ \/ Becomes(Appended(file[dir]))
           \/ "stuck" \in faults /\ file[dir] # "intact" /\ Becomes("corrupt")
           \/ "stuck" \in faults /\ file[dir] = "none" /\ Becomes("short")
        /\ \/ dir < DirCount /\ dir' = dir + 1 /\ UNCHANGED place
           \/ dir = DirCount /\ dir' = 1 /\ place' = "read"
        /\ Stay
     \/ CallError /\ UNCHANGED file
     \/ /\ CallError \/ CallShort
        /\ \E content \in PartAppended(file[dir]) : Becomes(content)

\* Mutant: the file stays.
ReadBackOnly ==
  /\ In("read")
  /\ \/ /\ file[dir] \in {"intact", "corrupt"}
        /\ UNCHANGED file
        /\ \/ dir < DirCount /\ dir' = dir + 1 /\ UNCHANGED place /\ Stay
           \/ dir = DirCount /\ Leave(IF file[dir] = "intact" THEN "ftPass" ELSE "ftFail")
     \/ file[dir] = "short" /\ Leave("ftFail") /\ UNCHANGED file
     \/ (CallError \/ CallShort) /\ UNCHANGED file

\* open, read, memcmp, unlink, whose result nobody looks at: the file may stay.  The
\* result of a directory replaces that of the one before it: only the last one is
\* returned.
ReadBack ==
  /\ In("read")
  /\ \/ /\ file[dir] \in {"intact", "corrupt"}
        /\ Becomes("none") \/ ("unlink" \in faults /\ UNCHANGED file)
        /\ \/ dir < DirCount /\ dir' = dir + 1 /\ UNCHANGED place /\ Stay
           \/ dir = DirCount /\ Leave(IF file[dir] = "intact" THEN "ftPass" ELSE "ftFail")
     \/ file[dir] = "short" /\ Leave("ftFail") /\ UNCHANGED file
     \/ (CallError \/ CallShort) /\ UNCHANGED file

FsStep == Source \/ AppendBlock \/ ReadBack

------------------------------------------------------------------------------
FsTypes ==
  /\ file \in [1..Dirs -> FileState]
  /\ place \in {"start", "write", "read"} /\ dir \in 1..Dirs

\* Where every unlink does what it is asked for, a test that says PASSED has removed
\* every fitFile, those that failed iterations before it had left behind included: the
\* next iteration writes to them, reads them and removes them, whatever it makes of
\* them.  Where an unlink fails, PASSED may leave a fitFile.
PassedMeansRemoved ==
  (verdict = "PASSED" /\ at # "client" /\ client = "filesystem" /\ "unlink" \notin faults)
    => \A d \in 1..Dirs : file[d] = "none"
===============================================================================
