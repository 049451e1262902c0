--------------------------------- MODULE Preview ---------------------------------
(***************************************************************************)
(* The preview of an image that CP/M may be writing to meanwhile: CP/M,    *)
(* its BIOS and the download on one side, doPreview and previewSetUser of  *)
(* gateway-go/tui.go with the reader of cpmdir.go on the other.  The keys  *)
(* that scroll and leave the preview are in ControlTUI.                    *)
(*                                                                         *)
(* CP/M writes a file extent by extent, a directory entry for each, to the *)
(* first free entry; the size of an extent is on the disk when it is full  *)
(* or the file is closed.  Erasing a file frees its entries.  A download   *)
(* is taken as one step: an entry is never read half written.              *)
(***************************************************************************)
EXTENDS CpmDirectory

CONSTANTS
  Kinds,     \* kinds of images: "floppy", "hard", "other"
  Users,     \* users that write files
  Names,     \* the names they give them
  Lengths,   \* lengths of files, in records
  Filled,    \* how many extents of an old file the disk holds at first
  MaxSlots   \* bound: directory entries in use

ASSUME PreviewAssumption ==
  /\ Kinds \subseteq {"floppy", "hard", "other"}
  /\ Users \subseteq 0..15 /\ Names \subseteq Nat \ {0} /\ Lengths \subseteq Nat \ {0}
  /\ Filled \subseteq Nat /\ MaxSlots \in Nat

ExtentRecords == 128

VARIABLES
  kind,      \* the kind of the image
  dir,       \* its directory up to the last entry ever used
  writing,   \* the file CP/M is writing: its entry, and the records still to write
  stored,    \* auxiliary: the records on the disk of each file, by user and name
  mode,      \* m.mode: "lib" or "preview"
  byUser,    \* m.prevByUser
  users,     \* m.prevUsers
  userIdx,   \* m.prevUserIdx
  lines,     \* m.prevLines: the user and the files it lists
  snapshot   \* auxiliary: stored, when the image was downloaded

diskVars == <<kind, dir, writing, stored>>
viewVars == <<mode, byUser, users, userIdx, lines, snapshot>>
vars     == <<diskVars, viewVars>>

(* CP/M.                                                                   *)

Free  == [user |-> 229, name |-> 0, attrs |-> FALSE, rc |-> 0]
Label == [user |-> 32, name |-> 0, attrs |-> FALSE, rc |-> 0]   \* CP/M 3
OldFile == <<0, 0>>
NotWriting == [slot |-> 0, left |-> 0]

Entry(file, attrs, rc) == [user |-> file[1], name |-> file[2], attrs |-> attrs, rc |-> rc]

FreeSlots == {i \in 1..Len(dir) : dir[i].user = 229}
FirstFree == IF FreeSlots = {} THEN Len(dir) + 1 ELSE Min(FreeSlots)

DirectorySize == IF kind = "floppy" THEN 64 ELSE 1024

HasRoom == FirstFree <= MaxSlots /\ FirstFree <= DirectorySize

\* A new extent of a file, empty so far.
WithExtent(d, file, at) ==
  IF at > Len(d) THEN Append(d, Entry(file, FALSE, 0)) ELSE [d EXCEPT ![at] = Entry(file, FALSE, 0)]

MakeFile ==
  /\ writing = NotWriting /\ HasRoom
  /\ \E file \in (Users \X Names) \ DOMAIN stored, n \in Lengths :
       /\ dir' = WithExtent(dir, file, FirstFree)
       /\ writing' = [slot |-> FirstFree, left |-> n]
       /\ stored' = [f \in DOMAIN stored \cup {file} |-> IF f = file THEN 0 ELSE stored[f]]
  /\ UNCHANGED <<kind, viewVars>>

\* An extent is full, or the file is closed.
WriteExtent ==
  /\ writing # NotWriting
  /\ LET at == writing.slot
         file == <<dir[at].user, dir[at].name>>
         n == Min({writing.left, ExtentRecords})
         d == [dir EXCEPT ![at].rc = n]
     IN /\ stored' = [stored EXCEPT ![file] = @ + n]
        /\ \/ /\ writing.left = n
              /\ dir' = d /\ writing' = NotWriting
           \/ /\ writing.left > n /\ HasRoom
              /\ dir' = WithExtent(d, file, FirstFree)
              /\ writing' = [slot |-> FirstFree, left |-> writing.left - n]
           \* no room: the program is told and closes the file
           \/ /\ writing.left > n /\ ~HasRoom
              /\ dir' = d /\ writing' = NotWriting
  /\ UNCHANGED <<kind, viewVars>>

EraseFile ==
  /\ writing = NotWriting
  /\ \E file \in DOMAIN stored :
       /\ dir' = [i \in 1..Len(dir) |->
                    IF <<dir[i].user, dir[i].name>> = file THEN [dir[i] EXCEPT !.user = 229] ELSE dir[i]]
       /\ stored' = [f \in DOMAIN stored \ {file} |-> stored[f]]
  /\ UNCHANGED <<kind, writing, viewVars>>

\* An attribute is set on one extent of a file.
SetAttribute ==
  /\ \E i \in 1..Len(dir) : IsFile(dir[i]) /\ ~dir[i].attrs /\ dir' = [dir EXCEPT ![i].attrs = TRUE]
  /\ UNCHANGED <<kind, writing, stored, viewVars>>

\* The BIOS: of a floppy every sixth sector is the next, after half of them the odd
\* ones are done and it moves on by one; the directory begins on track 2.
BiosSector(l) == IF l < 13 THEN ((6 * l) % 26) + 1 ELSE ((6 * l) % 26) + 2

LogicalInTrack(phys) == CHOOSE l \in 0..25 : BiosSector(l) = phys

LogicalSector(off) ==
  LET sec == off \div SecSize
  IN IF kind = "floppy"
     THEN (sec \div 26 - 2) * 26 + LogicalInTrack((sec % 26) + 1)
     ELSE sec

ImageSize == CASE kind = "floppy" -> 77 * 26 * 128
               [] kind = "hard"   -> 255 * 128 * 128
               [] kind = "other"  -> 1474560

\* What is not in the directory looks like a file.
EntryAt(i) ==
  IF i \notin 1..DirectorySize THEN Entry(<<1, 99>>, FALSE, 1)
  ELSE IF i <= Len(dir) THEN dir[i] ELSE Free

ImageSector(off) == [k \in 1..PerSector |-> EntryAt(LogicalSector(off) * PerSector + k)]

(* The gateway.                                                            *)

Listed(files, us, i) == [user |-> us[i + 1], files |-> files[us[i + 1]]]

\* The users of the preview: user 0, and those with files.
PrevUsers(files) == Sorted({0} \cup {u \in 0..15 : files[u] # <<>>})

\* Mutant: the preview opens on user 0 whatever it has.
Start_First(files, us) == 0

Start(files, us) ==
  LET withFiles == {i \in 0..Len(us) - 1 : files[us[i + 1]] # <<>>}
  IN IF withFiles = {} THEN 0 ELSE Min(withFiles)

doPreview ==
  /\ mode = "lib"
  /\ Supported(ImageSize) /\ ~Truncated(geomForSize(ImageSize), ImageSize)
  /\ LET files == listCPMByUser(ImageSize, ImageSector)
         us    == PrevUsers(files)
     IN /\ byUser' = files /\ users' = us
        /\ userIdx' = Start(files, us)
        /\ lines' = Listed(files, us, userIdx')
  /\ mode' = "preview" /\ snapshot' = stored
  /\ UNCHANGED diskVars

\* Mutant: no lower bound.
ValidUser_NoFloor(i) == i < Len(users)

ValidUser(i) == i >= 0 /\ i < Len(users)

\* Left and Right.
previewSetUser ==
  /\ mode = "preview"
  /\ \E i \in {userIdx - 1, userIdx + 1} :
       /\ ValidUser(i)
       /\ userIdx' = i
       /\ lines' = IF i \in 0..Len(users) - 1 THEN Listed(byUser, users, i) ELSE lines
  /\ UNCHANGED <<diskVars, mode, byUser, users, snapshot>>

\* Back to the list; what m keeps of the preview is read only after the next one.
LeavePreview ==
  /\ mode = "preview"
  /\ mode' = "lib" /\ byUser' = <<>> /\ users' = <<>> /\ userIdx' = 0 /\ lines' = <<>>
  /\ snapshot' = <<>>
  /\ UNCHANGED diskVars

Init ==
  /\ kind \in Kinds
  /\ \E n \in Filled, label \in BOOLEAN :
       /\ n < DirectorySize
       /\ dir = (IF label THEN <<Label>> ELSE <<>>) \o [i \in 1..n |-> Entry(OldFile, FALSE, ExtentRecords)]
       /\ stored = [f \in IF n > 0 THEN {OldFile} ELSE {} |-> n * ExtentRecords]
  /\ writing = NotWriting
  /\ mode = "lib" /\ byUser = <<>> /\ users = <<>> /\ userIdx = 0 /\ lines = <<>> /\ snapshot = <<>>

Next ==
  MakeFile \/ WriteExtent \/ EraseFile \/ SetAttribute \/ doPreview \/ previewSetUser \/ LeavePreview

Spec == Init /\ [][Next]_vars

--------------------------------------------------------------------------------
(* Properties.                                                             *)

FileEntries == [name : Nat, records : Nat]

\* Types; the index of the user shown is one of the list.
TypeOK ==
  /\ kind \in Kinds /\ mode \in {"lib", "preview"}
  /\ \A i \in 1..Len(dir) : dir[i] \in [user : 0..255, name : Nat, attrs : BOOLEAN, rc : 0..128]
  /\ writing \in [slot : 0..MaxSlots, left : Nat]
  /\ mode = "preview" =>
       /\ users \in Seq(0..15) /\ userIdx \in 0..Len(users) - 1
       /\ \A u \in 0..15 : byUser[u] \in Seq(FileEntries)

\* The listing of every user is what CP/M had on the disk when the image was downloaded:
\* each file once, by name, with all the records its extents hold, wherever the skew puts
\* them (cpmdir.go:16-19).  Left and Right reach every user that has files, and user 0,
\* in order (tui.go:759), and the lines shown are those of the user named above them.
ListingAsStored ==
  mode = "preview" =>
    /\ \A u \in 0..15 :
         /\ {<<u, f.name>> : f \in Range(byUser[u])} = {f \in DOMAIN snapshot : f[1] = u}
         /\ \A i \in 1..Len(byUser[u]) : byUser[u][i].records = snapshot[<<u, byUser[u][i].name>>]
         /\ \A i \in 1..Len(byUser[u]) - 1 : byUser[u][i].name < byUser[u][i + 1].name
    /\ Range(users) = {0} \cup {f[1] : f \in DOMAIN snapshot}
    /\ \A i \in 1..Len(users) - 1 : users[i] < users[i + 1]
    /\ lines = Listed(byUser, users, userIdx)

\* "the first screen is never misleadingly empty while files exist elsewhere"
\* (tui.go:775-778).
OpensOnFiles ==
  [][mode = "lib" /\ mode' = "preview" /\ DOMAIN stored # {} => lines'.files # <<>>]_vars

================================================================================
