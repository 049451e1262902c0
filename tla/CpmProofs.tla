-------------------------------- MODULE CpmProofs --------------------------------
(***************************************************************************)
(* Where the directory reader looks, for both geometries and every image:  *)
(* inside the image, at no sector twice, and at the sectors where the BIOS *)
(* keeps the directory, so that it reads CP/M's entries in their order.    *)
(***************************************************************************)
EXTENDS Preview, LibraryProofs

\* The logical sectors of the directories of the two geometries.
LEMMA DirectorySectors ==
  /\ dirSectors(FloppyGeom) = 16
  /\ dirSectors(HDGeom) = 256
BY DEF dirSectors, FloppyGeom, HDGeom, EntrySize, SecSize

\* The directory of a floppy lies on its third track, in the order of the skew.
LEMMA FloppyOffset ==
  ASSUME NEW s \in 0..15
  PROVE  sectorOffset(FloppyGeom, s) = 6656 + (cpmTrans[s + 1] - 1) * 128
<1>1. s \div 26 = 0 /\ s % 26 = s
  OBVIOUS
<1>2. FloppyGeom.sectrk = 26 /\ FloppyGeom.bootTrk = 2 /\ FloppyGeom.skew = cpmTrans
  BY DEF FloppyGeom
<1>3. cpmTrans # <<>>
  BY DEF cpmTrans
<1>4. Phys(FloppyGeom, s) = cpmTrans[s + 1]
  BY <1>1, <1>2, <1>3 DEF Phys
<1>5. cpmTrans[s + 1] \in 1..26
  BY DEF cpmTrans
<1> QED BY <1>1, <1>2, <1>4, <1>5 DEF sectorOffset, SecSize

\* The directory of a hard disk lies at its beginning.
LEMMA HDOffset ==
  ASSUME NEW s \in 0..255
  PROVE  sectorOffset(HDGeom, s) = 128 * s
<1>1. HDGeom.sectrk = 128 /\ HDGeom.bootTrk = 0 /\ HDGeom.skew = <<>>
  BY DEF HDGeom
<1>2. Phys(HDGeom, s) = (s % 128) + 1
  BY <1>1 DEF Phys
<1>3. (s \div 128) * 128 + (s % 128) = s /\ s \div 128 \in Nat /\ s % 128 \in Nat
  OBVIOUS
<1> QED BY <1>1, <1>2, <1>3 DEF sectorOffset, SecSize

\* The check for a truncated image never fails for an image of a supported size: the
\* directory lies inside it (listCPMByUser).
THEOREM DirectoryInImage ==
  ASSUME NEW size, Supported(size)
  PROVE  ~Truncated(geomForSize(size), size)
<1>1. CASE size = FloppySize
  <2>1. \A s \in 0..15 : cpmTrans[s + 1] \in 1..26
    BY DEF cpmTrans
  <2> QED BY <1>1, <2>1, FloppyOffset, DirectorySectors DEF Truncated, geomForSize, FloppySize, SecSize
<1>2. CASE size = HDSize
  BY <1>2, HDOffset, DirectorySectors DEF Truncated, geomForSize, FloppySize, HDSize, SecSize
<1> QED BY <1>1, <1>2 DEF Supported

\* Reading the directory undoes the skew of the BIOS: the sector that listCPMByUser
\* takes for the s-th of the directory is the one where the BIOS put it.
THEOREM SkewUndone ==
  ASSUME kind \in {"floppy", "hard"},
         NEW s \in 0..dirSectors(geomForSize(ImageSize)) - 1
  PROVE  LogicalSector(sectorOffset(geomForSize(ImageSize), s)) = s
<1>1. CASE kind = "floppy"
  <2>1. geomForSize(ImageSize) = FloppyGeom
    BY <1>1 DEF ImageSize, geomForSize, FloppySize
  <2>2. s \in 0..15
    BY <2>1, DirectorySectors
  <2> DEFINE off == 6656 + (cpmTrans[s + 1] - 1) * 128
  <2>3. cpmTrans[s + 1] \in 1..26 /\ BiosSector(s) = cpmTrans[s + 1]
    <3>1. s \in {0, 1, 2, 3, 4, 5, 6, 7, 8, 9, 10, 11, 12, 13, 14, 15}
      BY <2>2
    <3> QED BY <3>1 DEF cpmTrans, BiosSector
  <2>4. off \div SecSize = 52 + (cpmTrans[s + 1] - 1)
    BY <2>3 DEF SecSize
  <2>5. (off \div SecSize) \div 26 = 2 /\ (off \div SecSize) % 26 = cpmTrans[s + 1] - 1
    BY <2>3, <2>4
  <2>6. \A l, m \in 0..25 : BiosSector(l) = BiosSector(m) => l = m
    BY DEF BiosSector
  <2>7. LogicalInTrack(cpmTrans[s + 1]) = s
    BY <2>2, <2>3, <2>6 DEF LogicalInTrack
  <2>8. LogicalSector(off) = s
    <3>1. ((off \div SecSize) % 26) + 1 = cpmTrans[s + 1]
      BY <2>3, <2>5
    <3> HIDE DEF off
    <3>2. LogicalSector(off) = (2 - 2) * 26 + s
      BY <1>1, <2>5, <2>7, <3>1 DEF LogicalSector
    <3> QED BY <2>2, <3>2
  <2> QED BY <2>1, <2>2, <2>8, FloppyOffset
<1>2. CASE kind = "hard"
  <2>1. geomForSize(ImageSize) = HDGeom
    BY <1>2 DEF ImageSize, geomForSize, FloppySize, HDSize
  <2>2. s \in 0..255
    BY <2>1, DirectorySectors
  <2> QED BY <1>2, <2>1, <2>2, HDOffset DEF LogicalSector, SecSize
<1> QED BY <1>1, <1>2

\* So that every entry the reader looks at is CP/M's, in the order of the directory,
\* and a free one behind the last, whatever the directory holds.
THEOREM EntriesRead ==
  ASSUME kind \in {"floppy", "hard"}, Len(dir) \in Nat,
         NEW i \in 0..geomForSize(ImageSize).dirEntries - 1
  PROVE  Entries(geomForSize(ImageSize), ImageSector)[i] = IF i + 1 <= Len(dir) THEN dir[i + 1] ELSE Free
<1> DEFINE g == geomForSize(ImageSize)
           l == i \div PerSector
           k == (i % PerSector) + 1
<1>1. /\ g.dirEntries = IF kind = "floppy" THEN 64 ELSE 1024
      /\ dirSectors(g) = IF kind = "floppy" THEN 16 ELSE 256
  BY DirectorySectors DEF geomForSize, ImageSize, FloppySize, HDSize, FloppyGeom, HDGeom
<1>2. l \in 0..dirSectors(g) - 1 /\ k \in 1..PerSector /\ l * PerSector + k = i + 1
  BY <1>1 DEF PerSector
<1>3. LogicalSector(sectorOffset(g, l)) = l
  BY <1>2, SkewUndone
<1>4. Entries(g, ImageSector)[i] = ImageSector(sectorOffset(g, l))[k]
  BY <1>2 DEF Entries
<1> HIDE DEF g, l, k
<1>5. i + 1 \in 1..(IF kind = "floppy" THEN 64 ELSE 1024)
  BY <1>1 DEF g
<1>6. ImageSector(sectorOffset(g, l))[k] = EntryAt(i + 1)
  BY <1>2, <1>3 DEF ImageSector
<1>7. EntryAt(i + 1) = IF i + 1 <= Len(dir) THEN dir[i + 1] ELSE Free
  BY <1>5 DEF EntryAt, DirectorySize
<1> QED BY <1>4, <1>6, <1>7 DEF g

--------------------------------------------------------------------------------
(* The directory as a table, and the records of the files in it.           *)

EntryTypes == [user : 0..255, name : Nat, attrs : BOOLEAN, rc : 0..128]

\* The directory d of the disk as the reader sees it: free entries behind the last.
Table(d) == [i \in 0..DirectorySize - 1 |-> IF i + 1 <= Len(d) THEN d[i + 1] ELSE Free]

Tables == [0..DirectorySize - 1 -> EntryTypes]

\* Where the entries of a file are, and the records they add up to.
Places(t, file) == {i \in DOMAIN t : IsFile(t[i]) /\ t[i].user = file[1] /\ t[i].name = file[2]}
Rc(t) == [i \in DOMAIN t |-> t[i].rc]
Total(t, file) == SumFunctionOnSet(Rc(t), Places(t, file))

\* A file is a user and a name; st gives the records of those in t, and of no others.
Files == (0..15) \X Nat

Recorded(t, st) ==
  /\ DOMAIN st = {file \in Files : Places(t, file) # {}}
  /\ \A file \in DOMAIN st : st[file] = Total(t, file)

\* st with a file that has no records yet.
WithFile(st, file) == [f \in DOMAIN st \cup {file} |-> IF f \in DOMAIN st THEN st[f] ELSE 0]

LEMMA SizeIs == DirectorySize \in Nat /\ DirectorySize \in {64, 1024}
BY DEF DirectorySize

LEMMA FreeIs == Free \in EntryTypes /\ ~IsFile(Free)
BY DEF Free, EntryTypes, IsFile

LEMMA TableIs ==
  ASSUME NEW d \in Seq(EntryTypes)
  PROVE  Table(d) \in Tables
<1>1. ASSUME NEW i \in 0..DirectorySize - 1 PROVE (IF i + 1 <= Len(d) THEN d[i + 1] ELSE Free) \in EntryTypes
  <2>1. i + 1 <= Len(d) => i + 1 \in 1..Len(d)
    BY SizeIs, LenProperties
  <2> QED
    BY <2>1, FreeIs, ElementOfSeq
<1> QED
  BY <1>1 DEF Table, Tables

\* What the sums are made of.
LEMMA RcIs ==
  ASSUME NEW t \in Tables
  PROVE  /\ DOMAIN t = 0..DirectorySize - 1
         /\ \A i \in 0..DirectorySize - 1 : Rc(t)[i] = t[i].rc /\ Rc(t)[i] \in Nat /\ t[i] \in EntryTypes
         /\ \A file : Places(t, file) \in SUBSET (0..DirectorySize - 1)
<1>1. DOMAIN t = 0..DirectorySize - 1
  BY DEF Tables
<1>2. ASSUME NEW i \in 0..DirectorySize - 1 PROVE Rc(t)[i] = t[i].rc /\ Rc(t)[i] \in Nat /\ t[i] \in EntryTypes
  <2>1. t[i] \in EntryTypes
    BY DEF Tables
  <2>2. t[i].rc \in 0..128
    BY <2>1 DEF EntryTypes
  <2>3. Rc(t)[i] = t[i].rc
    BY <1>1 DEF Rc
  <2> QED
    BY <2>1, <2>2, <2>3
<1> QED
  BY <1>1, <1>2 DEF Places

\* A file of the table has a user and a name.
LEMMA FileOf ==
  ASSUME NEW e \in EntryTypes, IsFile(e)
  PROVE  <<e.user, e.name>> \in Files
BY DEF EntryTypes, IsFile, Files

\* A table whose entry k, of no file, becomes an empty one of file: the records of all
\* files stay, and file has an entry.
LEMMA RecordedExtent ==
  ASSUME NEW t \in Tables, NEW k \in 0..DirectorySize - 1, ~IsFile(t[k]), NEW file \in Files,
         NEW st, Recorded(t, st), NEW u \in Tables,
         u[k] = Entry(file, FALSE, 0), \A i \in 0..DirectorySize - 1 : i # k => u[i] = t[i]
  PROVE  Recorded(u, WithFile(st, file))
<1> DEFINE x == Entry(file, FALSE, 0)
           new == WithFile(st, file)
<1>1. x.user = file[1] /\ x.name = file[2] /\ x.rc = 0 /\ IsFile(x)
  BY DEF Entry, IsFile, Files
<1>2. DOMAIN t = 0..DirectorySize - 1 /\ DOMAIN u = 0..DirectorySize - 1
  BY RcIs
<1>3. u[k] = x /\ \A i \in 0..DirectorySize - 1 : i # k => u[i] = t[i]
  OBVIOUS
<1> HIDE DEF x
<1>4. \A f \in Files : Places(u, f) = IF f = file THEN Places(t, f) \cup {k} ELSE Places(t, f)
  <2> SUFFICES ASSUME NEW f \in Files
               PROVE  Places(u, f) = IF f = file THEN Places(t, f) \cup {k} ELSE Places(t, f)
    OBVIOUS
  <2>1. f = file <=> file[1] = f[1] /\ file[2] = f[2]
    BY DEF Files
  <2>2. \A i \in 0..DirectorySize - 1 : i # k => (i \in Places(u, f) <=> i \in Places(t, f))
    BY <1>2, <1>3 DEF Places
  <2>3. k \in Places(u, f) <=> f = file
    BY <1>1, <1>2, <1>3, <2>1 DEF Places
  <2>4. k \notin Places(t, f)
    BY DEF Places
  <2>5. Places(u, f) \subseteq 0..DirectorySize - 1 /\ Places(t, f) \subseteq 0..DirectorySize - 1
    BY <1>2 DEF Places
  <2>6. \A i : i \in Places(u, f) <=> i \in (IF f = file THEN Places(t, f) \cup {k} ELSE Places(t, f))
    BY <2>2, <2>3, <2>4, <2>5
  <2> QED
    BY <2>6
<1>5. \A i \in 0..DirectorySize - 1 : i # k => Rc(u)[i] = Rc(t)[i]
  BY <1>3, RcIs
<1>6. Rc(u)[k] = 0
  BY <1>1, <1>3, RcIs
<1>7. ASSUME NEW f \in Files PROVE Total(u, f) = Total(t, f)
  <2>1. Places(t, f) \in SUBSET (0..DirectorySize - 1) /\ k \notin Places(t, f)
    BY RcIs DEF Places
  <2>2. /\ DirectorySize \in Nat
        /\ \A i \in 0..DirectorySize - 1 : Rc(u)[i] \in Nat
        /\ \A i \in 0..DirectorySize - 1 : Rc(t)[i] \in Nat
        /\ \A i \in Places(t, f) : Rc(u)[i] = Rc(t)[i]
    <3>1. \A i \in 0..DirectorySize - 1 : Rc(t)[i] \in Nat
      BY RcIs
    <3>2. \A i \in 0..DirectorySize - 1 : Rc(u)[i] \in Nat
      BY RcIs
    <3>3. \A i \in Places(t, f) : Rc(u)[i] = Rc(t)[i]
      BY <1>5, <2>1
    <3> QED
      BY <3>1, <3>2, <3>3, SizeIs
  <2> DEFINE P == Places(t, f)
             Q == P \cup {k}
             r == Rc(u)
             v == Rc(t)
  <2>3. P \in SUBSET (0..DirectorySize - 1) /\ Q \in SUBSET (0..DirectorySize - 1) /\ k \in Q /\ Q \ {k} = P
    BY <2>1
  <2>4. r[k] = 0 /\ Places(u, f) = IF f = file THEN Q ELSE P
    BY <1>4, <1>6
  <2>5. Total(u, f) = SumFunctionOnSet(r, Places(u, f)) /\ Total(t, f) = SumFunctionOnSet(v, P)
    BY DEF Total
  <2> HIDE DEF P, Q, r, v
  <2>6. SumFunctionOnSet(r, P) = SumFunctionOnSet(v, P)
    <3>1. Numbers(r, DirectorySize) /\ Numbers(v, DirectorySize) /\ Agree(r, v, P)
      BY <2>2 DEF P, r, v, Numbers, Agree
    <3> QED
      BY <2>2, <2>3, <3>1, SumAgrees
  <2>7. SumFunctionOnSet(r, Q) = SumFunctionOnSet(r, P)
    <3>1. Numbers(r, DirectorySize)
      BY <2>2 DEF r, Numbers
    <3>2. SumFunctionOnSet(r, Q) = SumFunctionOnSet(r, Q \ {k}) + r[k]
      BY <2>2, <2>3, <3>1, SumOneMore
    <3>3. SumFunctionOnSet(r, P) \in Nat
      BY <2>2, <2>3, <3>1, SumIsNat
    <3>4. SumFunctionOnSet(r, Q) = SumFunctionOnSet(r, P) + 0
      BY <2>3, <2>4, <3>2
    <3> QED
      BY <3>3, <3>4
  <2> QED
    BY <2>4, <2>5, <2>6, <2>7
<1>8. DOMAIN new = {f \in Files : Places(u, f) # {}}
  BY <1>4 DEF Recorded, WithFile
<1>9. ASSUME NEW f \in DOMAIN new PROVE new[f] = Total(u, f)
  <2>1. f \in Files
    BY <1>8
  <2>2. CASE f \in DOMAIN st
    BY <1>7, <1>8, <2>1, <2>2 DEF Recorded, WithFile
  <2>3. CASE f \notin DOMAIN st
    <3>1. Places(t, f) = {}
      BY <2>1, <2>3 DEF Recorded
    <3>2. Total(t, f) = 0
      BY <3>1, SumNothing DEF Total
    <3> QED
      BY <1>7, <1>8, <2>1, <2>3, <3>2 DEF WithFile
  <2> QED
    BY <2>2, <2>3
<1> HIDE DEF new
<1>10. Recorded(u, new)
  BY <1>8, <1>9 DEF Recorded
<1> QED
  BY <1>10 DEF new

\* Where the entries of a file and their records stay, its total does.
LEMMA TotalAgrees ==
  ASSUME NEW t \in Tables, NEW u \in Tables, NEW file, Places(u, file) = Places(t, file),
         \A i \in Places(t, file) : u[i].rc = t[i].rc
  PROVE  Total(u, file) = Total(t, file)
<1> DEFINE P == Places(t, file)
           r == Rc(u)
           v == Rc(t)
<1>1. P \in SUBSET (0..DirectorySize - 1) /\ DirectorySize \in Nat
  BY RcIs, SizeIs
<1>2. (\A i \in 0..DirectorySize - 1 : r[i] = u[i].rc) /\ (\A i \in 0..DirectorySize - 1 : v[i] = t[i].rc)
  BY RcIs
<1>3. Numbers(r, DirectorySize) /\ Numbers(v, DirectorySize)
  BY RcIs DEF Numbers
<1>4. Agree(r, v, P)
  BY <1>1, <1>2 DEF Agree
<1>5. Total(u, file) = SumFunctionOnSet(r, P) /\ Total(t, file) = SumFunctionOnSet(v, P)
  BY DEF Total
<1> HIDE DEF P, r, v
<1> QED
  BY <1>1, <1>3, <1>4, <1>5, SumAgrees

\* An entry and the records of the files when m records more are known of one of them.
Sized(x, m) == [x EXCEPT !.rc = m]
MoreRecords(st, file, m) == [st EXCEPT ![file] = @ + m]

LEMMA SizedIs ==
  ASSUME NEW x \in EntryTypes, NEW m \in 0..128
  PROVE  /\ Sized(x, m) \in EntryTypes /\ Sized(x, m).rc = m
         /\ Sized(x, m).user = x.user /\ Sized(x, m).name = x.name
<1>1. x = [user |-> x.user, name |-> x.name, attrs |-> x.attrs, rc |-> x.rc]
      /\ x.user \in 0..255 /\ x.name \in Nat /\ x.attrs \in BOOLEAN
  BY DEF EntryTypes
<1>2. Sized(x, m) = [user |-> x.user, name |-> x.name, attrs |-> x.attrs, rc |-> m]
  BY <1>1 DEF Sized
<1> QED
  BY <1>1, <1>2 DEF EntryTypes

\* An extent of file, empty so far, gets its size: that is added to the file's records.
LEMMA RecordedSize ==
  ASSUME NEW t \in Tables, NEW k \in 0..DirectorySize - 1, IsFile(t[k]), t[k].rc = 0, NEW m \in 0..128,
         NEW file \in Files, file = <<t[k].user, t[k].name>>,
         NEW st, Recorded(t, st), NEW u \in Tables,
         u[k] = Sized(t[k], m), \A i \in 0..DirectorySize - 1 : i # k => u[i] = t[i]
  PROVE  file \in DOMAIN st /\ Recorded(u, MoreRecords(st, file, m))
<1>1. DOMAIN t = 0..DirectorySize - 1 /\ DOMAIN u = 0..DirectorySize - 1 /\ t[k] \in EntryTypes
  BY RcIs
<1>3. u[k].user = t[k].user /\ u[k].name = t[k].name /\ u[k].rc = m /\ IsFile(u[k])
  <2>1. u[k].user = t[k].user /\ u[k].name = t[k].name /\ u[k].rc = m
    <3> DEFINE s == Sized(t[k], m)
    <3>1. u[k] = s
      OBVIOUS
    <3>2. s.user = t[k].user /\ s.name = t[k].name /\ s.rc = m
      BY <1>1, SizedIs
    <3> HIDE DEF s
    <3> QED
      BY <3>1, <3>2
  <2> QED
    BY <2>1 DEF IsFile
<1>4. \A f : Places(u, f) = Places(t, f)
  <2>1. \A i \in 0..DirectorySize - 1 : u[i].user = t[i].user /\ u[i].name = t[i].name /\ (IsFile(u[i]) <=> IsFile(t[i]))
    BY <1>3
  <2> QED
    BY <1>1, <2>1 DEF Places
<1>5. k \in Places(t, file)
  BY <1>1 DEF Places
<1>6. file \in DOMAIN st
  BY <1>5 DEF Recorded
<1>7. ASSUME NEW f \in Files, f # file PROVE Total(u, f) = Total(t, f)
  <2>1. k \notin Places(t, f)
    BY <1>7 DEF Places, Files
  <2>2. \A i \in Places(t, f) : u[i].rc = t[i].rc
    BY <1>1, <2>1 DEF Places
  <2> QED
    BY <1>4, <2>2, TotalAgrees
<1>8. Total(u, file) = Total(t, file) + m
  <2> DEFINE P == Places(t, file)
             Q == P \ {k}
             r == Rc(u)
             v == Rc(t)
  <2>1. P \in SUBSET (0..DirectorySize - 1) /\ Q \in SUBSET (0..DirectorySize - 1) /\ k \in P
    BY <1>5, RcIs
  <2>2. Numbers(r, DirectorySize) /\ Numbers(v, DirectorySize)
    BY RcIs DEF Numbers
  <2>3. r[k] = m /\ v[k] = 0
    BY <1>3, RcIs
  <2>4. Agree(r, v, Q)
    <3>1. ASSUME NEW i \in Q PROVE r[i] = v[i]
      <4>1. i \in 0..DirectorySize - 1 /\ i # k
        BY <2>1
      <4>2. u[i] = t[i]
        BY <4>1
      <4>3. r[i] = u[i].rc /\ v[i] = t[i].rc
        BY <4>1, RcIs
      <4> QED
        BY <4>2, <4>3
    <3> QED
      BY <3>1 DEF Agree
  <2>5. Total(u, file) = SumFunctionOnSet(r, P) /\ Total(t, file) = SumFunctionOnSet(v, P)
    BY <1>4 DEF Total
  <2>6. P \ {k} = Q
    OBVIOUS
  <2> HIDE DEF P, Q, r, v
  <2>7. DirectorySize \in Nat
    BY SizeIs
  <2>8. SumFunctionOnSet(r, Q) = SumFunctionOnSet(v, Q)
    BY <2>1, <2>2, <2>4, <2>7, SumAgrees
  <2>9. SumFunctionOnSet(r, P) = SumFunctionOnSet(r, P \ {k}) + r[k]
    BY <2>1, <2>2, <2>7, SumOneMore
  <2>10. SumFunctionOnSet(v, P) = SumFunctionOnSet(v, P \ {k}) + v[k]
    BY <2>1, <2>2, <2>7, SumOneMore
  <2>11. SumFunctionOnSet(v, Q) \in Nat
    BY <2>1, <2>2, <2>7, SumIsNat
  <2>12. SumFunctionOnSet(v, P) = SumFunctionOnSet(v, Q)
    <3>1. SumFunctionOnSet(v, P) = SumFunctionOnSet(v, Q) + 0
      BY <2>3, <2>6, <2>10
    <3> QED
      BY <2>11, <3>1
  <2>13. SumFunctionOnSet(r, P) = SumFunctionOnSet(v, Q) + m
    BY <2>3, <2>6, <2>8, <2>9
  <2> QED
    BY <2>5, <2>12, <2>13
<1> DEFINE new == [st EXCEPT ![file] = @ + m]
<1>9. DOMAIN new = {f \in Files : Places(u, f) # {}}
  BY <1>4 DEF Recorded
<1>10. ASSUME NEW f \in DOMAIN new PROVE new[f] = Total(u, f)
  <2>1. f \in DOMAIN st /\ f \in Files /\ st[f] = Total(t, f)
    BY <1>4, <1>9 DEF Recorded
  <2>2. CASE f = file
    BY <1>8, <2>1, <2>2
  <2>3. CASE f # file
    BY <1>7, <2>1, <2>3
  <2> QED
    BY <2>2, <2>3
<1> HIDE DEF new
<1>11. Recorded(u, new)
  BY <1>9, <1>10 DEF Recorded
<1> QED
  BY <1>6, <1>11 DEF new, MoreRecords

\* The entries of file become free ones.
LEMMA RecordedErased ==
  ASSUME NEW t \in Tables, NEW file \in Files, NEW st, Recorded(t, st), NEW u \in Tables,
         \A i \in 0..DirectorySize - 1 :
           u[i] = IF t[i].user = file[1] /\ t[i].name = file[2] THEN [t[i] EXCEPT !.user = 229] ELSE t[i]
  PROVE  Recorded(u, [f \in DOMAIN st \ {file} |-> st[f]])
<1>1. DOMAIN t = 0..DirectorySize - 1 /\ DOMAIN u = 0..DirectorySize - 1
      /\ \A i \in 0..DirectorySize - 1 : t[i] \in EntryTypes
  BY RcIs
<1>2. ASSUME NEW i \in 0..DirectorySize - 1, t[i].user = file[1], t[i].name = file[2] PROVE ~IsFile(u[i])
  <2>1. u[i].user = 229
    BY <1>1, <1>2 DEF EntryTypes
  <2> QED
    BY <2>1 DEF IsFile
<1>3. Places(u, file) = {}
  <2>1. ASSUME NEW i \in Places(u, file) PROVE FALSE
    <3>1. i \in 0..DirectorySize - 1 /\ IsFile(u[i]) /\ u[i].user = file[1] /\ u[i].name = file[2]
      BY <1>1 DEF Places
    <3>2. ~(t[i].user = file[1] /\ t[i].name = file[2])
      BY <1>2, <3>1
    <3>3. u[i] = t[i]
      BY <3>1, <3>2
    <3> QED
      BY <3>1, <3>2, <3>3
  <2> QED
    BY <2>1
<1>4. ASSUME NEW f \in Files, f # file
      PROVE  Places(u, f) = Places(t, f) /\ \A i \in Places(t, f) : u[i] = t[i]
  <2>1. ASSUME NEW i \in Places(t, f) PROVE u[i] = t[i] /\ i \in Places(u, f)
    <3>1. i \in 0..DirectorySize - 1 /\ IsFile(t[i]) /\ t[i].user = f[1] /\ t[i].name = f[2]
      BY <1>1 DEF Places
    <3>2. ~(t[i].user = file[1] /\ t[i].name = file[2])
      BY <1>4, <3>1 DEF Files
    <3>3. u[i] = t[i]
      BY <3>1, <3>2
    <3> QED
      BY <1>1, <3>1, <3>3 DEF Places
  <2>2. ASSUME NEW i \in Places(u, f) PROVE i \in Places(t, f)
    <3>1. i \in 0..DirectorySize - 1 /\ IsFile(u[i]) /\ u[i].user = f[1] /\ u[i].name = f[2]
      BY <1>1 DEF Places
    <3>2. u[i] = t[i]
      BY <1>2, <3>1
    <3> QED
      BY <1>1, <3>1, <3>2 DEF Places
  <2> QED
    BY <2>1, <2>2
<1>5. ASSUME NEW f \in Files, f # file PROVE Total(u, f) = Total(t, f)
  BY <1>4, <1>5, TotalAgrees
<1> DEFINE new == [f \in DOMAIN st \ {file} |-> st[f]]
<1>6. DOMAIN new = {f \in Files : Places(u, f) # {}}
  <2>1. DOMAIN st = {f \in Files : Places(t, f) # {}}
    BY DEF Recorded
  <2> QED
    BY <1>3, <1>4, <2>1
<1>7. ASSUME NEW f \in DOMAIN new PROVE new[f] = Total(u, f)
  BY <1>5, <1>6 DEF Recorded
<1> HIDE DEF new
<1>8. Recorded(u, new)
  BY <1>6, <1>7 DEF Recorded
<1> QED
  BY <1>8 DEF new

\* Nothing but attributes change.
LEMMA RecordedMarked ==
  ASSUME NEW t \in Tables, NEW st, Recorded(t, st), NEW u \in Tables,
         \A i \in 0..DirectorySize - 1 : u[i].user = t[i].user /\ u[i].name = t[i].name /\ u[i].rc = t[i].rc
  PROVE  Recorded(u, st)
<1>1. DOMAIN t = 0..DirectorySize - 1 /\ DOMAIN u = 0..DirectorySize - 1
  BY RcIs
<1>2. \A f : Places(u, f) = Places(t, f)
  BY <1>1 DEF Places, IsFile
<1>3. ASSUME NEW f PROVE Total(u, f) = Total(t, f)
  <2>1. \A i \in Places(t, f) : u[i].rc = t[i].rc
    BY RcIs
  <2> QED
    BY <1>2, <2>1, TotalAgrees
<1> QED
  BY <1>2, <1>3 DEF Recorded

--------------------------------------------------------------------------------
(* The listing.                                                            *)

NamesOf(t, u) == {t[i].name : i \in {j \in DOMAIN t : IsFile(t[j]) /\ t[j].user = u}}

LEMMA NamesAre ==
  ASSUME NEW t \in Tables, NEW u \in 0..15, NEW st, Recorded(t, st)
  PROVE  /\ IsFiniteSet(NamesOf(t, u)) /\ NamesOf(t, u) \subseteq Nat
         /\ \A n : n \in NamesOf(t, u) <=> <<u, n>> \in DOMAIN st
<1> DEFINE mine == {j \in DOMAIN t : IsFile(t[j]) /\ t[j].user = u}
           f == [i \in mine |-> t[i].name]
           N == NamesOf(t, u)
<1>1. DOMAIN t = 0..DirectorySize - 1 /\ \A i \in 0..DirectorySize - 1 : t[i] \in EntryTypes
  BY RcIs
<1>2. IsFiniteSet(mine)
  <2>1. IsFiniteSet(0..DirectorySize - 1) /\ mine \in SUBSET (0..DirectorySize - 1)
    BY <1>1, SizeIs, FS_Interval
  <2> QED
    BY <2>1, FS_Subset
<1>3. N = {t[i].name : i \in mine}
  BY DEF NamesOf
<1>4. f \in Surjection(mine, N)
  BY <1>3 DEF Surjection
<1>5. IsFiniteSet(N)
  <2> HIDE DEF f, mine, N
  <2> QED
    BY <1>2, <1>4, FS_Surjection
<1>6. \A i \in mine : t[i].name \in Nat
  BY <1>1 DEF EntryTypes
<1>7. ASSUME NEW n PROVE n \in N <=> <<u, n>> \in DOMAIN st
  <2>1. ASSUME NEW i \in mine, n = t[i].name PROVE <<u, n>> \in DOMAIN st
    <3>1. <<u, n>> \in Files /\ i \in Places(t, <<u, n>>)
      BY <1>6, <2>1 DEF Files, Places
    <3> QED
      BY <3>1 DEF Recorded
  <2>2. ASSUME <<u, n>> \in DOMAIN st PROVE n \in N
    <3>1. PICK i : i \in Places(t, <<u, n>>)
      BY <2>2 DEF Recorded
    <3>2. i \in mine /\ t[i].name = n
      BY <3>1 DEF Places
    <3> QED
      BY <1>3, <3>2
  <2> QED
    BY <1>3, <2>1, <2>2
<1> QED
  BY <1>3, <1>5, <1>6, <1>7

\* list is the listing of the files of user u in st: each once, in the order of the names,
\* with its records.
Lists(list, u, st) ==
  /\ list \in Seq(FileEntries)
  /\ {<<u, f.name>> : f \in Range(list)} = {f \in DOMAIN st : f[1] = u}
  /\ \A i \in 1..Len(list) : list[i].records = st[<<u, list[i].name>>]
  /\ \A i \in 1..Len(list) - 1 : list[i].name < list[i + 1].name
  /\ list # <<>> <=> \E f \in DOMAIN st : f[1] = u

\* What listCPMByUser makes of the entries of one user.
LEMMA ListingIs ==
  ASSUME NEW t \in Tables, NEW u \in 0..15, NEW st, Recorded(t, st), NEW list, list = FilesOf(t, u)
  PROVE  Lists(list, u, st)
<1> DEFINE mine == {j \in DOMAIN t : IsFile(t[j]) /\ t[j].user = u}
           N == NamesOf(t, u)
           q == Sorted(N)
           Records(n) == SumFunctionOnSet(Rc(t), {i \in mine : t[i].name = n})
<1>1. list = [k \in 1..Len(q) |-> [name |-> q[k], records |-> Records(q[k])]]
  BY DEF FilesOf, cpmName, NamesOf, Rc
<1>2. IsFiniteSet(N) /\ N \subseteq Nat /\ \A n : n \in N <=> <<u, n>> \in DOMAIN st
  BY NamesAre
<1>3. ASSUME NEW n \in N PROVE Records(n) = st[<<u, n>>] /\ Records(n) \in Nat
  <2>1. {i \in mine : t[i].name = n} = Places(t, <<u, n>>)
    BY DEF Places
  <2>2. Records(n) = Total(t, <<u, n>>)
    BY <2>1 DEF Total
  <2>3. Places(t, <<u, n>>) \in SUBSET (0..DirectorySize - 1) /\ Numbers(Rc(t), DirectorySize)
    BY RcIs DEF Numbers
  <2>4. Total(t, <<u, n>>) \in Nat
    BY <2>3, SizeIs, SumIsNat DEF Total
  <2>5. st[<<u, n>>] = Total(t, <<u, n>>)
    BY <1>2 DEF Recorded
  <2> HIDE DEF Records
  <2> QED
    BY <2>2, <2>4, <2>5
<1> HIDE DEF Records, N
<1>4. /\ q \in Seq(N) /\ Len(q) \in Nat /\ (q = <<>> <=> N = {}) /\ \A i \in 1..Len(q) : q[i] \in N
      /\ (\A i, j \in 1..Len(q) : i < j => q[i] < q[j]) /\ Range(q) = N /\ q \in [1..Len(q) -> N]
  <2>1. q \in Seq(N) /\ Len(q) \in Nat /\ (q = <<>> <=> N = {}) /\ q \in [1..Len(q) -> N]
    BY <1>2, SortedIs
  <2>2. (\A i, j \in 1..Len(q) : i < j => q[i] < q[j]) /\ Range(q) = N
    BY <1>2, SortedRange
  <2> HIDE DEF q
  <2> QED
    BY <2>1, <2>2
<1> HIDE DEF q
<1>5. DOMAIN list = 1..Len(q) /\ \A k \in 1..Len(q) : list[k] = [name |-> q[k], records |-> Records(q[k])]
  BY <1>1
<1>6. list \in Seq(FileEntries) /\ Len(list) = Len(q)
  <2>1. \A k \in 1..Len(q) : [name |-> q[k], records |-> Records(q[k])] \in FileEntries
    BY <1>2, <1>3, <1>4 DEF FileEntries
  <2>2. list \in [1..Len(q) -> FileEntries]
    BY <1>1, <2>1
  <2> QED
    BY <1>4, <2>2
<1>7. \A k \in 1..Len(q) : list[k].name = q[k] /\ list[k].records = st[<<u, q[k]>>]
  BY <1>3, <1>4, <1>5
<1>8. \A k \in 1..Len(q) - 1 : list[k].name < list[k + 1].name
  <2> SUFFICES ASSUME NEW k \in 1..Len(q) - 1 PROVE list[k].name < list[k + 1].name
    OBVIOUS
  <2>1. k \in 1..Len(q) /\ k + 1 \in 1..Len(q) /\ k < k + 1
    BY <1>4
  <2> QED
    BY <1>4, <1>7, <2>1
<1>9. {<<u, f.name>> : f \in Range(list)} = {f \in DOMAIN st : f[1] = u}
  <2>1. ASSUME NEW f \in Range(list) PROVE <<u, f.name>> \in DOMAIN st
    <3>1. PICK k \in 1..Len(q) : f = list[k]
      BY <1>5 DEF Range
    <3> QED
      BY <1>2, <1>4, <1>7, <3>1
  <2>2. ASSUME NEW f \in DOMAIN st, f[1] = u PROVE \E g \in Range(list) : f = <<u, g.name>>
    <3>1. f \in Files /\ f = <<u, f[2]>>
      BY <2>2 DEF Recorded, Files
    <3>2. f[2] \in N
      BY <1>2, <3>1
    <3>3. PICK k \in 1..Len(q) : q[k] = f[2]
      BY <1>4, <3>2 DEF Range
    <3>4. list[k] \in Range(list) /\ list[k].name = f[2]
      BY <1>5, <1>7, <3>3 DEF Range
    <3> QED
      BY <3>1, <3>4
  <2>3. \A f : <<u, f>>[1] = u
    OBVIOUS
  <2> QED
    BY <2>1, <2>2, <2>3
<1>10. list # <<>> <=> \E f \in DOMAIN st : f[1] = u
  <2>1. list = <<>> <=> Len(q) = 0
    BY <1>4, <1>6
  <2>2. Len(q) = 0 <=> N = {}
    BY <1>4
  <2>3. ASSUME NEW f \in DOMAIN st, f[1] = u PROVE N # {}
    <3>1. f \in Files /\ f = <<u, f[2]>>
      BY <2>3 DEF Recorded, Files
    <3> QED
      BY <1>2, <3>1
  <2>4. ASSUME NEW n \in N PROVE \E f \in DOMAIN st : f[1] = u
    <3>1. <<u, n>> \in DOMAIN st /\ <<u, n>>[1] = u
      BY <1>2
    <3> QED
      BY <3>1
  <2> QED
    BY <2>1, <2>2, <2>3, <2>4
<1> QED
  BY <1>4, <1>6, <1>7, <1>8, <1>9, <1>10 DEF Lists

\* The users the preview steps through: user 0 and those with files, in order.
LEMMA UsersAre ==
  ASSUME NEW files, NEW us, us = PrevUsers(files)
  PROVE  /\ us \in Seq(0..15) /\ Len(us) \in Nat \ {0}
         /\ Range(us) = {0} \cup {u \in 0..15 : files[u] # <<>>}
         /\ \A i \in 1..Len(us) - 1 : us[i] < us[i + 1]
<1> DEFINE S == {0} \cup {u \in 0..15 : files[u] # <<>>}
<1>1. IsFiniteSet(S) /\ S \subseteq Nat /\ S # {} /\ S \subseteq 0..15
  <2>1. IsFiniteSet(0..15)
    <3>1. 0 \in Int /\ 15 \in Int
      OBVIOUS
    <3> QED
      BY <3>1, FS_Interval
  <2>2. S \in SUBSET (0..15) /\ S # {} /\ S \subseteq Nat
    OBVIOUS
  <2>3. IsFiniteSet(S)
    BY <2>1, <2>2, FS_Subset
  <2> QED
    BY <2>2, <2>3
<1>2. us = Sorted(S)
  BY DEF PrevUsers
<1> HIDE DEF S
<1>3. us \in Seq(S) /\ Len(us) \in Nat /\ us # <<>>
  <2>1. Sorted(S) \in Seq(S) /\ Len(Sorted(S)) \in Nat /\ (Sorted(S) = <<>> <=> S = {})
    BY <1>1, SortedIs
  <2> QED
    BY <1>1, <1>2, <2>1
<1>4. (\A i, j \in 1..Len(us) : i < j => us[i] < us[j]) /\ Range(us) = S
  BY <1>1, <1>2, SortedRange
<1>5. us \in Seq(0..15) /\ Len(us) # 0
  <2>1. \A A, B : A \subseteq B => Seq(A) \subseteq Seq(B)
    OBVIOUS
  <2>2. us \in Seq(0..15)
    BY <1>1, <1>3, <2>1
  <2>3. Len(us) # 0
    BY <1>3
  <2> QED
    BY <2>2, <2>3
<1>6. \A i \in 1..Len(us) - 1 : us[i] < us[i + 1]
  <2> SUFFICES ASSUME NEW i \in 1..Len(us) - 1 PROVE us[i] < us[i + 1]
    OBVIOUS
  <2>1. i \in 1..Len(us) /\ i + 1 \in 1..Len(us) /\ i < i + 1
    BY <1>3
  <2> QED
    BY <1>4, <2>1
<1> QED
  BY <1>3, <1>4, <1>5, <1>6 DEF S

\* Where it starts: at the first user with files, if there is one.
LEMMA StartIs ==
  ASSUME NEW files, NEW us, us = PrevUsers(files)
  PROVE  /\ Start(files, us) \in 0..Len(us) - 1
         /\ (\E u \in 0..15 : files[u] # <<>>) => files[us[Start(files, us) + 1]] # <<>>
<1> DEFINE W == {i \in 0..Len(us) - 1 : files[us[i + 1]] # <<>>}
<1>1. Len(us) \in Nat \ {0} /\ Range(us) = {0} \cup {u \in 0..15 : files[u] # <<>>} /\ us \in Seq(0..15)
  BY UsersAre
<1>2. Start(files, us) = IF W = {} THEN 0 ELSE Min(W)
  BY DEF Start
<1>3. ASSUME W # {} PROVE Min(W) \in W
  <2>1. W \in SUBSET Nat
    BY <1>1
  <2> HIDE DEF W
  <2> QED
    BY <1>3, <2>1, MinIs
<1>4. ASSUME NEW u \in 0..15, files[u] # <<>> PROVE W # {}
  <2>1. PICK k \in 1..Len(us) : us[k] = u
    <3>1. u \in Range(us) /\ DOMAIN us = 1..Len(us)
      BY <1>1, <1>4
    <3> QED
      BY <3>1 DEF Range
  <2>2. k - 1 \in 0..Len(us) - 1 /\ (k - 1) + 1 = k
    BY <1>1
  <2>3. k - 1 \in W
    BY <1>4, <2>1, <2>2
  <2> QED
    BY <2>3
<1>5. \A i \in W : i \in 0..Len(us) - 1 /\ files[us[i + 1]] # <<>>
  OBVIOUS
<1>6. 0 \in 0..Len(us) - 1
  BY <1>1
<1> HIDE DEF W
<1> QED
  BY <1>2, <1>3, <1>4, <1>5, <1>6

--------------------------------------------------------------------------------
(* The invariant.                                                          *)

\* The directory d holds the files and records of st.
Directory(d, st) == d \in Seq(EntryTypes) /\ Len(d) <= DirectorySize /\ Recorded(Table(d), st)

\* Where d has room for another entry.
Vacant(d, at) == at \in 1..Len(d) + 1 /\ at <= DirectorySize /\ (at <= Len(d) => ~IsFile(d[at]))

\* CP/M's bookkeeping: stored is what the directory records, and the extent that is being
\* written belongs to a file and is still empty.
DiskInv ==
  /\ kind \in Kinds /\ kind \in {"floppy", "hard", "other"}
  /\ Directory(dir, stored)
  /\ writing \in [slot : 0..MaxSlots, left : Nat]
  /\ writing # NotWriting =>
       /\ writing.slot \in 1..Len(dir) /\ writing.left > 0
       /\ IsFile(dir[writing.slot]) /\ dir[writing.slot].rc = 0

\* What is shown is the disk as it was downloaded.
ViewInv ==
  /\ mode \in {"lib", "preview"}
  /\ mode = "preview" =>
       /\ users \in Seq(0..15) /\ userIdx \in 0..Len(users) - 1
       /\ \A u \in 0..15 : byUser[u] \in Seq(FileEntries)
  /\ ListingAsStored

IInv == DiskInv /\ ViewInv

\* An entry that CP/M takes is a free one, or the next that was never used.
LEMMA FirstFreeIs ==
  ASSUME dir \in Seq(EntryTypes)
  PROVE  /\ FirstFree \in 1..Len(dir) + 1
         /\ FirstFree <= Len(dir) => ~IsFile(dir[FirstFree])
<1>1. Len(dir) \in Nat
  OBVIOUS
<1>2. CASE FreeSlots = {}
  BY <1>1, <1>2 DEF FirstFree
<1>3. CASE FreeSlots # {}
  <2>1. FreeSlots \in SUBSET Nat
    BY <1>1 DEF FreeSlots
  <2>2. Min(FreeSlots) \in FreeSlots
    BY <1>3, <2>1, MinIs
  <2>3. FirstFree = Min(FreeSlots)
    BY <1>3 DEF FirstFree
  <2> QED
    BY <1>1, <2>2, <2>3 DEF FreeSlots, IsFile
<1> QED
  BY <1>2, <1>3

\* A new extent in the directory d, at a place where no file is.
LEMMA ExtentIs ==
  ASSUME NEW d, NEW st, Directory(d, st), NEW file \in Files, NEW at, Vacant(d, at)
  PROVE  /\ Directory(WithExtent(d, file, at), WithFile(st, file))
         /\ at \in 1..Len(WithExtent(d, file, at)) /\ WithExtent(d, file, at)[at] = Entry(file, FALSE, 0)
<1> USE DEF Directory, Vacant
<1> DEFINE x == Entry(file, FALSE, 0)
           e == WithExtent(d, file, at)
           t == Table(d)
           u == Table(e)
           k == at - 1
<1>1. Len(d) \in Nat /\ DirectorySize \in Nat /\ at \in Nat
  BY SizeIs
<1>2. x \in EntryTypes
  BY DEF Entry, EntryTypes, Files
<1>3. /\ e \in Seq(EntryTypes) /\ Len(e) = (IF at > Len(d) THEN Len(d) + 1 ELSE Len(d))
      /\ e[at] = x /\ \A i \in 1..Len(d) : i # at => e[i] = d[i]
  <2> HIDE DEF x
  <2>1. CASE at > Len(d)
    <3>1. e = Append(d, x)
      BY <2>1 DEF WithExtent, x
    <3>2. at = Len(d) + 1
      BY <1>1, <2>1
    <3> QED
      BY <1>1, <1>2, <2>1, <3>1, <3>2
  <2>2. CASE ~(at > Len(d))
    <3>1. at \in 1..Len(d) /\ e = [d EXCEPT ![at] = x]
      BY <1>1, <2>2 DEF WithExtent, x
    <3> QED
      BY <1>1, <1>2, <2>2, <3>1
  <2> QED
    BY <2>1, <2>2
<1>4. Len(e) \in Nat /\ Len(e) <= DirectorySize /\ Len(e) >= Len(d) /\ at \in 1..Len(e)
  BY <1>1, <1>3
<1>5. t \in Tables /\ u \in Tables
  BY <1>3, TableIs
<1>6. k \in 0..DirectorySize - 1 /\ k + 1 = at
  BY <1>1
<1>7. ~IsFile(t[k])
  BY <1>1, <1>6, FreeIs DEF Table
<1>8. u[k] = x
  <2>1. at <= Len(e)
    BY <1>1, <1>4
  <2> HIDE DEF k, x
  <2>3. k + 1 <= Len(e) /\ e[k + 1] = x
    BY <1>3, <1>6, <2>1
  <2>2. u[k] = IF k + 1 <= Len(e) THEN e[k + 1] ELSE Free
    BY <1>6 DEF Table
  <2> QED
    BY <2>2, <2>3
<1>9. \A i \in 0..DirectorySize - 1 : i # k => u[i] = t[i]
  <2> SUFFICES ASSUME NEW i \in 0..DirectorySize - 1, i # k PROVE u[i] = t[i]
    OBVIOUS
  <2>1. i \in Nat /\ i + 1 \in Nat /\ i + 1 # at
    BY <1>1, <1>6
  <2>2. i + 1 <= Len(e) <=> i + 1 <= Len(d)
    BY <1>1, <1>3, <2>1
  <2>3. i + 1 <= Len(d) => e[i + 1] = d[i + 1]
    BY <1>1, <1>3, <2>1
  <2> QED
    BY <2>2, <2>3 DEF Table
<1> HIDE DEF t, u, k, x, e
<1>10. Recorded(u, WithFile(st, file))
  BY <1>5, <1>6, <1>7, <1>8, <1>9, RecordedExtent DEF t, x
<1> QED
  BY <1>3, <1>4, <1>10 DEF u, x, e

\* The disk at first: the extents of the old file behind a label, if there is one.
LEMMA InitDisk == Init => DiskInv
<1> SUFFICES ASSUME Init PROVE DiskInv
  OBVIOUS
<1> USE PreviewAssumption
<1> DEFINE old == Entry(OldFile, FALSE, ExtentRecords)
           D == DirectorySize
           t == Table(dir)
<1>1. PICK n \in Filled, label \in BOOLEAN :
        /\ n < D
        /\ dir = (IF label THEN <<Label>> ELSE <<>>) \o [i \in 1..n |-> old]
        /\ stored = [f \in IF n > 0 THEN {OldFile} ELSE {} |-> n * ExtentRecords]
  BY DEF Init
<1> DEFINE b == IF label THEN 1 ELSE 0
<1>2. n \in Nat /\ b \in 0..1 /\ D \in Nat
  BY SizeIs
<1>3. old \in EntryTypes /\ IsFile(old) /\ old.user = 0 /\ old.name = 0 /\ old.rc = 128
  BY DEF Entry, OldFile, EntryTypes, IsFile, ExtentRecords
<1>4. Label \in EntryTypes /\ ~IsFile(Label)
  BY DEF Label, EntryTypes, IsFile
<1> HIDE DEF old, D
<1>5. /\ dir \in Seq(EntryTypes) /\ Len(dir) = b + n
      /\ \A i \in 1..Len(dir) : dir[i] = IF i <= b THEN Label ELSE old
  <2> DEFINE rest == [i \in 1..n |-> old]
  <2>1. rest \in Seq(EntryTypes) /\ Len(rest) = n /\ \A i \in 1..n : rest[i] = old
    BY <1>2, <1>3
  <2> HIDE DEF rest
  <2>2. CASE label
    <3>1. dir = <<Label>> \o rest /\ <<Label>> \in Seq(EntryTypes) /\ Len(<<Label>>) = 1
      BY <1>1, <1>4, <2>2 DEF rest
    <3> QED
      BY <1>2, <2>1, <2>2, <3>1
  <2>3. CASE ~label
    <3>1. dir = <<>> \o rest
      BY <1>1, <2>3 DEF rest
    <3>2. dir = rest
      BY <2>1, <3>1
    <3> QED
      BY <1>2, <2>1, <2>3, <3>2
  <2> QED
    BY <2>2, <2>3
<1> HIDE DEF b
<1>6. Len(dir) <= D
  BY <1>1, <1>2, <1>5
<1>7. t \in Tables /\ DOMAIN t = 0..D - 1
  BY <1>5, TableIs, RcIs DEF D
<1>8. \A i \in 0..D - 1 : t[i] = IF i + 1 <= b THEN Label ELSE IF i + 1 <= b + n THEN old ELSE Free
  <2> SUFFICES ASSUME NEW i \in 0..D - 1
               PROVE  t[i] = IF i + 1 <= b THEN Label ELSE IF i + 1 <= b + n THEN old ELSE Free
    OBVIOUS
  <2>1. t[i] = IF i + 1 <= Len(dir) THEN dir[i + 1] ELSE Free
    BY DEF Table, D
  <2>2. i + 1 <= Len(dir) => i + 1 \in 1..Len(dir)
    BY <1>2, <1>5
  <2> HIDE DEF t
  <2> QED
    BY <1>2, <1>5, <2>1, <2>2
<1> HIDE DEF t
<1>9. Places(t, OldFile) = b..(b + n - 1)
  <2>1. \A i \in 0..D - 1 : i \in b..(b + n - 1) <=> ~(i + 1 <= b) /\ i + 1 <= b + n
    BY <1>2
  <2>2. \A i \in b..(b + n - 1) : i \in 0..D - 1
    BY <1>2, <1>5, <1>6
  <2>3. OldFile[1] = 0 /\ OldFile[2] = 0
    BY DEF OldFile
  <2>4. \A i \in 0..D - 1 : i \in Places(t, OldFile) <=> i \in b..(b + n - 1)
    BY <1>3, <1>4, <1>7, <1>8, <2>1, <2>3, FreeIs DEF Places
  <2>5. \A i \in Places(t, OldFile) : i \in 0..D - 1
    BY <1>7 DEF Places
  <2> QED
    BY <2>2, <2>4, <2>5
<1>10. ASSUME NEW f \in Files, f # OldFile PROVE Places(t, f) = {}
  <2>1. ~(f[1] = 0 /\ f[2] = 0)
    BY <1>10 DEF Files, OldFile
  <2>2. ASSUME NEW i \in Places(t, f) PROVE FALSE
    <3>1. i \in 0..D - 1 /\ IsFile(t[i]) /\ t[i].user = f[1] /\ t[i].name = f[2]
      BY <1>7 DEF Places
    <3>2. t[i] = old
      BY <1>4, <1>8, <3>1, FreeIs
    <3> QED
      BY <1>3, <2>1, <3>1, <3>2
  <2> QED
    BY <2>2
<1>11. OldFile \in Files
  BY DEF OldFile, Files
<1>12. DOMAIN stored = {f \in Files : Places(t, f) # {}}
  <2>1. DOMAIN stored = IF n > 0 THEN {OldFile} ELSE {}
    BY <1>1
  <2>2. n > 0 <=> Places(t, OldFile) # {}
    <3>1. n > 0 => b \in b..(b + n - 1)
      BY <1>2
    <3>2. ~(n > 0) => \A i \in b..(b + n - 1) : FALSE
      BY <1>2
    <3> QED
      BY <1>9, <3>1, <3>2
  <2> QED
    BY <1>10, <1>11, <2>1, <2>2
<1>13. Total(t, OldFile) = n * 128
  <2>1. Cardinality(b..(b + n - 1)) = n
    <3>1. b \in Int /\ b + n - 1 \in Int
      BY <1>2
    <3>2. Cardinality(b..(b + n - 1)) = IF b > b + n - 1 THEN 0 ELSE (b + n - 1) - b + 1
      BY <3>1, FS_Interval
    <3> QED
      BY <1>2, <3>2
  <2> DEFINE P == b..(b + n - 1)
             r == Rc(t)
  <2>2. P \in SUBSET (0..D - 1)
    BY <1>2, <1>5, <1>6
  <2>3. Numbers(r, D) /\ \A i \in P : r[i] = 128
    <3>1. \A i \in 0..D - 1 : r[i] = t[i].rc /\ r[i] \in Nat
      BY <1>7, RcIs DEF D
    <3>2. \A i \in P : t[i] = old
      BY <1>2, <1>8, <2>2
    <3> HIDE DEF P, r
    <3>3. Numbers(r, D)
      BY <3>1 DEF Numbers
    <3>4. \A i \in P : r[i] = old.rc
      BY <2>2, <3>1, <3>2
    <3> QED
      BY <1>3, <3>3, <3>4
  <2>4. Total(t, OldFile) = SumFunctionOnSet(r, P)
    BY <1>9 DEF Total
  <2> HIDE DEF P, r
  <2>5. 128 \in Nat
    OBVIOUS
  <2>6. SumFunctionOnSet(r, P) = Cardinality(P) * 128
    BY <1>2, <2>2, <2>3, <2>5, SumConstant
  <2>7. Cardinality(P) = n
    BY <2>1 DEF P
  <2> QED
    BY <2>4, <2>6, <2>7
<1>14. Recorded(t, stored)
  <2>1. ASSUME NEW f \in DOMAIN stored PROVE stored[f] = Total(t, f)
    <3>1. f = OldFile /\ stored[f] = n * ExtentRecords
      BY <1>1
    <3> QED
      BY <1>13, <3>1 DEF ExtentRecords
  <2> QED
    BY <1>12, <2>1 DEF Recorded
<1>15. writing = NotWriting /\ writing \in [slot : 0..MaxSlots, left : Nat]
  BY DEF Init, NotWriting
<1> QED
  BY <1>5, <1>6, <1>14, <1>15 DEF DiskInv, Directory, Init, t, D

\* What the directory is does not depend on the rest of the state.
LEMMA StillDirectory ==
  ASSUME kind' = kind, NEW d, NEW st, Directory(d, st), dir' = d, stored' = st
  PROVE  Directory(dir, stored)'
<1>1. DirectorySize' = DirectorySize
  BY DEF DirectorySize
<1>2. Table(dir)' = Table(d)
  BY <1>1 DEF Table, Free
<1>3. Recorded(Table(dir), stored)'
  BY <1>2 DEF Directory
<1> QED
  BY <1>1, <1>3 DEF Directory

\* A new file takes an entry where no file is.
LEMMA MakeFileDisk == DiskInv /\ MakeFile => DiskInv'
<1> SUFFICES ASSUME DiskInv, MakeFile PROVE DiskInv'
  OBVIOUS
<1> USE PreviewAssumption
<1>1. Directory(dir, stored)
  BY DEF DiskInv
<1>2. FirstFree <= MaxSlots /\ FirstFree <= DirectorySize
  BY DEF MakeFile, HasRoom
<1>3. PICK file \in (Users \X Names) \ DOMAIN stored, n \in Lengths :
        /\ dir' = WithExtent(dir, file, FirstFree)
        /\ writing' = [slot |-> FirstFree, left |-> n]
        /\ stored' = [f \in DOMAIN stored \cup {file} |-> IF f = file THEN 0 ELSE stored[f]]
  BY DEF MakeFile
<1>4. file \in Files /\ n \in Nat /\ n > 0
  <2>1. file = <<file[1], file[2]>> /\ file[1] \in Users /\ file[2] \in Names
    BY <1>3
  <2>2. file[1] \in 0..15 /\ file[2] \in Nat /\ n \in Nat /\ n > 0
    <3>1. file[1] \in 0..15 /\ file[2] \in Nat
      BY <2>1
    <3>2. n \in Nat /\ n > 0
      <4>1. n \in Nat \ {0}
        BY PreviewAssumption, Zenon
      <4> QED
        BY <4>1
    <3> QED
      BY <3>1, <3>2
  <2> QED
    BY <2>1, <2>2 DEF Files
<1>5. Vacant(dir, FirstFree)
  BY <1>1, <1>2, FirstFreeIs DEF Directory, Vacant
<1> DEFINE at == FirstFree
           e == WithExtent(dir, file, at)
<1>6. Directory(e, WithFile(stored, file)) /\ at \in 1..Len(e) /\ e[at] = Entry(file, FALSE, 0)
  BY <1>1, <1>4, <1>5, ExtentIs
<1>7. WithFile(stored, file) = stored'
  BY <1>3 DEF WithFile
<1>8. kind' = kind /\ DirectorySize' = DirectorySize
  BY DEF MakeFile, DirectorySize
<1>9. dir' = e /\ writing' = [slot |-> at, left |-> n]
  BY <1>3
<1>10. IsFile(Entry(file, FALSE, 0)) /\ Entry(file, FALSE, 0).rc = 0
  BY <1>4 DEF Entry, IsFile, Files
<1> HIDE DEF at, e
<1>13. Directory(dir, stored)'
  BY <1>6, <1>7, <1>8, <1>9, StillDirectory
<1>14. writing' \in [slot : 0..MaxSlots, left : Nat] /\ writing'.slot = at /\ writing'.left = n
  <2>1. at \in 0..MaxSlots
    BY <1>1, <1>2, <1>5 DEF at, Directory, Vacant
  <2> QED
    BY <1>4, <1>9, <2>1
<1> QED
  BY <1>4, <1>6, <1>8, <1>9, <1>10, <1>13, <1>14 DEF DiskInv

\* The size of an extent comes to the disk, and with it the records of its file.
LEMMA SizeWritten ==
  ASSUME NEW d, NEW st, Directory(d, st), NEW at \in 1..Len(d), IsFile(d[at]), d[at].rc = 0, NEW n \in 0..128,
         NEW file, file = <<d[at].user, d[at].name>>
  PROVE  /\ file \in DOMAIN st /\ file \in Files
         /\ Directory([d EXCEPT ![at].rc = n], [st EXCEPT ![file] = @ + n])
<1> DEFINE x == Sized(d[at], n)
           e == [d EXCEPT ![at] = x]
           t == Table(d)
           u == Table(e)
           k == at - 1
<1> USE DEF Directory
<1>1. Len(d) \in Nat /\ DirectorySize \in Nat /\ at \in Nat /\ d[at] \in EntryTypes
  BY SizeIs, ElementOfSeq
<1>2. x \in EntryTypes
  BY <1>1, SizedIs
<1>12. e = [d EXCEPT ![at].rc = n]
  BY DEF Sized
<1> HIDE DEF x
<1>3. /\ e \in Seq(EntryTypes) /\ Len(e) = Len(d) /\ e[at] = x
      /\ \A i \in 1..Len(d) : i # at => e[i] = d[i]
  BY <1>1, <1>2
<1> HIDE DEF e
<1>4. t \in Tables /\ u \in Tables
  BY <1>3, TableIs
<1>5. k \in 0..DirectorySize - 1 /\ k + 1 = at /\ at <= Len(d)
  BY <1>1
<1>6. t[k] = d[at] /\ u[k] = e[at]
  BY <1>3, <1>5 DEF Table
<1>7. \A i \in 0..DirectorySize - 1 : i # k => u[i] = t[i]
  <2> SUFFICES ASSUME NEW i \in 0..DirectorySize - 1, i # k PROVE u[i] = t[i]
    OBVIOUS
  <2>1. i \in Nat /\ i + 1 \in Nat /\ i + 1 # at
    BY <1>1, <1>5
  <2>2. i + 1 <= Len(d) => e[i + 1] = d[i + 1]
    BY <1>1, <1>3, <2>1
  <2> QED
    BY <1>3, <2>2 DEF Table
<1> HIDE DEF t, u, k
<1>8. file \in Files
  BY <1>1, FileOf
<1>9. /\ IsFile(t[k]) /\ t[k].rc = 0 /\ file = <<t[k].user, t[k].name>>
      /\ u[k] = Sized(t[k], n) /\ Recorded(t, st)
  BY <1>3, <1>6 DEF t, x
<1>10. file \in DOMAIN st /\ Recorded(u, MoreRecords(st, file, n))
  BY <1>4, <1>5, <1>7, <1>8, <1>9, RecordedSize
<1> QED
  BY <1>3, <1>8, <1>10, <1>12 DEF u, MoreRecords

\* An extent is filled or closed; the next one takes an entry where no file is, if there is one.
LEMMA WriteExtentDisk == DiskInv /\ WriteExtent => DiskInv'
<1> SUFFICES ASSUME DiskInv, WriteExtent PROVE DiskInv'
  OBVIOUS
<1> DEFINE at == writing.slot
           file == <<dir[at].user, dir[at].name>>
           n == Min({writing.left, ExtentRecords})
           d == [dir EXCEPT ![at].rc = n]
           st == [stored EXCEPT ![file] = @ + n]
<1>1. /\ Directory(dir, stored) /\ dir \in Seq(EntryTypes) /\ writing \in [slot : 0..MaxSlots, left : Nat]
      /\ at \in 1..Len(dir) /\ writing.left > 0 /\ IsFile(dir[at]) /\ dir[at].rc = 0
  BY DEF DiskInv, WriteExtent, Directory
<1>2. /\ stored' = st
      /\ \/ dir' = d /\ writing' = NotWriting
         \/ /\ writing.left > n /\ HasRoom
            /\ dir' = WithExtent(d, file, FirstFree)
            /\ writing' = [slot |-> FirstFree, left |-> writing.left - n]
  BY DEF WriteExtent
<1>3. n \in 0..128 /\ n > 0 /\ n \in Nat
  <2> DEFINE S == {writing.left, ExtentRecords}
  <2>1. S \in SUBSET Nat /\ S # {} /\ writing.left \in Nat
    BY <1>1 DEF ExtentRecords
  <2> HIDE DEF S
  <2>2. Min(S) \in S /\ \A y \in S : Min(S) <= y
    BY <2>1, MinIs
  <2>3. n = Min(S) /\ writing.left \in S /\ ExtentRecords \in S
    BY DEF S
  <2>4. n \in {writing.left, ExtentRecords}
    BY <2>2, <2>3 DEF S
  <2>5. n <= 128
    BY <2>2, <2>3 DEF ExtentRecords
  <2> HIDE DEF n
  <2> QED
    BY <1>1, <2>4, <2>5 DEF ExtentRecords
<1>4. file \in DOMAIN stored /\ file \in Files /\ Directory(d, st)
  <2> HIDE DEF n, at
  <2> QED
    BY <1>1, <1>3, SizeWritten
<1>5. kind' = kind /\ kind \in Kinds /\ kind \in {"floppy", "hard", "other"}
  BY DEF WriteExtent, DiskInv
<1>6. CASE dir' = d /\ writing' = NotWriting
  <2>1. Directory(dir, stored)'
    <3> HIDE DEF d, st
    <3> QED
      BY <1>2, <1>4, <1>5, <1>6, StillDirectory
  <2>2. NotWriting \in [slot : 0..MaxSlots, left : Nat]
    BY PreviewAssumption DEF NotWriting
  <2> QED
    BY <1>5, <1>6, <2>1, <2>2 DEF DiskInv
<1>7. CASE /\ writing.left > n /\ HasRoom
           /\ dir' = WithExtent(d, file, FirstFree)
           /\ writing' = [slot |-> FirstFree, left |-> writing.left - n]
  <2> DEFINE f == FirstFree
  <2>1. f \in 1..Len(dir) + 1 /\ (f <= Len(dir) => ~IsFile(dir[f]))
    BY <1>1, FirstFreeIs
  <2>2. f <= MaxSlots /\ f <= DirectorySize
    BY <1>7 DEF HasRoom
  <2> HIDE DEF f
  <2>3. Vacant(d, f)
    <3>1. Len(d) = Len(dir) /\ \A i \in 1..Len(dir) : i # at => d[i] = dir[i]
      BY <1>1
    <3>2. f <= Len(dir) => f \in 1..Len(dir) /\ f # at
      BY <1>1, <2>1
    <3> HIDE DEF d
    <3> QED
      BY <2>1, <2>2, <3>1, <3>2 DEF Vacant
  <2> HIDE DEF d, st, file, n
  <2>4. Directory(dir', WithFile(st, file)) /\ f \in 1..Len(dir') /\ dir'[f] = Entry(file, FALSE, 0)
    BY <1>4, <1>7, <2>3, ExtentIs DEF f
  <2>5. WithFile(st, file) = stored'
    BY <1>2, <1>4 DEF WithFile, st
  <2>6. Directory(dir, stored)'
    BY <1>5, <2>4, <2>5, StillDirectory
  <2>7. IsFile(Entry(file, FALSE, 0)) /\ Entry(file, FALSE, 0).rc = 0
    BY <1>4 DEF Entry, IsFile, Files
  <2>8. writing' = [slot |-> f, left |-> writing.left - n] /\ f \in 0..MaxSlots /\ writing.left - n \in Nat
    BY <1>1, <1>3, <1>7, <2>1, <2>2, PreviewAssumption DEF f
  <2>9. /\ writing' \in [slot : 0..MaxSlots, left : Nat] /\ writing'.slot = f
        /\ writing'.left > 0
    BY <1>1, <1>3, <1>7, <2>8
  <2> QED
    BY <1>5, <2>4, <2>6, <2>7, <2>9 DEF DiskInv
<1> QED
  BY <1>2, <1>6, <1>7

\* Erasing a file frees its entries.
LEMMA EraseFileDisk == DiskInv /\ EraseFile => DiskInv'
<1> SUFFICES ASSUME DiskInv, EraseFile PROVE DiskInv'
  OBVIOUS
<1>1. /\ Directory(dir, stored) /\ dir \in Seq(EntryTypes) /\ Len(dir) \in Nat
      /\ DirectorySize \in Nat /\ Len(dir) <= DirectorySize
  BY SizeIs DEF DiskInv, Directory
<1> DEFINE Freed(x) == [x EXCEPT !.user = 229]
<1>2. PICK file \in DOMAIN stored :
        /\ dir' = [i \in 1..Len(dir) |->
                     IF <<dir[i].user, dir[i].name>> = file THEN Freed(dir[i]) ELSE dir[i]]
        /\ stored' = [f \in DOMAIN stored \ {file} |-> stored[f]]
  BY DEF EraseFile
<1>3. file \in Files /\ Recorded(Table(dir), stored)
  BY <1>1 DEF Directory, Recorded
<1>4. ASSUME NEW x \in EntryTypes PROVE Freed(x) \in EntryTypes
  <2>1. x = [user |-> x.user, name |-> x.name, attrs |-> x.attrs, rc |-> x.rc]
        /\ x.rc \in 0..128 /\ x.name \in Nat /\ x.attrs \in BOOLEAN
    BY DEF EntryTypes
  <2>2. Freed(x) = [user |-> 229, name |-> x.name, attrs |-> x.attrs, rc |-> x.rc]
    BY <2>1
  <2> HIDE DEF Freed
  <2> QED
    BY <2>1, <2>2 DEF EntryTypes
<1>5. file = <<file[1], file[2]>>
  BY <1>3 DEF Files
<1> DEFINE New(x) == IF x.user = file[1] /\ x.name = file[2] THEN Freed(x) ELSE x
           d == [i \in 1..Len(dir) |-> New(dir[i])]
           t == Table(dir)
           u == Table(d)
<1> HIDE DEF Freed
<1>6. dir' = d
  <2>1. ASSUME NEW i \in 1..Len(dir)
        PROVE  <<dir[i].user, dir[i].name>> = file <=> dir[i].user = file[1] /\ dir[i].name = file[2]
    BY <1>5
  <2> QED
    BY <1>2, <2>1
<1>7. \A i \in 1..Len(dir) : New(dir[i]) \in EntryTypes
  BY <1>1, <1>4, ElementOfSeq
<1>8. d \in Seq(EntryTypes) /\ Len(d) = Len(dir) /\ \A i \in 1..Len(dir) : d[i] = New(dir[i])
  <2> HIDE DEF New
  <2> QED
    BY <1>1, <1>7
<1> HIDE DEF d
<1>9. t \in Tables /\ u \in Tables
  BY <1>1, <1>8, TableIs
<1>10. ASSUME NEW i \in 0..DirectorySize - 1 PROVE u[i] = New(t[i])
  <2>1. CASE i + 1 <= Len(dir)
    <3>1. i + 1 \in 1..Len(dir)
      BY <1>1, <2>1
    <3>2. t[i] = dir[i + 1] /\ u[i] = d[i + 1]
      BY <1>8, <2>1 DEF Table
    <3> HIDE DEF New, t, u
    <3> QED
      BY <1>8, <3>1, <3>2
  <2>2. CASE ~(i + 1 <= Len(dir))
    <3>1. t[i] = Free /\ u[i] = Free
      BY <1>8, <2>2 DEF Table
    <3>2. ~(Free.user = file[1])
      BY <1>3 DEF Free, Files
    <3> HIDE DEF t, u
    <3> QED
      BY <3>1, <3>2
  <2> QED
    BY <2>1, <2>2
<1>11. Recorded(u, [f \in DOMAIN stored \ {file} |-> stored[f]])
  <2>1. \A i \in 0..DirectorySize - 1 :
          u[i] = IF t[i].user = file[1] /\ t[i].name = file[2] THEN [t[i] EXCEPT !.user = 229] ELSE t[i]
    BY <1>10 DEF Freed
  <2> HIDE DEF t, u
  <2> QED
    BY <1>3, <1>9, <2>1, RecordedErased DEF t
<1>12. Directory(d, stored')
  BY <1>1, <1>2, <1>8, <1>11 DEF Directory
<1>13. /\ kind' = kind /\ kind \in Kinds /\ kind \in {"floppy", "hard", "other"}
       /\ writing' = NotWriting /\ writing' \in [slot : 0..MaxSlots, left : Nat]
  BY DEF EraseFile, DiskInv
<1>14. Directory(dir, stored)'
  BY <1>6, <1>12, <1>13, StillDirectory
<1> QED
  BY <1>13, <1>14 DEF DiskInv

\* An attribute changes neither the files nor their records.
LEMMA SetAttributeDisk == DiskInv /\ SetAttribute => DiskInv'
<1> SUFFICES ASSUME DiskInv, SetAttribute PROVE DiskInv'
  OBVIOUS
<1>1. /\ Directory(dir, stored) /\ dir \in Seq(EntryTypes) /\ Len(dir) \in Nat
      /\ DirectorySize \in Nat /\ Len(dir) <= DirectorySize
  BY SizeIs DEF DiskInv, Directory
<1>2. PICK k \in 1..Len(dir) : dir' = [dir EXCEPT ![k].attrs = TRUE]
  BY DEF SetAttribute
<1> DEFINE x == [dir[k] EXCEPT !.attrs = TRUE]
           d == [dir EXCEPT ![k] = x]
           t == Table(dir)
           u == Table(d)
<1>3. dir' = d
  BY <1>2
<1>4. /\ x \in EntryTypes /\ x.user = dir[k].user /\ x.name = dir[k].name /\ x.rc = dir[k].rc
  <2> DEFINE y == dir[k]
  <2>1. y \in EntryTypes
    BY <1>1, ElementOfSeq
  <2>2. x = [y EXCEPT !.attrs = TRUE]
    OBVIOUS
  <2> HIDE DEF y
  <2>3. y = [user |-> y.user, name |-> y.name, attrs |-> y.attrs, rc |-> y.rc]
        /\ y.rc \in 0..128 /\ y.name \in Nat /\ y.user \in 0..255
    BY <2>1 DEF EntryTypes
  <2> HIDE DEF x
  <2>4. x = [user |-> y.user, name |-> y.name, attrs |-> TRUE, rc |-> y.rc]
    BY <2>2, <2>3
  <2> QED
    BY <2>3, <2>4 DEF EntryTypes, y
<1> HIDE DEF x
<1>5. /\ d \in Seq(EntryTypes) /\ Len(d) = Len(dir) /\ d[k] = x
      /\ \A i \in 1..Len(dir) : i # k => d[i] = dir[i]
  BY <1>1, <1>4
<1> HIDE DEF d
<1>6. \A i \in 1..Len(dir) : d[i].user = dir[i].user /\ d[i].name = dir[i].name /\ d[i].rc = dir[i].rc
  BY <1>4, <1>5
<1>7. t \in Tables /\ u \in Tables
  BY <1>1, <1>5, TableIs
<1>8. ASSUME NEW i \in 0..DirectorySize - 1
      PROVE  u[i].user = t[i].user /\ u[i].name = t[i].name /\ u[i].rc = t[i].rc
  <2>1. CASE i + 1 <= Len(dir)
    <3>1. i + 1 \in 1..Len(dir)
      BY <1>1, <2>1
    <3>2. t[i] = dir[i + 1] /\ u[i] = d[i + 1]
      BY <1>5, <2>1 DEF Table
    <3> HIDE DEF t, u
    <3> QED
      BY <1>6, <3>1, <3>2
  <2>2. CASE ~(i + 1 <= Len(dir))
    <3>1. t[i] = Free /\ u[i] = Free
      BY <1>5, <2>2 DEF Table
    <3> QED
      BY <3>1
  <2> QED
    BY <2>1, <2>2
<1>9. Recorded(u, stored)
  <2>1. Recorded(t, stored)
    BY <1>1 DEF Directory
  <2> HIDE DEF t, u
  <2> QED
    BY <1>7, <1>8, <2>1, RecordedMarked
<1>10. Directory(d, stored)
  BY <1>1, <1>5, <1>9 DEF Directory
<1>11. /\ kind' = kind /\ kind \in Kinds /\ kind \in {"floppy", "hard", "other"}
       /\ writing' = writing /\ stored' = stored /\ writing \in [slot : 0..MaxSlots, left : Nat]
  BY DEF SetAttribute, DiskInv
<1>12. Directory(dir, stored)'
  BY <1>3, <1>10, <1>11, StillDirectory
<1>13. writing # NotWriting =>
         /\ writing.slot \in 1..Len(d) /\ writing.left > 0
         /\ IsFile(d[writing.slot]) /\ d[writing.slot].rc = 0
  BY <1>5, <1>6 DEF DiskInv, IsFile
<1> QED
  BY <1>3, <1>11, <1>12, <1>13 DEF DiskInv

\* doPreview reads the table of the directory.
LEMMA TableRead ==
  ASSUME DiskInv, Supported(ImageSize)
  PROVE  listCPMByUser(ImageSize, ImageSector) = [u \in 0..15 |-> FilesOf(Table(dir), u)]
<1> DEFINE g == geomForSize(ImageSize)
           read == Entries(g, ImageSector)
<1>1. kind \in {"floppy", "hard"} /\ Len(dir) \in Nat
  BY DEF DiskInv, Directory, Supported, ImageSize, FloppySize, HDSize
<1>2. g.dirEntries = DirectorySize
  BY <1>1 DEF geomForSize, ImageSize, FloppySize, HDSize, FloppyGeom, HDGeom, DirectorySize
<1>3. \A i \in 0..g.dirEntries - 1 : read[i] = IF i + 1 <= Len(dir) THEN dir[i + 1] ELSE Free
  BY <1>1, EntriesRead
<1>4. read = [i \in 0..g.dirEntries - 1 |-> read[i]]
  BY DEF Entries
<1> HIDE DEF g, read
<1>5. read = Table(dir)
  BY <1>2, <1>3, <1>4 DEF Table
<1> QED
  BY <1>5 DEF listCPMByUser, g, read

\* What doPreview shows.
LEMMA Previewed == DiskInv /\ doPreview => ViewInv' /\ (DOMAIN stored # {} => lines'.files # <<>>)
<1> SUFFICES ASSUME DiskInv, doPreview PROVE ViewInv' /\ (DOMAIN stored # {} => lines'.files # <<>>)
  OBVIOUS
<1> DEFINE t == Table(dir)
           files == [u \in 0..15 |-> FilesOf(t, u)]
           us == PrevUsers(files)
           at == Start(files, us)
<1>1. t \in Tables /\ Recorded(t, stored)
  BY TableIs DEF DiskInv, Directory
<1>2. /\ byUser' = files /\ users' = us /\ userIdx' = at
      /\ lines' = Listed(files, us, at) /\ mode' = "preview" /\ snapshot' = stored
  BY TableRead DEF doPreview
<1>3. ASSUME NEW u \in 0..15
      PROVE  Lists(files[u], u, stored)
  <2>1. files[u] = FilesOf(t, u)
    OBVIOUS
  <2> HIDE DEF files, t
  <2> QED
    BY <1>1, <2>1, ListingIs
<1>4. /\ us \in Seq(0..15) /\ Len(us) \in Nat \ {0}
      /\ Range(us) = {0} \cup {u \in 0..15 : files[u] # <<>>}
      /\ \A i \in 1..Len(us) - 1 : us[i] < us[i + 1]
  <2> HIDE DEF files
  <2> QED
    BY UsersAre
<1>5. at \in 0..Len(us) - 1 /\ ((\E u \in 0..15 : files[u] # <<>>) => files[us[at + 1]] # <<>>)
  <2> HIDE DEF files
  <2> QED
    BY StartIs
<1>6. \A f \in DOMAIN stored : f[1] \in 0..15
  BY <1>1 DEF Recorded, Files
<1> HIDE DEF t, files, us, at
<1>7. Range(us) = {0} \cup {f[1] : f \in DOMAIN stored}
  <2>1. {u \in 0..15 : files[u] # <<>>} = {f[1] : f \in DOMAIN stored}
    <3>1. ASSUME NEW u \in 0..15, files[u] # <<>> PROVE \E f \in DOMAIN stored : f[1] = u
      BY <1>3, <3>1 DEF Lists
    <3>2. ASSUME NEW f \in DOMAIN stored PROVE f[1] \in 0..15 /\ files[f[1]] # <<>>
      BY <1>3, <1>6 DEF Lists
    <3> QED
      BY <3>1, <3>2
  <2> QED
    BY <1>4, <2>1
<1>8. DOMAIN stored # {} => lines'.files # <<>>
  <2>1. lines'.files = files[us[at + 1]]
    BY <1>2 DEF Listed
  <2>2. ASSUME NEW f \in DOMAIN stored PROVE \E u \in 0..15 : files[u] # <<>>
    <3>1. f[1] \in 0..15 /\ files[f[1]] # <<>>
      BY <1>3, <1>6 DEF Lists
    <3> QED
      BY <3>1
  <2> QED
    BY <1>5, <2>1, <2>2
<1>9. ListingAsStored'
  <2>1. lines' = Listed(byUser', users', userIdx')
    BY <1>2
  <2>2. \A u \in 0..15 :
          /\ {<<u, f.name>> : f \in Range(byUser'[u])} = {f \in DOMAIN snapshot' : f[1] = u}
          /\ \A i \in 1..Len(byUser'[u]) : byUser'[u][i].records = snapshot'[<<u, byUser'[u][i].name>>]
          /\ \A i \in 1..Len(byUser'[u]) - 1 : byUser'[u][i].name < byUser'[u][i + 1].name
    BY <1>2, <1>3 DEF Lists
  <2>3. Range(users') = {0} \cup {f[1] : f \in DOMAIN snapshot'}
    BY <1>2, <1>7
  <2>4. \A i \in 1..Len(users') - 1 : users'[i] < users'[i + 1]
    BY <1>2, <1>4
  <2> QED
    BY <2>1, <2>2, <2>3, <2>4 DEF ListingAsStored, Listed
<1>10. \A u \in 0..15 : byUser'[u] \in Seq(FileEntries)
  BY <1>2, <1>3 DEF Lists
<1> QED
  BY <1>2, <1>4, <1>5, <1>8, <1>9, <1>10 DEF ViewInv

\* Left and Right keep to the users of the preview.
LEMMA Stepped == ViewInv /\ previewSetUser => ViewInv'
<1> SUFFICES ASSUME ViewInv, previewSetUser PROVE ViewInv'
  OBVIOUS
<1>1. /\ mode = "preview" /\ mode' = mode /\ byUser' = byUser /\ users' = users /\ snapshot' = snapshot
      /\ userIdx' \in 0..Len(users) - 1 /\ lines' = Listed(byUser, users, userIdx')
  <2>1. users \in Seq(0..15) /\ userIdx \in Int /\ Len(users) \in Nat
    BY DEF ViewInv, previewSetUser
  <2>2. PICK i \in {userIdx - 1, userIdx + 1} :
          /\ ValidUser(i) /\ userIdx' = i
          /\ lines' = IF i \in 0..Len(users) - 1 THEN Listed(byUser, users, i) ELSE lines
    BY DEF previewSetUser
  <2>3. i \in 0..Len(users) - 1
    BY <2>1, <2>2 DEF ValidUser
  <2> QED
    BY <2>2, <2>3 DEF previewSetUser
<1>2. lines' = Listed(byUser', users', userIdx')
  BY <1>1
<1> QED
  BY <1>1, <1>2 DEF ViewInv, ListingAsStored, Listed

LEMMA InitInv == Init => IInv
<1>1. Init => ViewInv
  BY DEF Init, ViewInv, ListingAsStored
<1> QED
  BY <1>1, InitDisk DEF IInv

LEMMA StepInv == IInv /\ [Next]_vars => IInv'
<1> SUFFICES ASSUME IInv, [Next]_vars PROVE IInv'
  OBVIOUS
<1>1. DiskInv /\ ViewInv
  BY DEF IInv
<1>2. ASSUME UNCHANGED viewVars PROVE ViewInv'
  BY <1>1, <1>2 DEF viewVars, ViewInv, ListingAsStored, Listed
<1>3. ASSUME UNCHANGED diskVars PROVE DiskInv'
  <2>1. kind' = kind /\ dir' = dir /\ writing' = writing /\ stored' = stored
    BY <1>3 DEF diskVars
  <2>2. Directory(dir, stored)'
    BY <1>1, <2>1, StillDirectory DEF DiskInv
  <2> QED
    BY <1>1, <2>1, <2>2 DEF DiskInv
<1>4. CASE MakeFile
  BY <1>1, <1>2, <1>4, MakeFileDisk DEF MakeFile, IInv
<1>5. CASE WriteExtent
  BY <1>1, <1>2, <1>5, WriteExtentDisk DEF WriteExtent, IInv
<1>6. CASE EraseFile
  BY <1>1, <1>2, <1>6, EraseFileDisk DEF EraseFile, IInv
<1>7. CASE SetAttribute
  BY <1>1, <1>2, <1>7, SetAttributeDisk DEF SetAttribute, IInv
<1>8. CASE doPreview
  BY <1>1, <1>3, <1>8, Previewed DEF doPreview, IInv
<1>9. CASE previewSetUser
  BY <1>1, <1>3, <1>9, Stepped DEF previewSetUser, IInv
<1>10. CASE LeavePreview
  <2>1. ViewInv'
    BY <1>10 DEF LeavePreview, ViewInv, ListingAsStored
  <2> QED
    BY <1>3, <1>10, <2>1 DEF LeavePreview, IInv
<1>11. CASE UNCHANGED vars
  BY <1>2, <1>3, <1>11 DEF vars, diskVars, viewVars, IInv
<1> QED
  BY <1>4, <1>5, <1>6, <1>7, <1>8, <1>9, <1>10, <1>11 DEF Next

\* The variables have their types, and the user shown is one of the list, for every disk,
\* whatever CP/M does to it meanwhile.
THEOREM TypeCorrect == Spec => []TypeOK
<1>1. IInv => TypeOK
  BY ElementOfSeq DEF IInv, DiskInv, ViewInv, Directory, TypeOK, EntryTypes
<1> QED
  BY <1>1, InitInv, StepInv, PTL DEF Spec

\* The listing of every user is what CP/M had on the disk when the image was downloaded,
\* for any number of users, files, extents and erasures.
THEOREM ListingCorrect == Spec => []ListingAsStored
<1>1. IInv => ListingAsStored
  BY DEF IInv, ViewInv
<1> QED
  BY <1>1, InitInv, StepInv, PTL DEF Spec

\* A preview opens on files if there are any, whichever user's they are.
THEOREM OpensCorrect == Spec => OpensOnFiles
<1>1. ASSUME IInv, [Next]_vars
      PROVE  [mode = "lib" /\ mode' = "preview" /\ DOMAIN stored # {} => lines'.files # <<>>]_vars
  <2> SUFFICES ASSUME mode = "lib", mode' = "preview" PROVE DOMAIN stored # {} => lines'.files # <<>>
    OBVIOUS
  <2>1. doPreview
    BY <1>1 DEF Next, MakeFile, WriteExtent, EraseFile, SetAttribute, previewSetUser, LeavePreview,
                vars, viewVars
  <2> QED
    BY <1>1, <2>1, Previewed DEF IInv
<1> QED
  BY <1>1, InitInv, StepInv, PTL DEF Spec, OpensOnFiles

================================================================================
