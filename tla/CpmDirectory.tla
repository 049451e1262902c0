------------------------------ MODULE CpmDirectory ------------------------------
(***************************************************************************)
(* The CP/M directory reader of gateway-go/cpmdir.go, as functions: where  *)
(* the directory of an image lies, and the files its entries add up to.    *)
(*                                                                         *)
(* An image is its length and the operator sector(off), the four directory *)
(* entries in the 128 bytes from byte off.  An entry is a record of user,  *)
(* name, attrs (the high bits of the name) and rc.  Names are numbers in   *)
(* the order the code sorts them.                                          *)
(***************************************************************************)
EXTENDS Integers, Sequences, FiniteSets, FiniteSetsExt, Functions, Sorting

FloppySize == 256256
HDSize     == 4177920
SecSize    == 128
EntrySize  == 32
PerSector  == 4   \* SecSize \div EntrySize

cpmTrans ==
  <<1, 7, 13, 19, 25, 5, 11, 17, 23, 3, 9, 15, 21, 2, 8, 14, 20, 26, 6, 12, 18, 24, 4, 10, 16, 22>>

\* skew = <<>>: none.
FloppyGeom == [sectrk |-> 26, bootTrk |-> 2, dirEntries |-> 64, skew |-> cpmTrans]
HDGeom     == [sectrk |-> 128, bootTrk |-> 0, dirEntries |-> 1024, skew |-> <<>>]

Supported(size) == size \in {FloppySize, HDSize}

geomForSize(size) == IF size = FloppySize THEN FloppyGeom ELSE HDGeom

\* Mutant: the logical sector is taken for the physical one.
Phys_NoSkew(g, s) == (s % g.sectrk) + 1

\* The physical sector of a track, from 1.
Phys(g, s) == IF g.skew # <<>> THEN g.skew[(s % g.sectrk) + 1] ELSE (s % g.sectrk) + 1

sectorOffset(g, s) ==
  (g.bootTrk + s \div g.sectrk) * g.sectrk * SecSize + (Phys(g, s) - 1) * SecSize

dirSectors(g) == (g.dirEntries * EntrySize) \div SecSize

Truncated(g, size) == \E s \in 0..dirSectors(g) - 1 : sectorOffset(g, s) + SecSize > size

\* The entries, in the order of the directory.
Entries(g, sector(_)) ==
  LET read == [s \in 0..dirSectors(g) - 1 |-> sector(sectorOffset(g, s))]
  IN [i \in 0..g.dirEntries - 1 |-> read[i \div PerSector][(i % PerSector) + 1]]

\* cpmName: the attributes are dropped.
cpmName(e) == e.name

IsFile(e) == e.user <= 15

\* The files of one user, sorted by name, with the records of all their extents.
FilesOf(entries, u) ==
  LET mine == {i \in DOMAIN entries : IsFile(entries[i]) /\ entries[i].user = u}
      rc == [i \in DOMAIN entries |-> entries[i].rc]
      Records(n) == SumFunctionOnSet(rc, {i \in mine : cpmName(entries[i]) = n})
      names == Sorted({cpmName(entries[i]) : i \in mine})
  IN [k \in 1..Len(names) |-> [name |-> names[k], records |-> Records(names[k])]]

\* The files by user, for a supported image that is not truncated.
listCPMByUser(size, sector(_)) ==
  LET entries == Entries(geomForSize(size), sector)
  IN [u \in 0..15 |-> FilesOf(entries, u)]

================================================================================
