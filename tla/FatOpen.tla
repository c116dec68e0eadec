------------------------------- MODULE FatOpen -------------------------------
(***************************************************************************)
(* f_open of source/fatfs/ff.c for a path like those of main, a name in    *)
(* the root directory: dir_sdi, dir_next and dir_find, on a FAT12/16       *)
(* volume with its table of a fixed size, on FAT32, and on exFAT, where    *)
(* dir_read and load_xdir read the entries of an object as a block.        *)
(*                                                                         *)
(* A directory entry is what the search asks of it: an LFN entry has its   *)
(* place in the set, the checksum, and whether its piece is that of the    *)
(* name (cmp_lfn); an SFN entry has its checksum and whether it is the     *)
(* 8.3 name (memcmp).  The table, too, gets its contents as it is read.    *)
(*                                                                         *)
(* mount_volume accepts an exFAT volume whose data begin at sector 0.      *)
(* Then cluster 2 begins with the boot sector, and the number of its first *)
(* sector, 0, is also what marks the end of a directory.  Products with    *)
(* csize are not taken modulo 2^32: the clusters are where they should be. *)
(***************************************************************************)
EXTENDS FatVolume, Sequences

CONSTANTS
    NumFatEnt,     \* n_fatent of the volume
    ClusterSize,   \* csize of the volume
    PerSector,     \* directory entries in a sector: 16 in the code
    MaxDir,        \* entries of the longest directory: MAX_DIR, MAX_DIR_EX
    RootEntries,   \* n_rootdir of a FAT12/16 volume
    Bases          \* bound: where the data area begins

ASSUME FatOpenAssumption ==
    /\ NumFatEnt \in Nat /\ NumFatEnt > 2
    /\ ClusterSize \in Nat \ {0}
    /\ PerSector \in Nat \ {0}
    /\ MaxDir \in Nat \ {0}
    /\ RootEntries \in Nat \ {0}
    /\ RootEntries % PerSector = 0    \* or the volume is not mounted
    /\ Bases \subseteq Nat

VARIABLES
    dirbase,      \* the root's first cluster, but for a table of a fixed size
    table,        \* the directory entries that have been read
    dptr,         \* index of the current entry
    clust, sect,  \* its cluster, 0 in a table of a fixed size, and its sector
    ord, sum,     \* state of the LFN set; ord is 255 outside of one
    block,        \* entries of an exFAT block still to be loaded
    found,        \* the block's first entry
    dpc, dres,    \* where dir_find is, and its result
    seen          \* the entries looked at, in order

walk   == <<dirbase, dptr, clust, sect>>
lfn    == <<ord, sum>>
xdir   == <<block, found>>
vars   == <<fat, volume, walk, table, lfn, xdir, dpc, dres, seen>>

NONE == 255

Plain(t) == [type |-> t, ord |-> 0, last |-> FALSE, sum |-> 0, match |-> FALSE]

\* FAT: a deleted entry or a volume label, the end, a piece of a long name, and
\* a short name with its checksum.
FatEntries ==
    {Plain("deleted"), Plain("end")} \cup
    [type : {"lfn"}, ord : 1..2, last : BOOLEAN, sum : {1, 2}, match : BOOLEAN] \cup
    [type : {"sfn"}, ord : {0}, last : {FALSE}, sum : {1}, match : BOOLEAN]

\* exFAT: of a file entry, ord is the number of entries that follow, sum whether
\* the checksum is right, match whether hash and name are those looked for; of a
\* stream entry, match is whether the name fits the block.
ExEntries ==
    {Plain("other"), Plain("end"), Plain("name")} \cup
    [type : {"file"}, ord : 1..3, last : {FALSE}, sum : {0, 1}, match : BOOLEAN] \cup
    [type : {"stream"}, ord : {0}, last : {FALSE}, sum : {0}, match : BOOLEAN]

Entries == IF exfat THEN ExEntries ELSE FatEntries

TypeOK ==
    /\ FatTypeOK
    /\ dirbase \in FatValues
    /\ \A x \in DOMAIN table : table[x] \in Entries
    /\ dptr \in 0..(MaxDir - 1)
    /\ clust \in {0} \cup Clusters
    /\ sect \in Nat
    /\ ord \in {0, 1, 2, NONE} /\ sum \in {0, 1, 2, NONE}
    /\ block \in 0..3
    /\ found \in Entries
    /\ dpc \in {"sdi", "look", "next", "done"}
    /\ dres \in Results
    /\ seen \in Seq(Entries)

Init ==
    /\ fat = [c \in {} |-> 0]
    /\ fs_type \in {"FAT16", "FAT32", "EXFAT"}
    /\ n_fatent = NumFatEnt /\ csize = ClusterSize
    /\ database \in Bases /\ (database = 0 => exfat)
    /\ dirbase \in FatValues /\ (Static => dirbase = 0)
    /\ table = [x \in {} |-> Plain("end")]
    /\ dptr = 0 /\ clust = 0 /\ sect = 0
    /\ ord = NONE /\ sum = NONE
    /\ block = 0 /\ found = Plain("end")
    /\ dpc = "sdi" /\ dres = "none"
    /\ seen = <<>>

StaticBase == database + csize * n_fatent    \* a sector before no cluster

Stop(r) == dpc' = "done" /\ dres' = r

\* dir_sdi to the first entry of the root directory.
Sdi ==
    /\ dpc = "sdi"
    /\ clust' = IF dirbase \in Clusters THEN dirbase ELSE 0
    /\ sect' = IF Static THEN StaticBase ELSE clst2sect(dirbase)
    /\ IF sect' = 0 THEN Stop("FR_INT_ERR") ELSE dpc' = "look" /\ UNCHANGED dres
    /\ UNCHANGED <<fat, volume, dirbase, table, dptr, lfn, xdir, seen>>

\* Sector 0 is read only inside a block: load_xdir does not look at the number.
Readable == sect # 0 \/ block > 0

\* The current entry is read and found to be e.  In sector 0 it is the jump at the
\* start of the boot sector, 0xEB: no entry of any known type.
Entry(e) ==
    LET at == <<sect, dptr % PerSector>>
    IN  /\ Readable /\ (sect = 0 => e = Plain("other"))
        /\ \/ at \in DOMAIN table /\ e = table[at] /\ UNCHANGED table
           \/ at \notin DOMAIN table /\ table' = With(table, at, e)
        /\ seen' = Append(seen, e)

ResetLfn == ord' = NONE /\ UNCHANGED sum

-----------------------------------------------------------------------------
(* Mistakes one could make here, for the mutants of PROJECT.json.           *)

LookSfn_NoChecksum ==
    /\ dpc = "look"
    /\ ~exfat
    /\ \E e \in Entries :
        /\ e.type = "sfn"
        /\ Entry(e)
        /\ IF ord = 0 \/ e.match
           THEN Stop("FR_OK") /\ UNCHANGED lfn
           ELSE ResetLfn /\ dpc' = "next" /\ UNCHANGED dres
    /\ UNCHANGED <<fat, volume, walk, xdir>>

-----------------------------------------------------------------------------
(* dir_find on FAT12/16 and FAT32                                          *)

LookEnd ==
    /\ dpc = "look"
    /\ block = 0
    /\ Entry(Plain("end"))
    /\ Stop("FR_NO_FILE")
    /\ UNCHANGED <<fat, volume, walk, lfn, xdir>>

\* A deleted entry or a label breaks off a set of LFN entries.
LookDeleted ==
    /\ dpc = "look"
    /\ ~exfat
    /\ Entry(Plain("deleted"))
    /\ ResetLfn
    /\ dpc' = "next"
    /\ UNCHANGED <<fat, volume, walk, xdir, dres>>

\* An LFN entry begins a set, or goes on with one if it is the piece expected,
\* with the same checksum; and its part of the name must be the one looked for.
LookLfn ==
    /\ dpc = "look"
    /\ ~exfat
    /\ \E e \in Entries :
        /\ e.type = "lfn"
        /\ Entry(e)
        /\ sum' = IF e.last THEN e.sum ELSE sum
        /\ ord' = IF (e.last \/ e.ord = ord) /\ sum' = e.sum /\ e.match
                  THEN e.ord - 1 ELSE NONE
    /\ dpc' = "next"
    /\ UNCHANGED <<fat, volume, walk, xdir, dres>>

\* An SFN entry is the object looked for by its complete set of LFN entries or by
\* its own name.
LookSfn ==
    /\ dpc = "look"
    /\ ~exfat
    /\ \E e \in Entries :
        /\ e.type = "sfn"
        /\ Entry(e)
        /\ IF (ord = 0 /\ sum = e.sum) \/ e.match
           THEN Stop("FR_OK") /\ UNCHANGED lfn
           ELSE ResetLfn /\ dpc' = "next" /\ UNCHANGED dres
    /\ UNCHANGED <<fat, volume, walk, xdir>>

-----------------------------------------------------------------------------
(* dir_find on exFAT: dir_read looks for a file entry, load_xdir loads the *)
(* block, and the name is compared.                                        *)

LookOther ==
    /\ dpc = "look"
    /\ exfat /\ block = 0
    /\ \E e \in Entries :
        /\ e.type \notin {"file", "end"}
        /\ Entry(e)
    /\ dpc' = "next"
    /\ UNCHANGED <<fat, volume, walk, lfn, xdir, dres>>

LookFile ==
    /\ dpc = "look"
    /\ exfat /\ block = 0
    /\ \E e \in Entries :
        /\ e.type = "file"
        /\ Entry(e)
        /\ found' = e
        /\ IF e.ord < 2
           THEN Stop("FR_INT_ERR") /\ UNCHANGED block
           ELSE block' = e.ord /\ dpc' = "next" /\ UNCHANGED dres
    /\ UNCHANGED <<fat, volume, walk, lfn>>

\* The entries that must follow: a stream entry whose name fits, then names.
Expected(e) ==
    IF block = found.ord THEN e.type = "stream" /\ e.match ELSE e.type = "name"

\* With the last one, the checksum tells whether the block is sound, and then the
\* name is compared.
LookBlock ==
    /\ dpc = "look"
    /\ block > 0
    /\ \E e \in Entries :
        /\ Entry(e)
        /\ IF ~Expected(e) \/ (block = 1 /\ found.sum = 0)
           THEN Stop("FR_INT_ERR") /\ UNCHANGED block
           ELSE /\ block' = block - 1
                /\ IF block = 1 /\ found.match
                   THEN Stop("FR_OK")
                   ELSE dpc' = "next" /\ UNCHANGED dres
    /\ UNCHANGED <<fat, volume, walk, lfn, found>>

LookFails ==
    /\ dpc = "look"
    /\ Readable
    /\ Stop("FR_DISK_ERR")
    /\ UNCHANGED <<fat, volume, walk, table, lfn, xdir, seen>>

\* dir_read takes sector 0 for the end of the directory, but returns FR_OK.  dir_find
\* compares what is in dirbuf: the block before, which has another name, or, with none
\* loaded, what was on the stack.  If it is not the name, the next dir_read ends it.
LookAstray ==
    /\ dpc = "look"
    /\ ~Readable
    /\ Stop("FR_NO_FILE") \/ (found = Plain("end") /\ Stop("FR_OK"))
    /\ UNCHANGED <<fat, volume, walk, table, lfn, xdir, seen>>

-----------------------------------------------------------------------------
(* dir_next                                                                *)

\* The end of the directory inside a block is an error.
EndOfTable == Stop(IF block > 0 THEN "FR_INT_ERR" ELSE "FR_NO_FILE")

Advance(c, s) ==
    /\ dptr' = dptr + 1
    /\ clust' = c /\ sect' = s
    /\ dpc' = "look"
    /\ UNCHANGED dres

SectorChanged  == (dptr + 1) % PerSector = 0
ClusterChanged == SectorChanged /\ clust # 0
                  /\ ((dptr + 1) \div PerSector) % csize = 0

\* Mistakes one could make in DirNext, for the mutants of PROJECT.json.
DirNext_NoLimit ==
    /\ dpc = "next"
    /\ ~ClusterChanged \/ dptr + 1 >= MaxDir
    /\ IF SectorChanged /\ clust = 0 /\ dptr + 1 >= RootEntries
       THEN EndOfTable /\ UNCHANGED <<dptr, clust, sect>>
       ELSE Advance(clust, IF SectorChanged THEN sect + 1 ELSE sect)
    /\ UNCHANGED <<fat, volume, dirbase, table, lfn, xdir, seen>>

DirNext_OneMore ==
    /\ dpc = "next"
    /\ ~ClusterChanged \/ dptr + 1 >= MaxDir
    /\ IF \/ dptr + 1 >= MaxDir
          \/ SectorChanged /\ clust = 0 /\ dptr + 1 > RootEntries
       THEN EndOfTable /\ UNCHANGED <<dptr, clust, sect>>
       ELSE Advance(clust, IF SectorChanged THEN sect + 1 ELSE sect)
    /\ UNCHANGED <<fat, volume, dirbase, table, lfn, xdir, seen>>

\* The next entry of the same cluster, or of a table of a fixed size.
DirNext ==
    /\ dpc = "next"
    /\ ~ClusterChanged \/ dptr + 1 >= MaxDir
    /\ IF \/ dptr + 1 >= MaxDir
          \/ SectorChanged /\ clust = 0 /\ dptr + 1 >= RootEntries
       THEN EndOfTable /\ UNCHANGED <<dptr, clust, sect>>
       ELSE Advance(clust, IF SectorChanged THEN sect + 1 ELSE sect)
    /\ UNCHANGED <<fat, volume, dirbase, table, lfn, xdir, seen>>

DirNextCluster ==
    /\ dpc = "next"
    /\ ClusterChanged /\ dptr + 1 < MaxDir
    /\ \/ \E v \in FatValues :
            /\ FatEntry(clust, v)
            /\ \/ v <= 1 /\ Stop("FR_INT_ERR") /\ UNCHANGED <<dptr, clust, sect>>
               \/ v = EOC /\ EndOfTable /\ UNCHANGED <<dptr, clust, sect>>
               \/ v \in Clusters /\ Advance(v, clst2sect(v))
       \/ Stop("FR_DISK_ERR") /\ UNCHANGED <<fat, dptr, clust, sect>>
    /\ UNCHANGED <<volume, dirbase, table, lfn, xdir, seen>>

Next == \/ Sdi \/ LookEnd \/ LookDeleted \/ LookLfn \/ LookSfn
        \/ LookOther \/ LookFile \/ LookBlock \/ LookFails \/ LookAstray
        \/ DirNext \/ DirNextCluster

Spec == Init /\ [][Next]_vars

-----------------------------------------------------------------------------
(* Correctness.                                                            *)

\* Entries a to n - 1 are all the pieces of one long name, that of the SFN entry n,
\* and it is the name looked for.
LongName(a, n) ==
    /\ seen[a].last
    /\ \A k \in a..(n - 1) :
          /\ seen[k].type = "lfn" /\ seen[k].match
          /\ seen[k].ord = n - k
          /\ seen[k].sum = seen[n].sum
          /\ k # a => ~seen[k].last

\* Entry n is the last one of an object with the name that is looked for.
Matches(n) ==
    \/ seen[n].type = "sfn" /\ (seen[n].match \/ \E a \in 1..(n - 1) : LongName(a, n))
    \/ \E a \in 1..(n - 2) :
          /\ seen[a].type = "file" /\ seen[a].match /\ seen[a].sum = 1
          /\ seen[a].ord = n - a
          /\ seen[a + 1].type = "stream" /\ seen[a + 1].match
          /\ \A k \in (a + 2)..n : seen[k].type = "name"

\* dir_read came to sector 0 before any block was loaded.
Astray ==
    /\ exfat /\ database = 0
    /\ clust = 2 /\ sect = 0
    /\ block = 0 /\ found = Plain("end")

\* The search finds the first object of the directory that has the name, by a long name
\* that is complete and belongs to its entry, or by the short one; and it says that
\* there is none only if there is none among the entries it saw: pieces of other names,
\* left over or out of order, never add up to a match and never hide one.  There is one
\* exception, Astray: on an exFAT volume whose data begin at sector 0, a chain of the
\* root that leads to cluster 2 makes dir_find compare a buffer nothing was read into.
\* Whether the object is a file, which f_open asks afterwards, is not in it.
FindsFirst ==
    /\ dres = "FR_OK" => Matches(Len(seen)) \/ Astray
    /\ dres \in {"FR_OK", "FR_NO_FILE"} =>
           \A n \in 1..(Len(seen) - 1) : ~Matches(n)
    /\ dres = "FR_NO_FILE" => seen = <<>> \/ ~Matches(Len(seen))

\* In the FAT f, cluster c is n steps down the chain of cluster a.
Leads(f, a, n, c) ==
    \E chain \in [0..n -> DOMAIN f \cup {c}] :
        /\ chain[0] = a /\ chain[n] = c
        /\ \A i \in 1..n : chain[i - 1] \in DOMAIN f /\ chain[i] = f[chain[i - 1]]

\* The search looks only at sectors of the root directory, each entry where it should
\* be: in the table of a fixed size and not past its end, or in the cluster that the
\* root's chain leads to after as many clusters as the entries before it fill.  It looks
\* at no more entries than a directory may have, even on a chain that is a circle.  It
\* comes to sector 0 only in cluster 2 of an exFAT volume whose data begin there, and
\* does not go on from it.
WalkInBounds ==
    /\ Len(seen) <= MaxDir
    /\ dpc \in {"look", "next"} =>
        LET s == dptr \div PerSector
        IN  IF Static
            THEN clust = 0 /\ dptr < RootEntries /\ sect = StaticBase + s
            ELSE /\ clust \in Clusters /\ Leads(fat, dirbase, s \div csize, clust)
                 /\ sect = clst2sect(clust) + (s % csize)
    /\ dpc \in {"look", "next"} /\ sect = 0 =>
           dpc = "look" /\ exfat /\ database = 0 /\ clust = 2
=============================================================================
