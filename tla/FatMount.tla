------------------------------- MODULE FatMount -------------------------------
(***************************************************************************)
(* What mount_volume of source/fatfs/ff.c makes of a card once the drive   *)
(* is started: find_volume looks for a volume in sector 0, in the four     *)
(* partitions of an MBR or in those of a GPT, and the fields of its boot   *)
(* sector, which may hold anything, are checked and become the geometry.   *)
(*                                                                         *)
(* Fields and their products have 32 bits, so they are taken modulo Word;  *)
(* sector numbers have 64 (FF_LBA64) and are not.                          *)
(***************************************************************************)
EXTENDS FatVolume

CONSTANTS
    Word,            \* values of a DWORD: 2^32 in the code
    PerSector,       \* directory entries in a sector: 16 in the code
    MAX_FAT12, MAX_FAT16, MAX_FAT32, MAX_EXFAT,
    Starts,          \* bound: where partitions start
    MaxGpt,          \* bound: entries of a GPT, 128 in the code
    BootSectors,     \* bound: boot sectors of FAT12/16/32
    ExBootSectors    \* bound: boot sectors of exFAT

DWord == 0..(Word - 1)

ASSUME FatMountAssumption ==
    /\ Word \in Nat \ {0}
    /\ PerSector \in Nat \ {0}
    /\ {MAX_FAT12, MAX_FAT16, MAX_FAT32, MAX_EXFAT} \subseteq Nat
    /\ Starts \subseteq Nat
    /\ MaxGpt \in Nat
    /\ BootSectors \subseteq
           [known : BOOLEAN,       \* SS bytes per sector and, on FAT32, revision 0
            fsz : DWord, n_fats : DWord, csize : DWord, n_rootdir : DWord,
            tsect : DWord, nrsv : DWord, root : DWord]
    /\ ExBootSectors \subseteq
           [known : BOOLEAN,       \* zero filler, version 1.0, SS bytes per sector
            tsect : Nat, fsz : DWord, n_fats : DWord, csize : DWord,
            nclst : DWord, dataofs : DWord, fatofs : DWord, root : DWord]

VARIABLES
    pc,
    left,                \* partitions still to be looked at
    bsect, tsect,        \* the first sector of the volume, and their number
    fatbase, fsize, n_fats, dirbase, n_rootdir,
    bcl,                 \* a cluster of the allocation bitmap
    res                  \* what mount_volume, and later f_read, returns

geometry   == <<volume, bsect, tsect, fatbase, fsize, n_fats, dirbase, n_rootdir>>
mount_vars == <<fat, geometry, pc, left, bcl, res>>

MountPlaces == {"sector0", "mbr", "gpt", "entries", "bpb", "bpb_ex", "bitmap", "chain"}

MountTypeOK ==
    /\ FatTypeOK
    /\ left \in 0..(4 + MaxGpt)
    /\ bsect \in {0} \cup Starts
    /\ {tsect, fatbase, fsize, n_fats, dirbase, n_rootdir} \subseteq Nat
    /\ bcl \in FatValues
    /\ res \in Results

MountInit ==
    /\ fat = [c \in {} |-> 0]
    /\ fs_type = "none" /\ n_fatent = 2 /\ csize = 0 /\ database = 0
    /\ pc = "sector0"
    /\ left = 0
    /\ bsect = 0 /\ tsect = 0
    /\ fatbase = 0 /\ fsize = 0 /\ n_fats = 0 /\ dirbase = 0 /\ n_rootdir = 0
    /\ bcl = 0
    /\ res = "none"

Fail(r) == pc' = "done" /\ res' = r

-----------------------------------------------------------------------------
(* find_volume                                                             *)

\* What check_fs finds in a sector: a volume, another boot sector, none, an error.
Found == {"bpb", "bpb_ex"}

\* A volume begins in sector s; its boot sector is in the window.
VolumeAt(s, r) ==
    /\ r \in Found
    /\ bsect' = s
    /\ pc' = r
    /\ UNCHANGED <<left, res>>

\* The table is at its end with nothing found.
NoVolume(error) ==
    /\ Fail(IF error THEN "FR_DISK_ERR" ELSE "FR_NO_FILESYSTEM")
    /\ UNCHANGED <<left, bsect>>

Rest == <<fat, volume, tsect, fatbase, fsize, n_fats, dirbase, n_rootdir, bcl>>

\* A volume without partitions, or a boot sector with an MBR or a protective one.
FindInSector0 ==
    /\ pc = "sector0"
    /\ \/ \E r \in Found : VolumeAt(0, r)
       \/ \E error \in BOOLEAN : NoVolume(error)
       \/ pc' = "mbr" /\ left' = 4 /\ UNCHANGED <<bsect, res>>
       \/ pc' = "gpt" /\ UNCHANGED <<left, bsect, res>>
    /\ UNCHANGED Rest

\* An entry of the MBR: empty, or the start of a partition.  Only the outcome of the
\* last one counts if none has a volume, an error at an earlier one does not.
FindInMbr ==
    /\ pc = "mbr"
    /\ \/ \E s \in Starts \ {0}, r \in Found : VolumeAt(s, r)
       \/ left > 1 /\ left' = left - 1 /\ UNCHANGED <<bsect, pc, res>>
       \/ left = 1 /\ \E error \in BOOLEAN : NoVolume(error)
    /\ UNCHANGED Rest

GptHeader ==
    /\ pc = "gpt"
    /\ \/ left' \in 0..MaxGpt /\ pc' = "entries" /\ UNCHANGED <<bsect, res>>
       \/ \E error \in BOOLEAN : NoVolume(error)
    /\ UNCHANGED Rest

\* An entry of the GPT is passed over, whatever is wrong with its partition; only an
\* error in the table itself ends the search.
FindInGpt ==
    /\ pc = "entries"
    /\ \/ left > 0 /\ \E s \in Starts, r \in Found : VolumeAt(s, r)
       \/ left > 0 /\ left' = left - 1 /\ UNCHANGED <<bsect, pc, res>>
       \/ left > 0 /\ NoVolume(TRUE)
       \/ left = 0 /\ NoVolume(FALSE)
    /\ UNCHANGED Rest

-----------------------------------------------------------------------------
(* The boot sector of FAT12, FAT16 and FAT32                               *)

Times(x, y) == (x * y) % Word
PowerOf2(n) == \E k \in 0..n : n = 2^k

fasize(b) == Times(b.fsz, b.n_fats)
sysect(b) == (b.nrsv + fasize(b) + (b.n_rootdir \div PerSector)) % Word
nclst(b)  == (b.tsect - sysect(b)) \div b.csize

FatType(n) == IF n <= MAX_FAT12 THEN "FAT12" ELSE IF n <= MAX_FAT16 THEN "FAT16" ELSE "FAT32"

\* Mistakes one could make here, for the mutants of PROJECT.json.
szbfat_RoundDown(t, n) ==
    CASE t = "FAT32" -> n * 4 [] t = "FAT16" -> n * 2 [] t = "FAT12" -> (n * 3) \div 2

\* The bytes that n entries need.
szbfat(t, n) ==
    CASE t = "FAT32" -> n * 4
      [] t = "FAT16" -> n * 2
      [] t = "FAT12" -> (n * 3) \div 2 + (n % 2)

\* What a boot sector must say for the volume to be mounted.
Acceptable(b) ==
    /\ b.known
    /\ b.n_fats \in {1, 2}
    /\ b.csize # 0 /\ PowerOf2(b.csize)
    /\ b.n_rootdir % PerSector = 0
    /\ b.nrsv # 0
    /\ b.tsect >= sysect(b)
    /\ nclst(b) \in 1..MAX_FAT32
    /\ b.n_rootdir = 0 <=> FatType(nclst(b)) = "FAT32"
    /\ b.fsz >= (szbfat(FatType(nclst(b)), nclst(b) + 2) + (SectorSize - 1)) \div SectorSize

ReadBpb ==
    /\ pc = "bpb"
    /\ \E b \in BootSectors :
        /\ Acceptable(b)
        /\ fs_type' = FatType(nclst(b))
        /\ n_fatent' = nclst(b) + 2
        /\ csize' = b.csize
        /\ tsect' = b.tsect
        /\ fatbase' = bsect + b.nrsv
        /\ fsize' = b.fsz
        /\ n_fats' = b.n_fats
        /\ n_rootdir' = b.n_rootdir
        /\ database' = bsect + sysect(b)
        /\ dirbase' = IF fs_type' = "FAT32" THEN b.root ELSE fatbase' + fasize(b)
    /\ pc' = "mounted"
    /\ UNCHANGED <<fat, left, bsect, bcl, res>>

BpbRefused ==
    /\ pc = "bpb"
    /\ \E b \in BootSectors : ~Acceptable(b)
    /\ Fail("FR_NO_FILESYSTEM")
    /\ UNCHANGED <<fat, geometry, left, bcl>>

-----------------------------------------------------------------------------
(* The boot sector of exFAT                                                *)

\* The size of the data area has 32 bits, the last sector of the volume 64.
AcceptableEx(b) ==
    /\ b.known
    /\ b.n_fats = 1
    /\ b.csize # 0
    /\ b.nclst <= MAX_EXFAT
    /\ b.tsect + bsect >= bsect + b.dataofs + Times(b.nclst, b.csize)

ReadBpbEx ==
    /\ pc = "bpb_ex"
    /\ \E b \in ExBootSectors :
        /\ AcceptableEx(b)
        /\ n_fatent' = b.nclst + 2
        /\ csize' = b.csize
        /\ tsect' = b.tsect
        /\ fatbase' = bsect + b.fatofs
        /\ fsize' = b.fsz
        /\ n_fats' = b.n_fats
        /\ database' = bsect + b.dataofs
        /\ dirbase' = b.root
    /\ pc' = "bitmap"
    /\ UNCHANGED <<fat, fs_type, n_rootdir, left, bsect, bcl, res>>

BpbExRefused ==
    /\ pc = "bpb_ex"
    /\ \E b \in ExBootSectors : ~AcceptableEx(b)
    /\ Fail("FR_NO_FILESYSTEM")
    /\ UNCHANGED <<fat, geometry, left, bcl>>

\* The entry of the allocation bitmap in the first cluster of the root directory.
FindBitmap ==
    /\ pc = "bitmap"
    /\ \/ bcl' \in Clusters /\ pc' = "chain" /\ UNCHANGED res
       \/ \E r \in {"FR_NO_FILESYSTEM", "FR_DISK_ERR"} : Fail(r) /\ UNCHANGED bcl
    /\ UNCHANGED <<fat, geometry, left>>

Mounted ==
    /\ fs_type' = "EXFAT"
    /\ pc' = "mounted"
    /\ UNCHANGED <<bcl, res>>

\* The chain of the bitmap must go from each cluster to the next.  Nothing stops it at
\* the last cluster of the volume: there, bcl = EOC, any value may follow.
BitmapChain ==
    /\ pc = "chain"
    /\ \/ /\ bcl \in Clusters
          /\ \E v \in FatValues :
              /\ FatEntry(bcl, v)
              /\ \/ v = EOC /\ Mounted
                 \/ /\ v = bcl + 1
                    /\ bcl' = v
                    /\ UNCHANGED <<pc, res, fs_type>>
                 \/ /\ v # bcl + 1 \/ v = EOC
                    /\ Fail("FR_NO_FILESYSTEM")
                    /\ UNCHANGED <<bcl, fs_type>>
       \/ /\ bcl = EOC
          /\ \/ Mounted
             \/ Fail("FR_NO_FILESYSTEM") /\ UNCHANGED <<bcl, fs_type>>
          /\ UNCHANGED fat
       \/ /\ Fail("FR_DISK_ERR")
          /\ UNCHANGED <<fat, bcl, fs_type>>
    /\ UNCHANGED <<n_fatent, csize, database, bsect, tsect, fatbase, fsize, n_fats,
                   dirbase, n_rootdir, left>>

MountNext == \/ FindInSector0 \/ FindInMbr \/ GptHeader \/ FindInGpt
             \/ ReadBpb \/ BpbRefused \/ ReadBpbEx \/ BpbExRefused
             \/ FindBitmap \/ BitmapChain

-----------------------------------------------------------------------------
(* Correctness.                                                            *)

\* The sectors that get_fat reads for the entry of a cluster.
EntrySectors(c) ==
    {fatbase + (x \div SectorSize) :
        x \in CASE fs_type = "FAT12" -> {c + (c \div 2), c + (c \div 2) + 1}
                [] fs_type = "FAT16" -> {2 * c}
                [] OTHER             -> {4 * c}}

\* Two products of fields have 32 bits, and nothing keeps them from wrapping: the size
\* of the data area of exFAT, and that of the FATs of FAT12/16/32.
DataFits == exfat => csize * (n_fatent - 2) < Word
FatsFit  == (fatbase - bsect) + fsize * n_fats + (n_rootdir \div PerSector) < Word

\* Of a mounted volume, every cluster lies within the sectors of the volume: on
\* FAT12/16/32 always, on exFAT if the size of its data area did not wrap.  On
\* FAT12/16/32, get_fat finds the entry of every cluster within the first FAT; and if
\* the size of the FATs did not wrap, then FATs, root directory and clusters lie one
\* after the other.  Where the FAT of exFAT begins and how long it is, the code takes
\* from the boot sector and does not check.
LayoutSound ==
    fs_type # "none" =>
        /\ DataFits => \A c \in Clusters : clst2sect(c) + csize <= bsect + tsect
        /\ ~exfat =>
            /\ \A c \in Clusters : EntrySectors(c) \subseteq fatbase..(fatbase + fsize - 1)
            /\ bsect < fatbase
            /\ FatsFit =>
                /\ fatbase + fsize * n_fats + (n_rootdir \div PerSector) = database
                /\ Static => dirbase = fatbase + fsize * n_fats

\* What makes LayoutSound inductive: the sums and quotients that the boot sector was
\* checked with, before and after the volume is mounted.
RootSectors == n_rootdir \div PerSector

FatLayout ==
    /\ bsect < fatbase
    /\ database = bsect + (((fatbase - bsect) + Times(fsize, n_fats) + RootSectors) % Word)
    /\ Static => dirbase = fatbase + Times(fsize, n_fats)
    /\ csize > 0 /\ n_fatent > 2
    /\ database + csize * (n_fatent - 2) <= bsect + tsect
    /\ szbfat(fs_type, n_fatent) <= fsize * SectorSize

ExFatLayout ==
    /\ csize > 0 /\ n_fatent >= 2
    /\ csize * (n_fatent - 2) < Word => database + csize * (n_fatent - 2) <= bsect + tsect

MountInv ==
    /\ pc \in {"sector0", "mbr", "gpt", "entries", "bpb", "bpb_ex"} =>
           fs_type = "none" /\ n_fatent = 2
    /\ pc \in {"bitmap", "chain"} => fs_type = "none"
    /\ pc \in {"bitmap", "chain"} \/ exfat => ExFatLayout
    /\ pc \in {"mounted", "alloc", "read"} => fs_type # "none"
    /\ fs_type \in {"FAT12", "FAT16", "FAT32"} => FatLayout
=============================================================================
