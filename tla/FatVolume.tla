------------------------------ MODULE FatVolume ------------------------------
(***************************************************************************)
(* The FAT of a mounted volume as FatFs reads it (source/fatfs/ff.c).      *)
(* What is on the card is unknown until it is read: an entry gets its      *)
(* value, any value, with the first read and keeps it from then on.  So    *)
(* every volume is considered, the damaged ones included.                  *)
(***************************************************************************)
EXTENDS Integers

CONSTANT SectorSize     \* SS: bytes of a sector, 512 in the code

ASSUME FatVolumeAssumption == SectorSize \in Nat \ {0}

VARIABLES
    fat,        \* the entries of the FAT that have been read
    fs_type,    \* "none" is 0: nothing is mounted
    n_fatent,   \* the clusters are 2 to n_fatent - 1
    csize,      \* sectors of a cluster
    database    \* the first sector of the first cluster

volume == <<fs_type, n_fatent, csize, database>>

exfat     == fs_type = "EXFAT"
Static    == fs_type \in {"FAT12", "FAT16"}   \* the root is a table of a fixed size
Clusters  == 2..(n_fatent - 1)
EOC       == n_fatent         \* stands for every value past the last cluster
FatValues == 0..EOC
Results   == {"none", "FR_OK", "FR_NO_FILE", "FR_INT_ERR", "FR_DISK_ERR", "FR_NO_FILESYSTEM"}

FatTypeOK ==
    /\ fs_type \in {"none", "FAT12", "FAT16", "FAT32", "EXFAT"}
    /\ n_fatent \in Nat /\ csize \in Nat /\ database \in Nat
    /\ DOMAIN fat \subseteq Clusters
    /\ \A c \in DOMAIN fat : fat[c] \in FatValues

With(f, x, v) == [y \in DOMAIN f \cup {x} |-> IF y = x THEN v ELSE f[y]]

\* The entry for cluster c is read from the card and found to be v.
FatEntry(c, v) ==
    \/ c \in DOMAIN fat /\ v = fat[c] /\ UNCHANGED fat
    \/ c \notin DOMAIN fat /\ fat' = With(fat, c, v)

\* Index of the last cluster of a file.
LastCluster(obj) == ((obj.objsize - 1) \div SectorSize) \div csize

\* The entry is made up for a contiguous file, which has none on the card.
Contiguous(obj) == exfat /\ obj.stat = 2

\* get_fat: v follows cluster c of the object obj; 1 is an error.
GetFat(obj, c, v) ==
    \/ /\ c \notin Clusters
       /\ v = 1
       /\ UNCHANGED fat
    \/ /\ c \in Clusters
       /\ Contiguous(obj)
       /\ LET cofs == c - obj.sclust
          IN  v = IF cofs < LastCluster(obj) THEN c + 1
                  ELSE IF cofs = LastCluster(obj) THEN EOC ELSE 1
       /\ UNCHANGED fat
    \/ /\ c \in Clusters
       /\ ~Contiguous(obj)
       /\ FatEntry(c, v)

\* The first sector of a cluster, 0 for what is no cluster.
clst2sect(c) == IF c \in Clusters THEN database + csize * (c - 2) ELSE 0
=============================================================================
