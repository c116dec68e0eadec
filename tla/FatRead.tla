------------------------------- MODULE FatRead -------------------------------
(***************************************************************************)
(* From a card to the bytes of a file: the mount of its volume, the entry  *)
(* of the file that f_open has found, and then what load_fat of            *)
(* source/main.c does with it: the allocation of f_size bytes, and f_read  *)
(* of source/fatfs/ff.c along the cluster chain.  A byte is the sector and *)
(* the offset it comes from.                                               *)
(***************************************************************************)
EXTENDS FatMount, Sequences

CONSTANTS
    Memory,    \* bound: bytes that memalign can hand out
    Sizes      \* bound: sizes of files

ASSUME FatReadAssumption ==
    /\ Memory \in Nat /\ 2 * Memory < Word
    /\ Sizes \subseteq Nat

VARIABLES
    obj,       \* the object's start cluster, size, and allocation status
    size,      \* what load_fat allocates and asks for
    fptr, btr, fclust,
    out        \* *dol

file == <<obj, size, fptr, btr, fclust, out>>
vars == <<mount_vars, file>>
kept == <<geometry, left, bcl>>      \* what nothing changes after the mount

\* What f_open takes from the entry of a file, which may hold anything: only exFAT
\* has contiguous files, and sizes beyond 32 bits.
Opened ==
    {o \in [sclust : FatValues, objsize : Sizes, stat : {0, 2}] :
        ~exfat => o.stat = 0 /\ o.objsize < Word}

NoFile == [sclust |-> 0, objsize |-> 0, stat |-> 0]

TypeOK ==
    /\ MountTypeOK
    /\ pc \in MountPlaces \cup {"mounted", "alloc", "read", "done"}
    /\ obj \in Opened \cup {NoFile}
    /\ size \in 0..(Word - 1)
    /\ fptr \in 0..size /\ btr \in 0..size
    /\ fclust \in {0} \cup Clusters
    /\ out \in Seq(Nat \X (0..(SectorSize - 1)))

Init ==
    /\ MountInit
    /\ obj = NoFile
    /\ size = 0 /\ fptr = 0 /\ btr = 0 /\ fclust = 0
    /\ out = <<>>

Mount == MountNext /\ UNCHANGED file

\* f_open has found the file.
Open ==
    /\ pc = "mounted"
    /\ obj' \in Opened
    /\ pc' = "alloc"
    /\ UNCHANGED <<fat, kept, size, fptr, btr, fclust, out, res>>

\* A mistake one could make here, for the mutants of PROJECT.json.
Alloc_Uncut ==
    /\ pc = "alloc"
    /\ size' = obj.objsize
    /\ \/ /\ size' \in 1..Memory
          /\ btr' = size'
          /\ pc' = "read"
       \/ pc' = "done" /\ UNCHANGED btr
    /\ UNCHANGED <<fat, kept, obj, fptr, fclust, out, res>>

\* dol_alloc takes the size, cut to a size_t, as an int.
Alloc ==
    /\ pc = "alloc"
    /\ size' = obj.objsize % Word
    /\ \/ /\ size' \in 1..Memory
          /\ btr' = size'
          /\ pc' = "read"
       \/ pc' = "done" /\ UNCHANGED btr
    /\ UNCHANGED <<fat, kept, obj, fptr, fclust, out, res>>

-----------------------------------------------------------------------------
(* f_read                                                                  *)

ClusterBytes == SectorSize * csize

\* The cluster that fptr is in, from the chain where a new one begins.
Cluster(c) ==
    \/ /\ fptr % ClusterBytes # 0
       /\ c = fclust
       /\ UNCHANGED fat
    \/ /\ fptr = 0
       /\ c = obj.sclust
       /\ UNCHANGED fat
    \/ /\ fptr # 0 /\ fptr % ClusterBytes = 0
       /\ GetFat(obj, fclust, c)

csect == (fptr \div SectorSize) % csize

\* n bytes from the beginning of a sector.
SectorBytes(s, n) ==
    [k \in 1..n |-> <<s + ((k - 1) \div SectorSize), (k - 1) % SectorSize>>]

\* A mistake one could make here, for the mutants of PROJECT.json.
Clipped_Not(cc) == cc

\* The number of whole sectors read at once, clipped at the end of the cluster.
Clipped(cc) == IF csect + cc > csize THEN csize - csect ELSE cc

Transfer(c, n) ==
    /\ out' = out \o SectorBytes(clst2sect(c) + csect, n)
    /\ fptr' = fptr + n
    /\ btr' = btr - n
    /\ fclust' = c
    /\ UNCHANGED <<kept, pc, obj, size, res>>

ReadWhole ==
    /\ pc = "read"
    /\ btr >= SectorSize
    /\ \E c \in FatValues :
        /\ Cluster(c)
        /\ clst2sect(c) # 0
        /\ Transfer(c, SectorSize * Clipped(btr \div SectorSize))

\* The last bytes come out of the sector buffer of the file object.
ReadRest ==
    /\ pc = "read"
    /\ btr \in 1..(SectorSize - 1)
    /\ \E c \in FatValues :
        /\ Cluster(c)
        /\ clst2sect(c) # 0
        /\ Transfer(c, btr)

\* The chain is at its end, or leads to what is no cluster, before the file ends.
ReadChainEnds ==
    /\ pc = "read"
    /\ btr > 0
    /\ \E c \in FatValues : Cluster(c) /\ clst2sect(c) = 0
    /\ res' = "FR_INT_ERR"
    /\ pc' = "done"
    /\ UNCHANGED <<kept, obj, size, fptr, btr, fclust, out>>

ReadFails ==
    /\ pc = "read"
    /\ btr > 0
    /\ res' = "FR_DISK_ERR"
    /\ pc' = "done"
    /\ UNCHANGED <<fat, kept, obj, size, fptr, btr, fclust, out>>

ReadDone ==
    /\ pc = "read"
    /\ btr = 0
    /\ res' = "FR_OK"
    /\ pc' = "done"
    /\ UNCHANGED <<fat, kept, obj, size, fptr, btr, fclust, out>>

Next == \/ Mount \/ Open \/ Alloc
        \/ ReadWhole \/ ReadRest \/ ReadChainEnds \/ ReadFails \/ ReadDone

Spec == Init /\ [][Next]_vars

-----------------------------------------------------------------------------
(* Correctness.                                                            *)

\* The clusters of the file, as the FAT (as far as it has been read) or the entry of
\* a contiguous file has them.
Chain[n \in Nat] ==
    IF n = 0 THEN obj.sclust
    ELSE IF Contiguous(obj) THEN obj.sclust + n
    ELSE IF Chain[n - 1] \in DOMAIN fat THEN fat[Chain[n - 1]] ELSE 0

ByteOfFile(k) ==
    LET c == Chain[k \div ClusterBytes]
        o == k % ClusterBytes
    IN  <<database + csize * (c - 2) + (o \div SectorSize), o % SectorSize>>

\* f_read never writes behind the buffer of size bytes that load_fat allocated; what
\* it has written is the beginning of the file, in order, whatever the lengths of
\* the runs of sectors it reads; with FR_OK the buffer is full; and a file whose chain
\* is as long as the file is never given up but for an error of the card, or for a
\* cluster in sector 0: the data area of exFAT is where the boot sector says, and there
\* f_read takes its sector number for that of no cluster.
ReadsTheFile ==
    /\ Len(out) <= size
    /\ \A k \in 1..Len(out) : out[k] = ByteOfFile(k - 1)
    /\ res = "FR_OK" => Len(out) = size
    /\ res = "FR_INT_ERR" =>
        /\ Len(out) % ClusterBytes = 0
        /\ LET c == Chain[Len(out) \div ClusterBytes]
           IN  c \in Clusters => c = 2 /\ database = 0

\* The mounted volume is laid out as LayoutSound says, and whatever the FAT and the entry
\* of the file say, no byte of the file is taken from outside of the data area of the
\* volume: on FAT12/16/32 whatever the boot sector says, on exFAT if the size of the
\* data area, clusters times sectors of one, did not wrap.  If it did, the comparison
\* with the size of the volume passes and sectors behind the volume are read.
SectorsInVolume ==
    /\ LayoutSound
    /\ DataFits => \A k \in 1..Len(out) : out[k][1] \in database..(bsect + tsect - 1)

\* What makes SectorsInVolume inductive: the buffer gets bytes only from clusters of a
\* volume that is mounted, and never more than are asked for.
ReadInv ==
    /\ pc \in MountPlaces \cup {"mounted"} => obj = NoFile /\ fclust = 0
    /\ pc \in MountPlaces \cup {"mounted", "alloc"} => out = <<>> /\ size = 0
    /\ pc = "read" \/ out # <<>> => fs_type # "none"
    /\ Len(out) = fptr
    /\ pc = "read" => fptr + btr = size
    /\ DataFits => \A k \in 1..Len(out) : out[k][1] \in database..(bsect + tsect - 1)

IInv == TypeOK /\ MountInv /\ ReadInv
=============================================================================
