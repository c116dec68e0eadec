---------------------------- MODULE FatRead_proofs ----------------------------
(***************************************************************************)
(* What holds of mount_volume and f_read for any boot sectors, any         *)
(* geometry and any word size: the areas of a mounted volume lie within    *)
(* it, no byte of a file is taken from elsewhere, and the bytes that are   *)
(* taken are those of the file, in their order.                            *)
(***************************************************************************)
EXTENDS FatRead, SequenceTheorems, WellFoundedInduction, TLAPS

-----------------------------------------------------------------------------
(* Quotients and products of variables.                                    *)

LEMMA DivMod ==
    ASSUME NEW x \in Nat, NEW d \in Nat \ {0}
    PROVE  /\ x \div d \in Nat /\ x % d \in 0..(d - 1)
           /\ d * (x \div d) \in Nat /\ x = d * (x \div d) + (x % d)
  OBVIOUS

LEMMA Monotone ==
    ASSUME NEW k \in Nat, NEW a \in Nat, NEW b \in Nat, a <= b
    PROVE  k * a <= k * b /\ k * a \in Nat /\ k * b \in Nat
  OBVIOUS

LEMMA Commute ==
    ASSUME NEW k \in Nat, NEW a \in Nat
    PROVE  k * a = a * k /\ k * a \in Nat
  OBVIOUS

\* What lies in n blocks of d has one of their numbers.
LEMMA DivLess ==
    ASSUME NEW x \in Nat, NEW d \in Nat \ {0}, NEW n \in Nat, x < n * d
    PROVE  x \div d \in Nat /\ x \div d < n
  <1>1. x \div d \in Nat /\ d * (x \div d) <= x /\ d * (x \div d) \in Nat
    BY DivMod
  <1>2. ASSUME n <= x \div d PROVE FALSE
    <2>1. d * n <= d * (x \div d)
      BY <1>1, <1>2, Monotone
    <2>2. d * n = n * d /\ n * d \in Nat
      BY Commute
    <2> QED
      BY <1>1, <2>1, <2>2
  <1> QED
    BY <1>1, <1>2

\* As many blocks as are needed for x, rounded up, hold x.
LEMMA CeilDiv ==
    ASSUME NEW x \in Nat, NEW d \in Nat \ {0}, NEW n \in Nat,
           n >= (x + (d - 1)) \div d
    PROVE  x <= n * d
  <1> DEFINE q == (x + (d - 1)) \div d
  <1>1. q \in Nat /\ x <= d * q /\ d * q \in Nat
    BY DivMod
  <1>2. d * q <= d * n
    BY <1>1, Monotone
  <1>3. d * n = n * d /\ n * d \in Nat
    BY Commute
  <1> QED
    BY <1>1, <1>2, <1>3

-----------------------------------------------------------------------------
(* The layout of a mounted volume.                                         *)

LEMMA WordNat == Word \in Nat \ {0} /\ SectorSize \in Nat \ {0} /\ PerSector \in Nat \ {0}
  BY FatMountAssumption, FatVolumeAssumption

\* The first sector of a cluster of a volume, and the next one after the cluster.
LEMMA ClusterInVolume ==
    ASSUME csize \in Nat, n_fatent \in Nat, database \in Nat,
           bsect \in Nat, tsect \in Nat,
           database + csize * (n_fatent - 2) <= bsect + tsect,
           NEW c \in Clusters
    PROVE  /\ clst2sect(c) = database + csize * (c - 2)
           /\ clst2sect(c) \in Nat /\ clst2sect(c) >= database
           /\ clst2sect(c) + csize <= bsect + tsect
  <1>1. c \in Nat /\ c >= 2 /\ c - 1 <= n_fatent - 2 /\ c - 1 \in Nat /\ c - 2 \in Nat
        /\ n_fatent - 2 \in Nat
    BY DEF Clusters
  <1>2. csize * (c - 1) <= csize * (n_fatent - 2) /\ csize * (n_fatent - 2) \in Nat
    BY <1>1, Monotone
  <1>3. csize * (c - 2) \in Nat /\ csize * (c - 1) = csize * (c - 2) + csize
    BY <1>1
  <1> QED
    BY <1>1, <1>2, <1>3 DEF clst2sect

\* The entry of every cluster lies within the FAT.
LEMMA EntryInFat ==
    ASSUME TypeOK, FatLayout, fs_type \in {"FAT12", "FAT16", "FAT32"}, NEW c \in Clusters
    PROVE  EntrySectors(c) \subseteq fatbase..(fatbase + fsize - 1)
  <1>1. /\ fatbase \in Nat /\ fsize \in Nat /\ n_fatent \in Nat
        /\ c \in Nat /\ c + 1 <= n_fatent
    BY DEF TypeOK, MountTypeOK, FatTypeOK, Clusters
  <1>2. fsize * SectorSize \in Nat
    BY <1>1, WordNat
  <1>3. ASSUME NEW x \in Nat, x < szbfat(fs_type, n_fatent), szbfat(fs_type, n_fatent) \in Nat
        PROVE  fatbase + (x \div SectorSize) \in fatbase..(fatbase + fsize - 1)
    <2>1. x < fsize * SectorSize
      BY <1>2, <1>3 DEF FatLayout
    <2>2. x \div SectorSize \in Nat /\ x \div SectorSize < fsize
      BY <1>1, <2>1, DivLess, WordNat
    <2> QED
      BY <1>1, <2>2
  <1>4. CASE fs_type = "FAT12"
    <2>1. szbfat(fs_type, n_fatent) = (n_fatent * 3) \div 2 + (n_fatent % 2)
      BY <1>4 DEF szbfat
    <2>2. /\ c + (c \div 2) \in Nat /\ c + (c \div 2) + 1 \in Nat
          /\ c + (c \div 2) + 1 < (n_fatent * 3) \div 2 + (n_fatent % 2)
          /\ (n_fatent * 3) \div 2 + (n_fatent % 2) \in Nat
      BY <1>1
    <2> DEFINE a == c + (c \div 2)
    <2>3. EntrySectors(c) = {fatbase + (a \div SectorSize), fatbase + ((a + 1) \div SectorSize)}
      BY <1>4 DEF EntrySectors
    <2> QED
      BY <1>3, <2>1, <2>2, <2>3
  <1>5. CASE fs_type = "FAT16"
    <2>1. szbfat(fs_type, n_fatent) = n_fatent * 2
      BY <1>5 DEF szbfat
    <2>2. 2 * c \in Nat /\ 2 * c < n_fatent * 2 /\ n_fatent * 2 \in Nat
      BY <1>1
    <2>3. EntrySectors(c) = {fatbase + ((2 * c) \div SectorSize)}
      BY <1>5 DEF EntrySectors
    <2> QED
      BY <1>3, <2>1, <2>2, <2>3
  <1>6. CASE fs_type = "FAT32"
    <2>1. szbfat(fs_type, n_fatent) = n_fatent * 4
      BY <1>6 DEF szbfat
    <2>2. 4 * c \in Nat /\ 4 * c < n_fatent * 4 /\ n_fatent * 4 \in Nat
      BY <1>1
    <2>3. EntrySectors(c) = {fatbase + ((4 * c) \div SectorSize)}
      BY <1>6 DEF EntrySectors
    <2> QED
      BY <1>3, <2>1, <2>2, <2>3
  <1> QED
    BY <1>4, <1>5, <1>6

LEMMA ProductWraps ==
    ASSUME NEW x \in Nat, NEW y \in Nat
    PROVE  /\ x * y \in Nat /\ Times(x, y) \in Nat /\ Times(x, y) < Word
           /\ x * y < Word => Times(x, y) = x * y
  <1>1. x * y \in Nat
    BY Commute
  <1>2. ASSUME NEW p \in Nat PROVE p % Word \in Nat /\ p % Word < Word /\ (p < Word => p % Word = p)
    BY WordNat
  <1> QED
    BY <1>1, <1>2 DEF Times

LEMMA GeometryTypes ==
    ASSUME TypeOK
    PROVE  /\ bsect \in Nat /\ tsect \in Nat /\ fatbase \in Nat /\ fsize \in Nat
           /\ n_fats \in Nat /\ dirbase \in Nat /\ n_rootdir \in Nat
           /\ csize \in Nat /\ n_fatent \in Nat /\ database \in Nat
           /\ RootSectors \in Nat /\ fsize * n_fats \in Nat
  <1>1. /\ bsect \in Nat /\ tsect \in Nat /\ fatbase \in Nat /\ fsize \in Nat
        /\ n_fats \in Nat /\ dirbase \in Nat /\ n_rootdir \in Nat
        /\ csize \in Nat /\ n_fatent \in Nat /\ database \in Nat
    BY FatMountAssumption DEF TypeOK, MountTypeOK, FatTypeOK
  <1>2. RootSectors \in Nat
    BY <1>1, WordNat, DivMod DEF RootSectors
  <1> QED
    BY <1>1, <1>2, Commute

\* The data area of a volume lies in it, on exFAT if its size does not wrap.
LEMMA DataInVolume ==
    ASSUME TypeOK, MountInv, fs_type # "none", DataFits
    PROVE  database + csize * (n_fatent - 2) <= bsect + tsect
  <1>1. CASE exfat
    BY <1>1 DEF MountInv, ExFatLayout, DataFits
  <1>2. CASE ~exfat
    BY <1>2 DEF MountInv, FatLayout, exfat, TypeOK, MountTypeOK, FatTypeOK
  <1> QED
    BY <1>1, <1>2

\* Areas of FAT12/16/32 whose size does not wrap lie one after the other.
LEMMA AreasInOrder ==
    ASSUME TypeOK, FatLayout, FatsFit
    PROVE  /\ fatbase + fsize * n_fats + (n_rootdir \div PerSector) = database
           /\ Static => dirbase = fatbase + fsize * n_fats
  <1>1. bsect < fatbase
    BY DEF FatLayout
  <1>2. (fatbase - bsect) + fsize * n_fats + RootSectors < Word
    BY DEF FatsFit, RootSectors
  <1>3. Times(fsize, n_fats) = fsize * n_fats
    <2>1. fsize * n_fats < Word
      BY <1>1, <1>2, GeometryTypes, WordNat
    <2> QED
      BY <2>1, GeometryTypes, ProductWraps
  <1>4. ASSUME NEW p \in Nat, p < Word PROVE p % Word = p
    BY <1>4, WordNat
  <1>5. database = bsect + ((fatbase - bsect) + fsize * n_fats + RootSectors)
    BY <1>1, <1>2, <1>3, <1>4, GeometryTypes DEF FatLayout
  <1>6. fatbase + fsize * n_fats + (n_rootdir \div PerSector) = database
    BY <1>5, GeometryTypes DEF RootSectors
  <1>7. Static => dirbase = fatbase + fsize * n_fats
    BY <1>3 DEF FatLayout
  <1> QED
    BY <1>6, <1>7

LEMMA LayoutFromInv == TypeOK /\ MountInv => LayoutSound
  <1> SUFFICES ASSUME TypeOK, MountInv, fs_type # "none"
               PROVE  LayoutSound
    BY DEF LayoutSound
  <1>1. ASSUME DataFits, NEW c \in Clusters PROVE clst2sect(c) + csize <= bsect + tsect
    <2>1. database + csize * (n_fatent - 2) <= bsect + tsect
      BY <1>1, DataInVolume
    <2> QED
      BY <2>1, <1>1, ClusterInVolume, GeometryTypes
  <1>2. CASE ~exfat
    <2>1. fs_type \in {"FAT12", "FAT16", "FAT32"} /\ FatLayout
      BY <1>2 DEF MountInv, exfat, TypeOK, MountTypeOK, FatTypeOK
    <2>2. bsect < fatbase
      BY <2>1 DEF FatLayout
    <2>3. ASSUME NEW c \in Clusters
          PROVE  EntrySectors(c) \subseteq fatbase..(fatbase + fsize - 1)
      BY <2>1, <2>3, EntryInFat
    <2> QED
      BY <1>1, <2>1, <2>2, <2>3, AreasInOrder DEF LayoutSound
  <1>3. CASE exfat
    BY <1>1, <1>3 DEF LayoutSound
  <1> QED
    BY <1>2, <1>3

-----------------------------------------------------------------------------
(* The steps of mount_volume.                                              *)

LEMMA InitInv == Init => IInv
  <1> SUFFICES ASSUME Init PROVE IInv
    OBVIOUS
  <1>1. fs_type = "none" /\ n_fatent = 2 /\ pc = "sector0" /\ out = <<>>
    BY DEF Init, MountInit
  <1>2. Clusters = {} /\ 0 \in FatValues
    BY <1>1 DEF Clusters, FatValues, EOC
  <1>3. TypeOK
    <2>1. FatTypeOK
      BY <1>2 DEF Init, MountInit, FatTypeOK
    <2>2. MountTypeOK
      BY <1>2, <2>1, FatMountAssumption DEF Init, MountInit, MountTypeOK, Results
    <2> QED
      BY <2>2, <1>1, WordNat DEF Init, TypeOK, MountPlaces
  <1>4. MountInv
    BY <1>1 DEF MountInv, exfat
  <1>5. ReadInv
    BY <1>1 DEF Init, ReadInv, MountPlaces
  <1> QED
    BY <1>3, <1>4, <1>5 DEF IInv

\* What the search for a volume leaves alone is all that the invariants say before a
\* boot sector is read.
LEMMA FindInv ==
    ASSUME IInv, FindInSector0 \/ FindInMbr \/ GptHeader \/ FindInGpt, UNCHANGED file
    PROVE  IInv'
  <1> DEFINE Searching == {"sector0", "mbr", "gpt", "entries", "bpb", "bpb_ex"}
  <1>1. /\ pc \in Searching
        /\ UNCHANGED <<fat, volume, tsect, fatbase, fsize, n_fats, dirbase, n_rootdir, bcl>>
        /\ UNCHANGED file
    BY DEF FindInSector0, FindInMbr, GptHeader, FindInGpt, Rest
  <1>2. /\ pc' \in Searching \/ pc' = "done"
        /\ left' \in 0..(4 + MaxGpt)
        /\ bsect' \in {0} \cup Starts
        /\ res' \in Results
    <2>0. MaxGpt \in Nat /\ left \in 0..(4 + MaxGpt) /\ bsect \in {0} \cup Starts /\ res \in Results
      BY FatMountAssumption DEF IInv, TypeOK, MountTypeOK
    <2>1. CASE FindInSector0
      BY <2>0, <2>1 DEF FindInSector0, VolumeAt, Found, NoVolume, Fail, Results
    <2>2. CASE FindInMbr
      BY <2>0, <2>2 DEF FindInMbr, VolumeAt, Found, NoVolume, Fail, Results
    <2>3. CASE GptHeader
      BY <2>0, <2>3 DEF GptHeader, NoVolume, Fail, Results
    <2>4. CASE FindInGpt
      BY <2>0, <2>4 DEF FindInGpt, VolumeAt, Found, NoVolume, Fail, Results
    <2> QED
      BY <2>1, <2>2, <2>3, <2>4
  <1>3. fs_type = "none" /\ n_fatent = 2 /\ obj = NoFile /\ fclust = 0 /\ out = <<>> /\ size = 0
    BY <1>1 DEF IInv, MountInv, ReadInv, MountPlaces
  <1>4. TypeOK'
    BY <1>1, <1>2 DEF IInv, TypeOK, MountTypeOK, FatTypeOK, MountPlaces, Clusters, FatValues, EOC,
                      volume, file, Opened, exfat
  <1>5. MountInv'
    BY <1>1, <1>2, <1>3 DEF MountInv, volume, exfat
  <1>6. ReadInv'
    BY <1>1, <1>2, <1>3 DEF IInv, ReadInv, volume, file
  <1> QED
    BY <1>4, <1>5, <1>6 DEF IInv

LEMMA FieldTypes ==
    ASSUME NEW b \in BootSectors
    PROVE  /\ b.fsz \in Nat /\ b.n_fats \in Nat /\ b.csize \in Nat /\ b.n_rootdir \in Nat
           /\ b.tsect \in Nat /\ b.nrsv \in Nat /\ b.root \in Nat
           /\ fasize(b) \in Nat /\ sysect(b) \in Nat
  <1>1. /\ b.fsz \in Nat /\ b.n_fats \in Nat /\ b.csize \in Nat /\ b.n_rootdir \in Nat
        /\ b.tsect \in Nat /\ b.nrsv \in Nat /\ b.root \in Nat
    BY FatMountAssumption DEF DWord
  <1>2. fasize(b) \in Nat
    BY <1>1, ProductWraps DEF fasize
  <1>3. b.n_rootdir \div PerSector \in Nat
    BY <1>1, WordNat, DivMod
  <1>4. ASSUME NEW p \in Nat PROVE p % Word \in Nat
    BY WordNat
  <1>5. sysect(b) \in Nat
    BY <1>1, <1>2, <1>3, <1>4 DEF sysect
  <1> QED
    BY <1>1, <1>2, <1>5

\* The clusters of an acceptable boot sector fit between its system area and its end.
LEMMA ClustersFit ==
    ASSUME NEW b \in BootSectors, Acceptable(b)
    PROVE  /\ b.csize > 0 /\ nclst(b) \in Nat /\ nclst(b) >= 1
           /\ b.csize * nclst(b) \in Nat
           /\ sysect(b) + b.csize * nclst(b) <= b.tsect
  <1>1. b.csize \in Nat \ {0} /\ b.tsect - sysect(b) \in Nat
    BY FieldTypes DEF Acceptable
  <1>2. /\ nclst(b) \in Nat
        /\ b.csize * nclst(b) \in Nat /\ b.csize * nclst(b) <= b.tsect - sysect(b)
    <2> DEFINE x == b.tsect - sysect(b)
               d == b.csize
    <2>1. x \in Nat /\ d \in Nat \ {0}
      BY <1>1
    <2> HIDE DEF x, d
    <2>2. x \div d \in Nat /\ d * (x \div d) \in Nat /\ d * (x \div d) <= x
      BY <2>1, DivMod
    <2> QED
      BY <2>2 DEF nclst, x, d
  <1>3. nclst(b) >= 1
    BY FatMountAssumption DEF Acceptable
  <1> QED
    BY <1>1, <1>2, <1>3, FieldTypes

LEMMA FatBytes ==
    ASSUME NEW t \in {"FAT12", "FAT16", "FAT32"}, NEW n \in Nat
    PROVE  szbfat(t, n) \in Nat
  <1>1. CASE t = "FAT12"
    BY <1>1 DEF szbfat
  <1>2. CASE t = "FAT16"
    BY <1>2 DEF szbfat
  <1>3. CASE t = "FAT32"
    BY <1>3 DEF szbfat
  <1> QED
    BY <1>1, <1>2, <1>3

LEMMA ReadBpbInv ==
    ASSUME IInv, ReadBpb, UNCHANGED file
    PROVE  IInv'
  <1>1. PICK b \in BootSectors :
        /\ Acceptable(b)
        /\ fs_type' = FatType(nclst(b))
        /\ n_fatent' = nclst(b) + 2
        /\ csize' = b.csize
        /\ tsect' = b.tsect
        /\ fatbase' = bsect + b.nrsv
        /\ fsize' = b.fsz
        /\ n_fats' = b.n_fats
        /\ n_rootdir' = b.n_rootdir
        /\ database' = bsect + sysect(b)
        /\ dirbase' = IF fs_type' = "FAT32" THEN b.root ELSE fatbase' + fasize(b)
    BY DEF ReadBpb
  <1>2. pc = "bpb" /\ pc' = "mounted" /\ UNCHANGED <<fat, left, bsect, bcl, res, file>>
    BY DEF ReadBpb
  <1>3. /\ fs_type = "none" /\ n_fatent = 2 /\ obj = NoFile /\ fclust = 0
        /\ out = <<>> /\ size = 0 /\ fptr = 0 /\ btr = 0 /\ TypeOK
        /\ bsect \in Nat
    BY <1>2, GeometryTypes DEF IInv, MountInv, ReadInv, MountPlaces, TypeOK
  <1>4. /\ fs_type' \in {"FAT12", "FAT16", "FAT32"}
        /\ n_fatent' \in Nat /\ n_fatent' > 2 /\ n_fatent' - 2 = nclst(b)
    BY <1>1, ClustersFit DEF FatType
  <1>5. TypeOK'
    <2>1. DOMAIN fat = {}
      <3>1. DOMAIN fat \subseteq 2..(n_fatent - 1)
        BY <1>3 DEF TypeOK, MountTypeOK, FatTypeOK, Clusters
      <3>2. 2..(n_fatent - 1) = {}
        BY <1>3
      <3> QED
        BY <3>1, <3>2
    <2>2. bcl \in 0..2
      BY <1>3 DEF TypeOK, MountTypeOK, FatValues, EOC
    <2>3. fsize' \in Nat /\ fatbase' \in Nat /\ database' \in Nat /\ dirbase' \in Nat /\ tsect' \in Nat
          /\ n_fats' \in Nat /\ n_rootdir' \in Nat /\ csize' \in Nat
      <3>1. /\ b.fsz \in Nat /\ b.n_fats \in Nat /\ b.csize \in Nat /\ b.n_rootdir \in Nat
            /\ b.tsect \in Nat /\ b.nrsv \in Nat /\ b.root \in Nat
            /\ fasize(b) \in Nat /\ sysect(b) \in Nat
        BY FieldTypes
      <3>2. fatbase' \in Nat /\ database' \in Nat
        <4>1. fatbase' = bsect + b.nrsv /\ database' = bsect + sysect(b) /\ bsect \in Nat
          BY <1>1, <1>3
        <4> QED
          BY <3>1, <4>1
      <3>3. dirbase' \in Nat
        <4>1. dirbase' = b.root \/ dirbase' = fatbase' + fasize(b)
          BY <1>1
        <4> QED
          BY <3>1, <3>2, <4>1
      <3> QED
        BY <1>1, <3>1, <3>2, <3>3
    <2>4. FatTypeOK'
      BY <1>2, <1>4, <2>1, <2>3 DEF FatTypeOK
    <2>5. MountTypeOK'
      <3>1. left' \in 0..(4 + MaxGpt) /\ bsect' \in {0} \cup Starts /\ res' \in Results
        BY <1>2, <1>3 DEF TypeOK, MountTypeOK
      <3>2. bcl' \in FatValues'
        BY <1>2, <1>4, <2>2 DEF FatValues, EOC
      <3> QED
        BY <2>3, <2>4, <3>1, <3>2 DEF MountTypeOK
    <2> QED
      BY <1>2, <1>3, <2>5, SMTT(20) DEF TypeOK, MountPlaces, file
  <1>6. FatLayout'
    <2>1. bsect' < fatbase' /\ fatbase' - bsect' = b.nrsv
      BY <1>1, <1>2, <1>3, FieldTypes, SMTT(20) DEF Acceptable
    <2>2. Times(fsize, n_fats)' = fasize(b) /\ RootSectors' = b.n_rootdir \div PerSector
      BY <1>1 DEF Times, fasize, RootSectors
    <2>3. database' = bsect' + ((fatbase' - bsect' + Times(fsize, n_fats)' + RootSectors') % Word)
      BY <1>1, <1>2, <2>1, <2>2 DEF sysect
    <2>4. (Static => dirbase = fatbase + Times(fsize, n_fats))'
      BY <1>1, <2>2 DEF Static
    <2>5. csize' > 0 /\ database' + csize' * (n_fatent' - 2) <= bsect' + tsect'
      <3>1. /\ b.csize > 0 /\ b.csize * nclst(b) \in Nat
            /\ sysect(b) + b.csize * nclst(b) <= b.tsect
            /\ sysect(b) \in Nat /\ b.tsect \in Nat
        BY <1>1, ClustersFit, FieldTypes
      <3>2. csize' * (n_fatent' - 2) = b.csize * nclst(b)
        BY <1>1, <1>4
      <3>3. bsect' = bsect
        BY <1>2
      <3> QED
        BY <1>1, <1>3, <3>1, <3>2, <3>3
    <2>6. szbfat(fs_type', n_fatent') <= fsize' * SectorSize
      <3>1. b.fsz >= (szbfat(fs_type', n_fatent') + (SectorSize - 1)) \div SectorSize
        BY <1>1 DEF Acceptable
      <3> QED
        BY <3>1, <1>1, <1>4, FieldTypes, FatBytes, CeilDiv, WordNat
    <2> QED
      BY <1>4, <2>1, <2>3, <2>4, <2>5, <2>6 DEF FatLayout, szbfat
  <1>7. MountInv'
    BY <1>2, <1>4, <1>6 DEF MountInv, exfat
  <1>8. ReadInv'
    BY <1>2, <1>3, <1>4 DEF ReadInv, file, MountPlaces
  <1> QED
    BY <1>5, <1>7, <1>8 DEF IInv

\* A step to the end that changes neither the volume nor the file.
LEMMA RefusedInv ==
    ASSUME IInv, pc \in MountPlaces, pc' = "done", res' \in Results,
           UNCHANGED <<fat, geometry, left, bcl, file>>
    PROVE  IInv'
  <1>1. /\ obj = NoFile /\ fclust = 0 /\ out = <<>> /\ size = 0
    BY DEF IInv, ReadInv, MountPlaces
  <1>2. TypeOK'
    <2>1. FatTypeOK'
      BY DEF IInv, TypeOK, MountTypeOK, FatTypeOK, geometry, volume, Clusters, FatValues, EOC
    <2>2. MountTypeOK'
      BY <2>1 DEF IInv, TypeOK, MountTypeOK, geometry, volume, FatValues, EOC
    <2> QED
      BY <1>1, <2>2 DEF IInv, TypeOK, file
  <1>3. MountInv'
    BY DEF IInv, MountInv, geometry, volume, exfat, ExFatLayout, FatLayout, Static, RootSectors
  <1>4. ReadInv'
    BY <1>1 DEF IInv, ReadInv, file, MountPlaces
  <1> QED
    BY <1>2, <1>3, <1>4 DEF IInv

LEMMA ReadBpbExInv ==
    ASSUME IInv, ReadBpbEx, UNCHANGED file
    PROVE  IInv'
  <1>1. PICK b \in ExBootSectors :
        /\ AcceptableEx(b)
        /\ n_fatent' = b.nclst + 2
        /\ csize' = b.csize
        /\ tsect' = b.tsect
        /\ fatbase' = bsect + b.fatofs
        /\ fsize' = b.fsz
        /\ n_fats' = b.n_fats
        /\ database' = bsect + b.dataofs
        /\ dirbase' = b.root
    BY DEF ReadBpbEx
  <1>2. pc = "bpb_ex" /\ pc' = "bitmap"
        /\ UNCHANGED <<fat, fs_type, n_rootdir, left, bsect, bcl, res, file>>
    BY DEF ReadBpbEx
  <1>3. /\ fs_type = "none" /\ n_fatent = 2 /\ obj = NoFile /\ fclust = 0
        /\ out = <<>> /\ size = 0 /\ fptr = 0 /\ btr = 0 /\ TypeOK
        /\ bsect \in Nat
    BY <1>2, GeometryTypes DEF IInv, MountInv, ReadInv, MountPlaces, TypeOK
  <1>4. /\ b.tsect \in Nat /\ b.fsz \in Nat /\ b.n_fats \in Nat /\ b.csize \in Nat
        /\ b.nclst \in Nat /\ b.dataofs \in Nat /\ b.fatofs \in Nat /\ b.root \in Nat
    BY FatMountAssumption DEF DWord
  <1>4a. n_fatent' \in Nat /\ n_fatent' >= 2 /\ fatbase' \in Nat /\ database' \in Nat
    <2>1. ASSUME NEW x \in Nat, NEW y \in Nat PROVE x + y \in Nat /\ x + 2 \in Nat /\ x + 2 >= 2
      OBVIOUS
    <2>2. bsect \in Nat
      BY <1>3
    <2> QED
      BY <1>1, <1>4, <2>1, <2>2
  <1>5. TypeOK'
    <2>1. DOMAIN fat = {}
      <3>1. DOMAIN fat \subseteq 2..(n_fatent - 1)
        BY <1>3 DEF TypeOK, MountTypeOK, FatTypeOK, Clusters
      <3>2. 2..(n_fatent - 1) = {}
        BY <1>3
      <3> QED
        BY <3>1, <3>2
    <2>2. bcl' \in FatValues'
      <3>1. bcl \in 0..2
        BY <1>3 DEF TypeOK, MountTypeOK, FatValues, EOC
      <3> QED
        BY <1>2, <1>4a, <3>1 DEF FatValues, EOC
    <2>3. fsize' \in Nat /\ fatbase' \in Nat /\ database' \in Nat /\ dirbase' \in Nat /\ tsect' \in Nat
          /\ n_fats' \in Nat /\ csize' \in Nat /\ n_fatent' \in Nat
      BY <1>1, <1>4, <1>4a
    <2>4. FatTypeOK'
      BY <1>2, <1>3, <2>1, <2>3 DEF FatTypeOK
    <2>5. MountTypeOK'
      BY <1>2, <1>3, <2>2, <2>3, <2>4 DEF TypeOK, MountTypeOK
    <2> QED
      BY <1>2, <1>3, <2>5 DEF TypeOK, MountPlaces, file
  <1>6. ExFatLayout'
    <2>1. csize' > 0 /\ n_fatent' >= 2 /\ n_fatent' - 2 = b.nclst
      BY <1>1, <1>4 DEF AcceptableEx
    <2>2. ASSUME b.csize * b.nclst < Word
          PROVE  Times(b.nclst, b.csize) = b.csize * b.nclst
      <3>1. b.csize * b.nclst = b.nclst * b.csize
        BY <1>4, Commute
      <3> QED
        BY <1>4, <2>2, <3>1, ProductWraps
    <2>3. ASSUME b.csize * b.nclst < Word
          PROVE  b.dataofs + b.csize * b.nclst <= b.tsect
      <3>1. b.tsect + bsect >= bsect + b.dataofs + b.csize * b.nclst
        BY <1>1, <2>2, <2>3 DEF AcceptableEx
      <3>2. b.csize * b.nclst \in Nat
        BY <1>4, Commute
      <3> QED
        BY <1>3, <1>4, <3>1, <3>2
    <2>4. b.csize * b.nclst \in Nat /\ bsect' = bsect
      BY <1>2, <1>4, Commute
    <2>5. csize' = b.csize /\ tsect' = b.tsect /\ database' = bsect + b.dataofs
      BY <1>1
    <2> QED
      BY <1>3, <1>4, <2>1, <2>3, <2>4, <2>5, SMTT(20) DEF ExFatLayout
  <1>7. MountInv'
    BY <1>2, <1>3, <1>6 DEF MountInv, exfat
  <1>8. ReadInv'
    BY <1>2, <1>3 DEF ReadInv, file, MountPlaces
  <1> QED
    BY <1>5, <1>7, <1>8 DEF IInv

LEMMA FatEntryTypes ==
    ASSUME FatTypeOK, NEW c \in Clusters, NEW v \in FatValues, FatEntry(c, v)
    PROVE  /\ DOMAIN fat' \subseteq Clusters
           /\ \A x \in DOMAIN fat' : fat'[x] \in FatValues
  <1>1. CASE UNCHANGED fat
    BY <1>1 DEF FatTypeOK
  <1>2. CASE fat' = With(fat, c, v)
    BY <1>2 DEF FatTypeOK, With
  <1> QED
    BY <1>1, <1>2 DEF FatEntry

\* The bitmap's chain changes the volume in its type only, and keeps bcl in range.
LEMMA BitmapInv ==
    ASSUME IInv, FindBitmap \/ BitmapChain, UNCHANGED file
    PROVE  IInv'
  <1>1. /\ pc \in {"bitmap", "chain"}
        /\ UNCHANGED <<n_fatent, csize, database, bsect, tsect, fatbase, fsize, n_fats,
                       dirbase, n_rootdir, left>>
        /\ UNCHANGED file
    BY DEF FindBitmap, BitmapChain, geometry, volume
  <1>2. /\ fs_type = "none" /\ ExFatLayout /\ obj = NoFile /\ fclust = 0
        /\ out = <<>> /\ size = 0 /\ TypeOK
    BY <1>1 DEF IInv, MountInv, ReadInv, MountPlaces
  <1>3. FatTypeOK /\ n_fatent \in Nat /\ bcl \in FatValues /\ res \in Results
    BY <1>2 DEF TypeOK, MountTypeOK, FatTypeOK
  <1>4. /\ \/ pc' \in {"bitmap", "chain"} /\ fs_type' = "none"
           \/ pc' = "mounted" /\ fs_type' = "EXFAT"
           \/ pc' = "done" /\ fs_type' = "none"
        /\ res' \in Results /\ bcl' \in FatValues
        /\ DOMAIN fat' \subseteq Clusters /\ \A x \in DOMAIN fat' : fat'[x] \in FatValues
    <2>1. CASE FindBitmap
      BY <1>1, <1>2, <1>3, <2>1
      DEF FindBitmap, Fail, Results, FatTypeOK, Clusters, FatValues, EOC, geometry, volume
    <2>2. CASE BitmapChain
      <3>1. /\ \/ pc' = "chain" /\ fs_type' = "none"
               \/ pc' = "mounted" /\ fs_type' = "EXFAT"
               \/ pc' = "done" /\ fs_type' = "none"
            /\ res' \in Results /\ bcl' \in FatValues
        BY <1>2, <1>3, <2>2 DEF BitmapChain, Mounted, Fail, Results
      <3>2. \/ UNCHANGED fat
            \/ bcl \in Clusters /\ \E v \in FatValues : FatEntry(bcl, v)
        BY <2>2 DEF BitmapChain
      <3>3. DOMAIN fat' \subseteq Clusters /\ \A x \in DOMAIN fat' : fat'[x] \in FatValues
        BY <1>3, <3>2, FatEntryTypes DEF FatTypeOK
      <3> QED
        BY <3>1, <3>3
    <2> QED
      BY <2>1, <2>2
  <1>5. TypeOK'
    <2>1. FatTypeOK'
      BY <1>1, <1>3, <1>4 DEF FatTypeOK, Clusters, FatValues, EOC
    <2>2. MountTypeOK'
      BY <1>1, <1>2, <1>4, <2>1 DEF TypeOK, MountTypeOK, FatValues, EOC
    <2> QED
      BY <1>1, <1>2, <1>4, <2>2 DEF TypeOK, MountPlaces, file
  <1>6. MountInv'
    BY <1>1, <1>2, <1>4 DEF MountInv, ExFatLayout, exfat
  <1>7. ReadInv'
    BY <1>1, <1>2, <1>4 DEF IInv, ReadInv, file, MountPlaces
  <1> QED
    BY <1>5, <1>6, <1>7 DEF IInv

LEMMA MountStepInv == IInv /\ Mount => IInv'
  <1> SUFFICES ASSUME IInv, Mount PROVE IInv'
    OBVIOUS
  <1>1. MountNext /\ UNCHANGED file
    BY DEF Mount
  <1>2. CASE BpbRefused \/ BpbExRefused
    <2>1. /\ pc \in MountPlaces /\ pc' = "done" /\ res' \in Results
          /\ UNCHANGED <<fat, geometry, left, bcl>>
      BY <1>2 DEF BpbRefused, BpbExRefused, Fail, Results, MountPlaces
    <2> QED
      BY <1>1, <2>1, RefusedInv
  <1> QED
    BY <1>1, <1>2, FindInv, ReadBpbInv, ReadBpbExInv, BitmapInv DEF MountNext

-----------------------------------------------------------------------------
(* The steps of f_open and f_read.                                         *)

\* What the file operations leave alone keeps what is said of the volume.
LEMMA VolumeKept ==
    ASSUME IInv, UNCHANGED kept,
           DOMAIN fat' \subseteq Clusters, \A x \in DOMAIN fat' : fat'[x] \in FatValues,
           res' \in Results, pc' \in {"alloc", "read", "done"},
           pc \in {"mounted", "alloc", "read"}
    PROVE  /\ MountTypeOK' /\ MountInv' /\ fs_type # "none"
           /\ Clusters' = Clusters /\ Opened' = Opened /\ (DataFits <=> DataFits')
           /\ UNCHANGED <<fs_type, csize, database, bsect, tsect, n_fatent>>
  <1>1. UNCHANGED <<fs_type, n_fatent, csize, database, bsect, tsect, fatbase, fsize,
                    n_fats, dirbase, n_rootdir, left, bcl>>
    BY DEF kept, geometry, volume
  <1>2. MountTypeOK'
    <2>1. FatTypeOK'
      BY <1>1 DEF IInv, TypeOK, MountTypeOK, FatTypeOK, Clusters, FatValues, EOC
    <2> QED
      BY <1>1, <2>1 DEF IInv, TypeOK, MountTypeOK, FatValues, EOC
  <1>3. MountInv' /\ fs_type # "none"
    BY <1>1 DEF IInv, MountInv, exfat, ExFatLayout, FatLayout, Static, RootSectors
  <1>4. Clusters' = Clusters /\ Opened' = Opened /\ (DataFits <=> DataFits')
    BY <1>1 DEF Clusters, Opened, FatValues, EOC, DataFits, exfat
  <1> QED
    BY <1>1, <1>2, <1>3, <1>4

LEMMA FatKept ==
    ASSUME IInv, UNCHANGED fat
    PROVE  DOMAIN fat' \subseteq Clusters /\ \A x \in DOMAIN fat' : fat'[x] \in FatValues
  BY DEF IInv, TypeOK, MountTypeOK, FatTypeOK

LEMMA OpenInv == IInv /\ Open => IInv'
  <1> SUFFICES ASSUME IInv, Open PROVE IInv'
    OBVIOUS
  <1>1. /\ pc = "mounted" /\ pc' = "alloc" /\ obj' \in Opened
        /\ UNCHANGED <<fat, kept, size, fptr, btr, fclust, out, res>>
    BY DEF Open
  <1>2. /\ MountTypeOK' /\ MountInv' /\ fs_type # "none"
        /\ Clusters' = Clusters /\ Opened' = Opened
        /\ UNCHANGED fs_type
    BY <1>1, FatKept, VolumeKept DEF IInv, TypeOK, MountTypeOK
  <1>3. TypeOK'
    BY <1>1, <1>2 DEF IInv, TypeOK, MountPlaces
  <1>4. ReadInv'
    BY <1>1, <1>2 DEF IInv, ReadInv, MountPlaces
  <1> QED
    BY <1>2, <1>3, <1>4 DEF IInv

LEMMA AllocInv == IInv /\ Alloc => IInv'
  <1> SUFFICES ASSUME IInv, Alloc PROVE IInv'
    OBVIOUS
  <1>1. /\ pc = "alloc" /\ size' = obj.objsize % Word
        /\ \/ size' \in 1..Memory /\ btr' = size' /\ pc' = "read"
           \/ pc' = "done" /\ UNCHANGED btr
        /\ UNCHANGED <<fat, kept, obj, fptr, fclust, out, res>>
    BY DEF Alloc
  <1>2. /\ MountTypeOK' /\ MountInv' /\ fs_type # "none"
        /\ Clusters' = Clusters /\ Opened' = Opened
        /\ UNCHANGED fs_type
    BY <1>1, FatKept, VolumeKept DEF IInv, TypeOK, MountTypeOK
  <1>3. out = <<>> /\ size = 0 /\ fptr = 0 /\ btr = 0
    BY <1>1 DEF IInv, TypeOK, ReadInv, MountPlaces
  <1>4. size' \in 0..(Word - 1)
    <2>1. obj.objsize \in Nat
      <3>1. obj \in Opened \/ obj = NoFile
        BY DEF IInv, TypeOK
      <3>2. ASSUME obj \in Opened PROVE obj.objsize \in Sizes
        BY <3>2 DEF Opened
      <3>3. ASSUME obj = NoFile PROVE obj.objsize = 0
        BY <3>3 DEF NoFile
      <3>4. Sizes \subseteq Nat /\ 0 \in Nat
        BY FatReadAssumption
      <3> QED
        BY <3>1, <3>2, <3>3, <3>4
    <2> QED
      BY <1>1, <2>1, WordNat, DivMod
  <1>5. TypeOK'
    BY <1>1, <1>2, <1>3, <1>4 DEF IInv, TypeOK, MountPlaces
  <1>6. ReadInv'
    BY <1>1, <1>2, <1>3, <1>4 DEF IInv, ReadInv, MountPlaces
  <1> QED
    BY <1>2, <1>5, <1>6 DEF IInv

\* The steps that end f_read.
LEMMA EndInv ==
    ASSUME IInv, pc = "read", pc' = "done", res' \in Results,
           UNCHANGED <<kept, obj, size, fptr, btr, fclust, out>>,
           DOMAIN fat' \subseteq Clusters, \A x \in DOMAIN fat' : fat'[x] \in FatValues
    PROVE  IInv'
  <1>1. /\ MountTypeOK' /\ MountInv' /\ fs_type # "none"
        /\ Clusters' = Clusters /\ Opened' = Opened /\ (DataFits <=> DataFits')
        /\ UNCHANGED <<fs_type, database, bsect, tsect>>
    BY VolumeKept
  <1>2. TypeOK'
    BY <1>1 DEF IInv, TypeOK, MountPlaces
  <1>3. ReadInv'
    BY <1>1 DEF IInv, ReadInv, MountPlaces
  <1> QED
    BY <1>1, <1>2, <1>3 DEF IInv

Bytes == Nat \X (0..(SectorSize - 1))

LEMMA BytesOfSectors ==
    ASSUME NEW s \in Nat, NEW n \in Nat
    PROVE  /\ SectorBytes(s, n) \in Seq(Bytes) /\ Len(SectorBytes(s, n)) = n
           /\ \A k \in 1..n : SectorBytes(s, n)[k][1] = s + ((k - 1) \div SectorSize)
  <1>1. ASSUME NEW k \in 1..n
        PROVE  /\ (k - 1) \div SectorSize \in Nat
               /\ <<s + ((k - 1) \div SectorSize), (k - 1) % SectorSize>> \in Bytes
    <2>1. k - 1 \in Nat
      OBVIOUS
    <2>2. (k - 1) \div SectorSize \in Nat /\ (k - 1) % SectorSize \in 0..(SectorSize - 1)
      BY <2>1, WordNat, DivMod
    <2> QED
      BY <2>2 DEF Bytes
  <1>2. SectorBytes(s, n) \in [1..n -> Bytes]
    BY <1>1 DEF SectorBytes
  <1>3. SectorBytes(s, n) \in Seq(Bytes)
    BY <1>2, SeqDef
  <1>4. Len(SectorBytes(s, n)) = n
    BY <1>2, <1>3, LenProperties
  <1> QED
    BY <1>3, <1>4 DEF SectorBytes

\* The chain leads to values that an entry can have.
LEMMA ClusterKeepsFat ==
    ASSUME IInv, NEW c \in FatValues, Cluster(c)
    PROVE  DOMAIN fat' \subseteq Clusters /\ \A x \in DOMAIN fat' : fat'[x] \in FatValues
  <1>1. CASE UNCHANGED fat
    BY <1>1, FatKept
  <1>2. CASE ~UNCHANGED fat
    <2>1. fclust \in Clusters /\ FatEntry(fclust, c)
      BY <1>2 DEF Cluster, GetFat
    <2> QED
      BY <2>1, FatEntryTypes DEF IInv, TypeOK, MountTypeOK
  <1> QED
    BY <1>1, <1>2

\* The sectors of the rest of a cluster.
LEMMA SectorInVolume ==
    ASSUME IInv, pc = "read", NEW c \in Clusters, NEW j \in Nat, csect + j < csize
    PROVE  /\ clst2sect(c) + csect \in Nat
           /\ DataFits => clst2sect(c) + csect + j \in database..(bsect + tsect - 1)
  <1>1. fs_type # "none" /\ TypeOK /\ MountInv
    BY DEF IInv, MountInv
  <1>2. csize \in Nat \ {0} /\ fptr \in Nat
    BY <1>1, GeometryTypes DEF MountInv, ExFatLayout, FatLayout, exfat, TypeOK, MountTypeOK, FatTypeOK
  <1>3. csect \in Nat
    <2> DEFINE q == fptr \div SectorSize
    <2>1. q \in Nat
      BY <1>2, WordNat, DivMod
    <2> HIDE DEF q
    <2>2. q % csize \in 0..(csize - 1)
      BY <1>2, <2>1, DivMod
    <2>3. q % csize \in Nat
      BY <1>2, <2>2
    <2> QED
      BY <2>3 DEF csect, q
  <1>4. clst2sect(c) \in Nat
    <2>1. c \in Nat /\ c - 2 \in Nat
      BY <1>1, GeometryTypes DEF Clusters
    <2>2. csize * (c - 2) \in Nat
      BY <1>2, <2>1, Commute
    <2> QED
      BY <1>1, <2>2, GeometryTypes DEF clst2sect
  <1>5. ASSUME DataFits
        PROVE  clst2sect(c) + csect + j \in database..(bsect + tsect - 1)
    <2>1. database + csize * (n_fatent - 2) <= bsect + tsect
      BY <1>1, <1>5, DataInVolume
    <2>2. clst2sect(c) >= database /\ clst2sect(c) + csize <= bsect + tsect
      BY <1>1, <2>1, GeometryTypes, ClusterInVolume
    <2> QED
      BY <1>1, <1>2, <1>3, <1>4, <2>2, GeometryTypes
  <1> QED
    BY <1>3, <1>4, <1>5

LEMMA TransferInv ==
    ASSUME IInv, pc = "read", NEW c \in FatValues, Cluster(c), clst2sect(c) # 0,
           NEW n \in Nat, n <= btr, n > 0,
           \A k \in 1..n : csect + ((k - 1) \div SectorSize) < csize,
           Transfer(c, n)
    PROVE  IInv'
  <1> DEFINE s == clst2sect(c) + csect
             b == SectorBytes(s, n)
  <1>1. /\ out' = out \o b /\ fptr' = fptr + n /\ btr' = btr - n /\ fclust' = c
        /\ UNCHANGED <<kept, pc, obj, size, res>>
    BY DEF Transfer
  <1>2. DOMAIN fat' \subseteq Clusters /\ \A x \in DOMAIN fat' : fat'[x] \in FatValues
    BY ClusterKeepsFat
  <1>3. /\ MountTypeOK' /\ MountInv' /\ fs_type # "none"
        /\ Clusters' = Clusters /\ Opened' = Opened /\ (DataFits <=> DataFits')
        /\ UNCHANGED <<fs_type, database, bsect, tsect>>
    BY <1>1, <1>2, VolumeKept DEF IInv, TypeOK, MountTypeOK
  <1>4. c \in Clusters
    BY DEF clst2sect
  <1>5. ASSUME NEW k \in 1..n
        PROVE  /\ s \in Nat /\ (k - 1) \div SectorSize \in Nat
               /\ DataFits => s + ((k - 1) \div SectorSize) \in database..(bsect + tsect - 1)
    <2>1. (k - 1) \div SectorSize \in Nat
      <3>1. k - 1 \in Nat
        OBVIOUS
      <3> QED
        BY <3>1, WordNat, DivMod
    <2> QED
      BY <1>4, <2>1, SectorInVolume
  <1>6. s \in Nat
    BY <1>5
  <1> HIDE DEF s
  <1>7. /\ b \in Seq(Bytes) /\ Len(b) = n
        /\ \A k \in 1..n : b[k][1] = s + ((k - 1) \div SectorSize)
    BY <1>6, BytesOfSectors
  <1> HIDE DEF b
  <1>8. out \in Seq(Bytes) /\ Len(out) = fptr /\ fptr + btr = size
        /\ fptr \in Nat /\ btr \in Nat /\ size \in 0..(Word - 1)
    BY DEF IInv, TypeOK, ReadInv, Bytes
  <1>9. /\ out' \in Seq(Bytes) /\ Len(out') = fptr + n
        /\ \A k \in 1..(fptr + n) : out'[k] = IF k <= fptr THEN out[k] ELSE b[k - fptr]
    BY <1>1, <1>7, <1>8, ConcatProperties
  <1>10. TypeOK'
    BY <1>1, <1>3, <1>4, <1>8, <1>9 DEF IInv, TypeOK, Bytes
  <1>11. ASSUME DataFits, NEW k \in 1..Len(out')
         PROVE  out'[k][1] \in database..(bsect + tsect - 1)
    <2>1. CASE k <= fptr
      BY <1>8, <1>9, <1>11, <2>1 DEF IInv, ReadInv
    <2>2. CASE k > fptr
      <3>1. k - fptr \in 1..n /\ k \in 1..(fptr + n) /\ ~(k <= fptr)
        BY <1>8, <1>9, <2>2
      <3>2. out'[k] = b[k - fptr]
        BY <1>9, <3>1
      <3>3. b[k - fptr][1] = s + ((k - fptr - 1) \div SectorSize)
        BY <1>7, <3>1
      <3>4. s + ((k - fptr - 1) \div SectorSize) \in database..(bsect + tsect - 1)
        BY <1>5, <1>11, <3>1
      <3> QED
        BY <3>2, <3>3, <3>4
    <2> QED
      BY <1>8, <1>9, <2>1, <2>2
  <1>12. ReadInv'
    <2>1. pc' = "read" /\ fs_type' # "none" /\ Len(out') = fptr'
      BY <1>1, <1>3, <1>9
    <2>3. fptr' + btr' = size'
      BY <1>1, <1>8
    <2>2. DataFits' => \A k \in 1..Len(out') : out'[k][1] \in database'..(bsect' + tsect' - 1)
      BY <1>3, <1>11
    <2> QED
      BY <2>1, <2>2, <2>3 DEF ReadInv, MountPlaces
  <1> QED
    BY <1>3, <1>10, <1>12 DEF IInv

\* Whole sectors, clipped where the cluster ends.
WholeSectors(c, m) ==
    /\ Cluster(c) /\ clst2sect(c) # 0 /\ Transfer(c, SectorSize * m)
    /\ pc = "read" /\ btr > 0
    /\ SectorSize * m \in Nat /\ SectorSize * m <= btr /\ SectorSize * m > 0
    /\ \A k \in 1..(SectorSize * m) : csect + ((k - 1) \div SectorSize) < csize

LEMMA WholeSectorsRead ==
    ASSUME IInv, ReadWhole
    PROVE  \E c \in FatValues, m \in Nat : WholeSectors(c, m)
  <1> DEFINE cc == btr \div SectorSize
             m == Clipped(cc)
  <1>1. PICK c \in FatValues : Cluster(c) /\ clst2sect(c) # 0 /\ Transfer(c, SectorSize * m)
    BY DEF ReadWhole
  <1>2. pc = "read" /\ btr >= SectorSize /\ btr \in Nat /\ fptr \in Nat
    BY DEF ReadWhole, IInv, TypeOK
  <1>3. csize \in Nat \ {0}
    BY <1>2, GeometryTypes
    DEF IInv, MountInv, ExFatLayout, FatLayout, exfat, TypeOK, MountTypeOK, FatTypeOK
  <1>4. csect \in 0..(csize - 1)
    <2> DEFINE q == fptr \div SectorSize
    <2>1. q \in Nat
      BY <1>2, WordNat, DivMod
    <2> HIDE DEF q
    <2>2. q % csize \in 0..(csize - 1)
      BY <1>3, <2>1, DivMod
    <2> QED
      BY <2>2 DEF csect, q
  <1>5. cc \in Nat /\ cc >= 1 /\ SectorSize * cc <= btr
    <2>1. /\ cc \in Nat /\ SectorSize * cc \in Nat /\ btr % SectorSize \in 0..(SectorSize - 1)
          /\ btr = SectorSize * cc + (btr % SectorSize)
      BY <1>2, WordNat, DivMod
    <2>2. ASSUME cc = 0 PROVE FALSE
      <3>1. SectorSize * cc = 0
        BY <2>2, WordNat
      <3> QED
        BY <1>2, <2>1, <3>1, WordNat
    <2>3. cc >= 1
      BY <2>1, <2>2
    <2>4. SectorSize * cc <= btr
      <3> DEFINE p == SectorSize * cc
                 r == btr % SectorSize
      <3>1. p \in Nat /\ r \in Nat /\ btr = p + r
        BY <2>1, WordNat
      <3> HIDE DEF p, r
      <3>2. p <= btr
        BY <3>1
      <3> QED
        BY <3>2 DEF p
    <2> QED
      BY <2>1, <2>3, <2>4
  <1> HIDE DEF cc
  <1>6. m \in Nat /\ m >= 1 /\ m <= cc /\ csect + m <= csize
    BY <1>3, <1>4, <1>5 DEF Clipped
  <1> HIDE DEF m
  <1>7. SectorSize * m \in Nat /\ SectorSize * m <= btr /\ SectorSize * m > 0
    <2>1. SectorSize * m <= SectorSize * cc /\ SectorSize * m \in Nat /\ SectorSize * cc \in Nat
      BY <1>5, <1>6, WordNat, Monotone
    <2>2. SectorSize * 1 <= SectorSize * m
      BY <1>6, WordNat, Monotone
    <2> QED
      BY <1>2, <1>5, <2>1, <2>2, WordNat
  <1>8. ASSUME NEW k \in 1..(SectorSize * m)
        PROVE  csect + ((k - 1) \div SectorSize) < csize
    <2>1. k - 1 \in Nat /\ k - 1 < m * SectorSize
      <3>1. SectorSize * m = m * SectorSize
        BY <1>6, WordNat, Commute
      <3> QED
        BY <1>7, <3>1
    <2>2. (k - 1) \div SectorSize \in Nat /\ (k - 1) \div SectorSize < m
      BY <1>6, <2>1, WordNat, DivLess
    <2> QED
      BY <1>3, <1>4, <1>6, <2>2
  <1>9. btr > 0
    BY <1>2, WordNat
  <1>10. WholeSectors(c, m)
    BY <1>1, <1>2, <1>7, <1>8, <1>9 DEF WholeSectors
  <1> QED
    BY <1>6, <1>10

LEMMA ReadWholeInv == IInv /\ ReadWhole => IInv'
  <1> SUFFICES ASSUME IInv, ReadWhole PROVE IInv'
    OBVIOUS
  <1>1. PICK c \in FatValues, m \in Nat : WholeSectors(c, m)
    BY WholeSectorsRead
  <1> DEFINE n == SectorSize * m
  <1>2. /\ pc = "read" /\ n \in Nat /\ n <= btr /\ n > 0
        /\ Cluster(c) /\ clst2sect(c) # 0 /\ Transfer(c, n)
        /\ \A k \in 1..n : csect + ((k - 1) \div SectorSize) < csize
    BY <1>1 DEF WholeSectors
  <1> HIDE DEF n
  <1> QED
    BY <1>2, TransferInv

\* The part of a sector at the end of the file.
LEMMA RestInCluster ==
    ASSUME IInv, ReadRest
    PROVE  \A k \in 1..btr : csect + ((k - 1) \div SectorSize) < csize
  <1>2. pc = "read" /\ btr \in 1..(SectorSize - 1) /\ fptr \in Nat
    BY DEF ReadRest, IInv, TypeOK
  <1>3. csize \in Nat \ {0}
    BY <1>2, GeometryTypes, SMTT(20)
    DEF IInv, MountInv, ExFatLayout, FatLayout, exfat, TypeOK, MountTypeOK, FatTypeOK
  <1>4. csect \in 0..(csize - 1)
    <2> DEFINE q == fptr \div SectorSize
    <2>1. q \in Nat
      BY <1>2, WordNat, DivMod
    <2> HIDE DEF q
    <2>2. q % csize \in 0..(csize - 1)
      BY <1>3, <2>1, DivMod
    <2> QED
      BY <2>2 DEF csect, q
  <1>5. ASSUME NEW k \in 1..btr
        PROVE  csect + ((k - 1) \div SectorSize) < csize
    <2>1. k - 1 \in Nat /\ k - 1 < 1 * SectorSize
      BY <1>2, WordNat
    <2>2. (k - 1) \div SectorSize \in Nat /\ (k - 1) \div SectorSize < 1
      BY <2>1, WordNat, DivLess
    <2> QED
      BY <1>3, <1>4, <2>2
  <1> QED
    BY <1>5

LEMMA ReadRestInv == IInv /\ ReadRest => IInv'
  <1> SUFFICES ASSUME IInv, ReadRest PROVE IInv'
    OBVIOUS
  <1>1. PICK c \in FatValues : Cluster(c) /\ clst2sect(c) # 0 /\ Transfer(c, btr)
    BY DEF ReadRest
  <1>2. pc = "read" /\ btr \in Nat /\ btr > 0
    BY WordNat DEF ReadRest
  <1> QED
    BY <1>1, <1>2, RestInCluster, TransferInv

LEMMA ReadEndsInv == IInv /\ (ReadChainEnds \/ ReadFails \/ ReadDone) => IInv'
  <1> SUFFICES ASSUME IInv, ReadChainEnds \/ ReadFails \/ ReadDone PROVE IInv'
    OBVIOUS
  <1>1. /\ pc = "read" /\ pc' = "done" /\ res' \in Results
        /\ UNCHANGED <<kept, obj, size, fptr, btr, fclust, out>>
    BY DEF ReadChainEnds, ReadFails, ReadDone, Results
  <1>2. UNCHANGED fat \/ \E c \in FatValues : Cluster(c)
    BY DEF ReadChainEnds, ReadFails, ReadDone
  <1>3. DOMAIN fat' \subseteq Clusters /\ \A x \in DOMAIN fat' : fat'[x] \in FatValues
    BY <1>2, FatKept, ClusterKeepsFat
  <1> QED
    BY <1>1, <1>3, EndInv

LEMMA StutterInv == IInv /\ UNCHANGED vars => IInv'
  <1> SUFFICES ASSUME IInv, UNCHANGED vars PROVE IInv'
    OBVIOUS
  <1> USE DEF vars, mount_vars, geometry, volume, file
  <1>1. TypeOK'
    BY DEF IInv, TypeOK, MountTypeOK, FatTypeOK, Clusters, FatValues, EOC, Opened, exfat
  <1>2. MountInv'
    BY DEF IInv, MountInv, exfat, ExFatLayout, FatLayout, Static, RootSectors
  <1>3. ReadInv'
    BY DEF IInv, ReadInv, DataFits, exfat
  <1> QED
    BY <1>1, <1>2, <1>3 DEF IInv

-----------------------------------------------------------------------------
(* The theorems.                                                           *)

\* The inductive invariant of mount_volume (MountInv) and f_read (ReadInv) holds for
\* every boot sector, every chain, and every size.
THEOREM ReadInvariant == Spec => []IInv
  <1>1. IInv /\ [Next]_vars => IInv'
    BY MountStepInv, OpenInv, AllocInv, ReadWholeInv, ReadRestInv, ReadEndsInv, StutterInv
    DEF Next
  <1> QED
    BY InitInv, <1>1, PTL DEF Spec

\* Every variable keeps its type; f_read never writes more than it was given room for.
THEOREM ReadTypes == Spec => []TypeOK
  <1>1. IInv => TypeOK
    BY DEF IInv
  <1> QED
    BY <1>1, ReadInvariant, PTL

\* SectorsInVolume, for any boot sector, FAT and file: no byte of a file comes from outside
\* of the data area of its volume, on FAT12/16/32 always, on exFAT if the size of that
\* area did not wrap in 32 bits; and on FAT12/16/32 the entry of every cluster is in the
\* first FAT.  That FATs, root directory and clusters do not overlap is said only of FATs
\* whose size did not wrap.
THEOREM SectorsAreInVolume == Spec => []SectorsInVolume
  <1>1. IInv => SectorsInVolume
    BY LayoutFromInv DEF IInv, ReadInv, SectorsInVolume
  <1> QED
    BY <1>1, ReadInvariant, PTL

-----------------------------------------------------------------------------
(* What is computed step by step.                                          *)

LEMMA LeastNumber ==
    ASSUME NEW S, S \subseteq Nat, S # {}
    PROVE  \E a \in S : \A b \in S : a <= b
  <1> DEFINE R == {ss \in Nat \X Nat : ss[1] < ss[2]}
  <1>1. OpToRel(<, Nat) = R
    BY Zenon DEF OpToRel
  <1>2. IsWellFoundedOn(R, Nat)
    BY <1>1, NatLessThanWellFounded, Zenon
  <1>3. PICK a \in S : \A b \in S : ~ (<<b, a>> \in R)
    <2> HIDE DEF R
    <2> QED
      BY <1>2, WFMin, Zenon
  <1>4. \A x, y \in Nat : x < y => <<x, y>> \in R
    OBVIOUS
  <1> HIDE DEF R
  <1>5. \A b \in S : ~(b < a)
    BY <1>3, <1>4
  <1>6. \A b \in S : b \in Nat /\ a \in Nat
    OBVIOUS
  <1> QED
    BY <1>5, <1>6

\* f begins with a and goes on up to m as G says.
Steps(f, m, V, a, G) ==
    /\ f \in [0..m -> V] /\ f[0] = a
    /\ \A k \in 0..(m - 1) : f[k + 1] = G[<<k + 1, f[k]>>]

LEMMA StepsAreUnique ==
    ASSUME NEW V, NEW a, NEW G, NEW l \in Nat, NEW m \in Nat, l <= m,
           NEW f, Steps(f, l, V, a, G), NEW g, Steps(g, m, V, a, G)
    PROVE  f[l] = g[l]
  <1> SUFFICES \A k \in 0..l : f[k] = g[k]
    OBVIOUS
  <1> DEFINE S == {k \in 0..l : f[k] # g[k]}
  <1> SUFFICES S = {}
    OBVIOUS
  <1> SUFFICES ASSUME S # {} PROVE FALSE
    OBVIOUS
  <1>1. PICK b \in S : \A c \in S : b <= c
    <2>1. S \subseteq Nat
      OBVIOUS
    <2> HIDE DEF S
    <2> QED
      BY <2>1, LeastNumber
  <1>2. b \in 0..l /\ f[b] # g[b]
    OBVIOUS
  <1>3. b # 0
    BY <1>2 DEF Steps
  <1>4. b - 1 \in 0..(l - 1) /\ b - 1 \in 0..(m - 1) /\ ~(b <= b - 1) /\ (b - 1) + 1 = b
        /\ b - 1 \in 0..l
    BY <1>2, <1>3
  <1>5. f[b - 1] = g[b - 1]
    <2>1. ~(b - 1 \in S)
      <3> HIDE DEF S
      <3> QED
        BY <1>1, <1>4
    <2> QED
      BY <2>1, <1>4
  <1>6. f[b] = G[<<b, f[b - 1]>>] /\ g[b] = G[<<b, g[b - 1]>>]
    <2>1. f[(b - 1) + 1] = G[<<(b - 1) + 1, f[b - 1]>>]
      BY <1>4 DEF Steps
    <2>2. g[(b - 1) + 1] = G[<<(b - 1) + 1, g[b - 1]>>]
      BY <1>4 DEF Steps
    <2> QED
      BY <2>1, <2>2, <1>4
  <1> QED
    BY <1>2, <1>5, <1>6

LEMMA StepsExist ==
    ASSUME NEW V, NEW a \in V, NEW G \in [Nat \X V -> V], NEW m \in Nat
    PROVE  \E f : Steps(f, m, V, a, G)
  <1> DEFINE S == {k \in Nat : ~ \E f : Steps(f, k, V, a, G)}
  <1> SUFFICES S = {}
    OBVIOUS
  <1> SUFFICES ASSUME S # {} PROVE FALSE
    OBVIOUS
  <1>1. PICK b \in S : \A c \in S : b <= c
    <2>1. S \subseteq Nat
      OBVIOUS
    <2> HIDE DEF S
    <2> QED
      BY <2>1, LeastNumber
  <1>2. b \in Nat /\ ~ \E f : Steps(f, b, V, a, G)
    OBVIOUS
  <1>3. b # 0
    <2>1. Steps([k \in 0..0 |-> a], 0, V, a, G)
      BY DEF Steps
    <2> QED
      BY <2>1, <1>2
  <1>4. ~(b - 1 \in S) /\ b - 1 \in Nat
    <2>1. ~(b <= b - 1) /\ b - 1 \in Nat
      BY <1>2, <1>3
    <2> HIDE DEF S
    <2> QED
      BY <2>1, <1>1
  <1>5. PICK f : Steps(f, b - 1, V, a, G)
    BY <1>4
  <1> HIDE DEF S
  <1> DEFINE v == G[<<b, f[b - 1]>>]
             g == [k \in 0..b |-> IF k = b THEN v ELSE f[k]]
  <1>6. f \in [0..(b - 1) -> V] /\ f[0] = a
        /\ \A k \in 0..(b - 1 - 1) : f[k + 1] = G[<<k + 1, f[k]>>]
    BY <1>5 DEF Steps
  <1>7. v \in V
    <2>1. f[b - 1] \in V
      BY <1>2, <1>4, <1>6
    <2> QED
      BY <2>1, <1>2
  <1>8. \A k \in 0..b : g[k] = IF k = b THEN v ELSE f[k]
    OBVIOUS
  <1>9. g \in [0..b -> V]
    <2>1. \A k \in 0..b : (IF k = b THEN v ELSE f[k]) \in V
      <3> HIDE DEF v
      <3> TAKE k \in 0..b
      <3>1. k = b \/ k \in 0..(b - 1)
        BY <1>2
      <3> QED
        BY <3>1, <1>6, <1>7
    <2> QED
      BY <2>1
  <1>10. g[0] = a
    BY <1>2, <1>3, <1>6, <1>8
  <1> HIDE DEF g
  <1>11. ASSUME NEW k \in 0..(b - 1)
         PROVE  g[k + 1] = G[<<k + 1, g[k]>>]
    <2>1. k \in 0..b /\ k # b /\ k + 1 \in 0..b /\ g[k] = f[k]
      BY <1>2, <1>8
    <2>2. CASE k + 1 = b
      <3>1. k = b - 1
        BY <2>2, <1>2
      <3> QED
        BY <2>1, <2>2, <3>1, <1>8
    <2>3. CASE k + 1 # b
      <3>1. k \in 0..(b - 1 - 1)
        BY <2>3, <1>2
      <3> QED
        BY <2>1, <2>3, <3>1, <1>6, <1>8
    <2> QED
      BY <2>2, <2>3
  <1>12. Steps(g, b, V, a, G)
    BY <1>9, <1>10, <1>11 DEF Steps
  <1> QED
    BY <1>12, <1>2

\* f begins with a and goes on for ever as G says.
Recurs(f, a, G) == f[0] = a /\ \A k \in Nat : f[k + 1] = G[<<k + 1, f[k]>>]

\* A function can be defined by what it is at 0 and at each number after the one before.
LEMMA Recursion ==
    ASSUME NEW V, NEW a \in V, NEW G \in [Nat \X V -> V]
    PROVE  \E f \in [Nat -> V] : Recurs(f, a, G)
  <1> DEFINE h == [m \in Nat |-> CHOOSE f : Steps(f, m, V, a, G)]
             f == [m \in Nat |-> h[m][m]]
  <1>1. \A m \in Nat : Steps(h[m], m, V, a, G)
    BY StepsExist
  <1>2. \A m \in Nat : f[m] = h[m][m]
    OBVIOUS
  <1>3. f = [m \in Nat |-> f[m]]
    OBVIOUS
  <1> HIDE DEF h, f
  <1>4. ASSUME NEW m \in Nat PROVE h[m][m] \in V
    <2> DEFINE g == h[m]
    <2>1. Steps(g, m, V, a, G)
      BY <1>1
    <2> HIDE DEF g
    <2>2. g[m] \in V
      <3>1. m \in 0..m /\ g \in [0..m -> V]
        BY <2>1 DEF Steps
      <3> QED
        BY <3>1
    <2> QED
      BY <2>2 DEF g
  <1>5. f \in [Nat -> V]
    BY <1>2, <1>3, <1>4
  <1>6. f[0] = a
    <2> DEFINE g == h[0]
    <2>1. Steps(g, 0, V, a, G) /\ f[0] = g[0]
      BY <1>1, <1>2
    <2> HIDE DEF g
    <2> QED
      BY <2>1 DEF Steps
  <1>7. ASSUME NEW k \in Nat
        PROVE  f[k + 1] = G[<<k + 1, f[k]>>]
    <2> DEFINE b == h[k]
               c == h[k + 1]
    <2>1. /\ Steps(b, k, V, a, G) /\ Steps(c, k + 1, V, a, G)
          /\ f[k] = b[k] /\ f[k + 1] = c[k + 1]
      BY <1>1, <1>2
    <2> HIDE DEF b, c
    <2>2. b[k] = c[k]
      <3> DEFINE n == k + 1
      <3>1. k <= n /\ n \in Nat
        OBVIOUS
      <3>2. Steps(c, n, V, a, G)
        BY <2>1
      <3> HIDE DEF n
      <3>3. Steps(b, k, V, a, G)
        BY <2>1
      <3> QED
        BY <3>1, <3>2, <3>3, StepsAreUnique
    <2>3. c[k + 1] = G[<<k + 1, c[k]>>]
      <3>1. k \in 0..((k + 1) - 1)
        OBVIOUS
      <3> QED
        BY <3>1, <2>1 DEF Steps
    <2> QED
      BY <2>1, <2>2, <2>3
  <1>8. Recurs(f, a, G)
    BY <1>6, <1>7, Zenon DEF Recurs
  <1> QED
    BY <1>5, <1>8

-----------------------------------------------------------------------------
(* The clusters of a file.                                                 *)

\* f is the chain that begins at c: the numbers from there on of a contiguous file,
\* where the entries of fat lead for any other one.
IsChain(f, c, cont, g) ==
    /\ f[0] = c
    /\ \A n \in Nat :
          f[n + 1] = IF cont THEN c + (n + 1) ELSE IF f[n] \in DOMAIN g THEN g[f[n]] ELSE 0

LEMMA ChainExists ==
    ASSUME NEW c \in Nat, NEW cont, NEW g, \A x \in DOMAIN g : g[x] \in Nat
    PROVE  \E f \in [Nat -> Nat] : IsChain(f, c, cont, g)
  <1> DEFINE G == [p \in Nat \X Nat |->
                     IF cont THEN c + p[1] ELSE IF p[2] \in DOMAIN g THEN g[p[2]] ELSE 0]
  <1>1. G \in [Nat \X Nat -> Nat]
    OBVIOUS
  <1>2. \A n \in Nat, x \in Nat :
          G[<<n, x>>] = IF cont THEN c + n ELSE IF x \in DOMAIN g THEN g[x] ELSE 0
    OBVIOUS
  <1> HIDE DEF G
  <1>3. PICK f \in [Nat -> Nat] : Recurs(f, c, G)
    BY <1>1, Recursion
  <1>4. ASSUME NEW n \in Nat
        PROVE  f[n + 1] = IF cont THEN c + (n + 1) ELSE IF f[n] \in DOMAIN g THEN g[f[n]] ELSE 0
    <2>1. n + 1 \in Nat /\ f[n] \in Nat /\ f[n + 1] = G[<<n + 1, f[n]>>]
      BY <1>3 DEF Recurs
    <2> QED
      BY <1>2, <2>1
  <1>5. IsChain(f, c, cont, g)
    BY <1>3, <1>4, Zenon DEF IsChain, Recurs
  <1> QED
    BY <1>3, <1>5

\* A chain stays what it is, up to the first cluster whose entry is not read, when more
\* entries are read.
LEMMA ChainsAgree ==
    ASSUME NEW c, NEW cont, NEW g, NEW h, NEW f, NEW e,
           IsChain(f, c, cont, g), IsChain(e, c, cont, h),
           \A x \in DOMAIN g : x \in DOMAIN h /\ h[x] = g[x],
           NEW q \in Nat, cont \/ \A m \in 0..(q - 1) : f[m] \in DOMAIN g
    PROVE  \A m \in 0..q : e[m] = f[m]
  <1> DEFINE S == {m \in 0..q : e[m] # f[m]}
  <1> SUFFICES ASSUME S # {} PROVE FALSE
    OBVIOUS
  <1>1. PICK b \in S : \A d \in S : b <= d
    <2>1. S \subseteq Nat
      OBVIOUS
    <2> HIDE DEF S
    <2> QED
      BY <2>1, LeastNumber
  <1>2. b \in 0..q /\ e[b] # f[b]
    OBVIOUS
  <1>3. b # 0
    BY <1>2 DEF IsChain
  <1> DEFINE a == b - 1
  <1>4. a \in Nat /\ a \in 0..q /\ a \in 0..(q - 1) /\ ~(b <= a) /\ a + 1 = b
    BY <1>2, <1>3
  <1>5. e[a] = f[a]
    <2>1. ~(a \in S)
      <3> HIDE DEF S, a
      <3> QED
        BY <1>1, <1>4
    <2> QED
      BY <2>1, <1>4
  <1> HIDE DEF a, S
  <1>6. /\ f[a + 1] = IF cont THEN c + (a + 1) ELSE IF f[a] \in DOMAIN g THEN g[f[a]] ELSE 0
        /\ e[a + 1] = IF cont THEN c + (a + 1) ELSE IF e[a] \in DOMAIN h THEN h[e[a]] ELSE 0
    BY <1>4 DEF IsChain
  <1>7. cont \/ f[a] \in DOMAIN g
    BY <1>4
  <1>8. e[a + 1] = f[a + 1]
    BY <1>5, <1>6, <1>7
  <1> QED
    BY <1>2, <1>4, <1>8

LEMMA ContiguousChain ==
    ASSUME NEW c \in Nat, NEW g, NEW f, IsChain(f, c, TRUE, g), NEW n \in Nat
    PROVE  f[n] = c + n
  <1>1. CASE n = 0
    BY <1>1 DEF IsChain
  <1>2. CASE n # 0
    <2>1. n - 1 \in Nat /\ (n - 1) + 1 = n
      BY <1>2
    <2>2. f[(n - 1) + 1] = c + ((n - 1) + 1)
      BY <2>1 DEF IsChain
    <2> QED
      BY <2>1, <2>2
  <1> QED
    BY <1>1, <1>2

\* The chain of the file is the one of the model's definition.
LEMMA ChainIs == TypeOK => IsChain(Chain, obj.sclust, Contiguous(obj), fat)
  <1> SUFFICES ASSUME TypeOK PROVE IsChain(Chain, obj.sclust, Contiguous(obj), fat)
    OBVIOUS
  <1> DEFINE R(f) == f = [n \in Nat |-> IF n = 0 THEN obj.sclust
                            ELSE IF Contiguous(obj) THEN obj.sclust + n
                            ELSE IF f[n - 1] \in DOMAIN fat THEN fat[f[n - 1]] ELSE 0]
  <1>1. FatValues \subseteq Nat
    BY GeometryTypes DEF FatValues, EOC
  <1>2. obj.sclust \in Nat /\ \A x \in DOMAIN fat : fat[x] \in Nat
    <2>1. obj.sclust \in Nat
      <3>1. obj \in Opened => obj.sclust \in FatValues
        BY DEF Opened
      <3>2. obj = NoFile => obj.sclust = 0
        BY DEF NoFile
      <3>3. obj \in Opened \/ obj = NoFile
        BY Zenon DEF TypeOK
      <3>4. CASE obj \in Opened
        BY <1>1, <3>1, <3>4
      <3>5. CASE obj = NoFile
        BY <3>2, <3>5
      <3> QED
        BY <3>3, <3>4, <3>5
    <2>2. \A x \in DOMAIN fat : fat[x] \in Nat
      BY <1>1 DEF TypeOK, MountTypeOK, FatTypeOK
    <2> QED
      BY <2>1, <2>2
  <1> DEFINE cont == Contiguous(obj)
             c == obj.sclust
  <1>3. PICK f \in [Nat -> Nat] : IsChain(f, c, cont, fat)
    BY <1>2, ChainExists
  <1>4. Chain = CHOOSE g : R(g)
    BY DEF Chain
  <1> HIDE DEF cont
  <1>5. ASSUME NEW n \in Nat
        PROVE  f[n] = IF n = 0 THEN c ELSE IF cont THEN c + n
                      ELSE IF f[n - 1] \in DOMAIN fat THEN fat[f[n - 1]] ELSE 0
    <2>1. CASE n = 0
      BY <1>3, <2>1 DEF IsChain
    <2>2. CASE n # 0
      <3>1. n - 1 \in Nat /\ (n - 1) + 1 = n
        BY <2>2
      <3>2. f[(n - 1) + 1] = IF cont THEN c + ((n - 1) + 1)
                             ELSE IF f[n - 1] \in DOMAIN fat THEN fat[f[n - 1]] ELSE 0
        BY <1>3, <3>1 DEF IsChain
      <3> QED
        BY <2>2, <3>1, <3>2
    <2> QED
      BY <2>1, <2>2
  <1>6. f = [n \in Nat |-> f[n]]
    BY <1>3
  <1>7. R(f)
    <2>1. [n \in Nat |-> f[n]]
            = [n \in Nat |-> IF n = 0 THEN c ELSE IF cont THEN c + n
                              ELSE IF f[n - 1] \in DOMAIN fat THEN fat[f[n - 1]] ELSE 0]
      BY <1>5
    <2> QED
      BY <1>6, <2>1, Zenon DEF cont
  <1>8. R(Chain)
    <2> HIDE DEF R
    <2> QED
      BY <1>4, <1>7
  <1>9. Chain[0] = c
    BY <1>8
  <1>10. ASSUME NEW n \in Nat
         PROVE  Chain[n + 1] = IF cont THEN c + (n + 1)
                               ELSE IF Chain[n] \in DOMAIN fat THEN fat[Chain[n]] ELSE 0
    <2>1. n + 1 \in Nat /\ n + 1 # 0 /\ (n + 1) - 1 = n
      OBVIOUS
    <2>2. Chain[n + 1] = IF n + 1 = 0 THEN obj.sclust
                         ELSE IF Contiguous(obj) THEN obj.sclust + (n + 1)
                         ELSE IF Chain[(n + 1) - 1] \in DOMAIN fat
                              THEN fat[Chain[(n + 1) - 1]] ELSE 0
      BY <1>8, <2>1
    <2> QED
      BY <2>1, <2>2 DEF cont
  <1> QED
    BY <1>9, <1>10 DEF IsChain, cont

LEMMA ChainIsPrime == TypeOK' => IsChain(Chain, obj.sclust, Contiguous(obj), fat)'
  BY ChainIs, PTL

-----------------------------------------------------------------------------
(* Where a byte is.                                                        *)

LEMMA DivUnique ==
    ASSUME NEW d \in Nat \ {0}, NEW q \in Nat, NEW r \in 0..(d - 1)
    PROVE  (d * q + r) \div d = q /\ (d * q + r) % d = r
  <1> DEFINE x == d * q + r
             p == x \div d
             t == x % d
  <1>1. d * q \in Nat /\ x \in Nat
    BY Commute
  <1>2. p \in Nat /\ t \in 0..(d - 1) /\ d * p \in Nat /\ x = d * p + t
    BY <1>1, DivMod
  <1>3. d * p + t = d * q + r
    BY <1>2
  <1> HIDE DEF x, p, t
  <1>4. ASSUME NEW a \in Nat, NEW b \in Nat, a < b
        PROVE  d * a + d <= d * b /\ d * a \in Nat /\ d * b \in Nat
    <2>1. d * (a + 1) <= d * b /\ d * (a + 1) \in Nat /\ d * b \in Nat
      BY <1>4, Monotone
    <2>2. d * (a + 1) = d * a + d /\ d * a \in Nat
      OBVIOUS
    <2> QED
      BY <2>1, <2>2
  <1>5. ASSUME p < q PROVE FALSE
    <2>1. d * p + d <= d * q
      BY <1>2, <1>4, <1>5
    <2> QED
      BY <1>1, <1>2, <1>3, <2>1
  <1>6. ASSUME q < p PROVE FALSE
    <2>1. d * q + d <= d * p
      BY <1>2, <1>4, <1>6
    <2> QED
      BY <1>1, <1>2, <1>3, <2>1
  <1>7. p = q
    BY <1>2, <1>5, <1>6
  <1>8. t = r
    BY <1>1, <1>2, <1>3, <1>7
  <1> QED
    BY <1>7, <1>8 DEF p, t, x

LEMMA DivAtLeast ==
    ASSUME NEW x \in Nat, NEW d \in Nat \ {0}, NEW n \in Nat, d * n <= x
    PROVE  n <= x \div d /\ x \div d \in Nat
  <1>1. x \div d \in Nat
    BY DivMod
  <1>2. ASSUME x \div d < n PROVE FALSE
    <2> DEFINE q == x \div d
               r == x % d
    <2>1. q \in Nat /\ r \in 0..(d - 1) /\ d * q \in Nat /\ x = d * q + r
      BY DivMod
    <2>2. d * (q + 1) <= d * n /\ d * n \in Nat
      BY <1>2, <2>1, Monotone
    <2> HIDE DEF q, r
    <2>3. d * (q + 1) = d * q + d
      BY <2>1
    <2> QED
      BY <2>1, <2>2, <2>3
  <1> QED
    BY <1>1, <1>2

LEMMA DivMonotone ==
    ASSUME NEW x \in Nat, NEW y \in Nat, x <= y, NEW d \in Nat \ {0}
    PROVE  x \div d <= y \div d /\ x \div d \in Nat /\ y \div d \in Nat
  <1>1. x \div d \in Nat /\ d * (x \div d) <= x /\ d * (x \div d) \in Nat
    BY DivMod
  <1>2. d * (x \div d) <= y
    BY <1>1
  <1> QED
    BY <1>1, <1>2, DivAtLeast

\* Byte x of a file is byte j behind its sector u, in clusters of y bytes, and of z sectors
\* of d bytes, when it is in the same cluster as the sector.
Placed(x, y, d, z, u, j) == x = d * u + j /\ y = d * z /\ (u % z) + (j \div d) < z

InPlace(x, y, d, z, u, j) ==
    /\ x \div y = u \div z
    /\ (x % y) \div d = (u % z) + (j \div d)
    /\ (x % y) % d = j % d

LEMMA Position ==
    ASSUME NEW d \in Nat \ {0}, NEW z \in Nat \ {0}, NEW u \in Nat, NEW j \in Nat,
           NEW x, NEW y, Placed(x, y, d, z, u, j)
    PROVE  InPlace(x, y, d, z, u, j)
  <1> DEFINE a == u \div z
             s == u % z
             b == j \div d
             r == j % d
             w == d * (s + b) + r
  <1>1. a \in Nat /\ s \in Nat /\ z * a \in Nat /\ u = z * a + s
    <2>1. a \in Nat /\ s \in 0..(z - 1) /\ z * a \in Nat /\ u = z * a + s
      BY DivMod
    <2> HIDE DEF a, s
    <2> QED
      BY <2>1
  <1>2. b \in Nat /\ r \in 0..(d - 1) /\ d * b \in Nat /\ j = d * b + r
    BY DivMod
  <1>3. s + b < z /\ x = d * u + j /\ y = d * z
    BY DEF Placed
  <1> HIDE DEF a, s, b, r
  <1>4. d * z \in Nat \ {0} /\ d * u \in Nat /\ d * (s + b) \in Nat
    <2>1. s + b \in Nat
      BY <1>1, <1>2
    <2>2. d * 1 <= d * z
      BY Monotone
    <2> QED
      BY <2>1, <2>2, Commute
  <1>5. w \in 0..(d * z - 1)
    <2>1. s + b + 1 \in Nat /\ s + b + 1 <= z
      BY <1>1, <1>2, <1>3
    <2>2. d * (s + b + 1) <= d * z
      BY <2>1, Monotone
    <2>3. d * (s + b + 1) = d * (s + b) + d
      BY <1>1, <1>2
    <2> QED
      BY <1>2, <1>4, <2>2, <2>3
  <1>6. d * u + j = (d * z) * a + w
    <2>1. d * u = (d * z) * a + d * s
      BY <1>1
    <2>2. d * (s + b) = d * s + d * b
      BY <1>1, <1>2
    <2>3. (d * z) * a \in Nat /\ d * s \in Nat
      BY <1>1, <1>4, Commute
    <2> DEFINE A == (d * z) * a
               B == d * s
               C == d * b
    <2>4. d * u = A + B /\ w = B + C + r /\ j = C + r /\ A \in Nat /\ B \in Nat /\ C \in Nat
      BY <1>2, <2>1, <2>2, <2>3
    <2> HIDE DEF A, B, C, w
    <2>5. (A + B) + (C + r) = A + (B + C + r)
      BY <1>2, <2>4
    <2>6. d * u + j = A + w
      BY <2>4, <2>5
    <2> QED
      BY <2>6 DEF A
  <1>7. (d * u + j) \div (d * z) = a /\ (d * u + j) % (d * z) = w
    <2> DEFINE dz == d * z
    <2> HIDE DEF w
    <2>1. dz \in Nat \ {0} /\ w \in 0..(dz - 1) /\ d * u + j = dz * a + w
      BY <1>4, <1>5, <1>6
    <2> HIDE DEF dz
    <2>2. (dz * a + w) \div dz = a /\ (dz * a + w) % dz = w
      BY <1>1, <2>1, DivUnique
    <2> QED
      BY <2>1, <2>2 DEF dz
  <1>8. w \div d = s + b /\ w % d = r
    <2>1. s + b \in Nat
      BY <1>1, <1>2
    <2> QED
      BY <1>2, <2>1, DivUnique
  <1> QED
    BY <1>3, <1>7, <1>8, Zenon DEF InPlace, a, s, b, r

-----------------------------------------------------------------------------
(* The invariant of f_read.                                                *)

\* The chain of the file is known up to its cluster q.
Leads(q) == Contiguous(obj) \/ \A m \in 0..(q - 1) : Chain[m] \in DOMAIN fat

\* f_read begins every call at a sector, and has in fclust the cluster of the file that
\* the last byte came from.
FileInv ==
    /\ pc # "done" => res = "none"
    /\ pc = "read" => size <= obj.objsize
    /\ pc = "read" /\ btr > 0 => fptr % SectorSize = 0
    /\ pc = "read" /\ fptr > 0 =>
        LET q == (fptr - 1) \div ClusterBytes
        IN  fclust = Chain[q] /\ clst2sect(fclust) # 0 /\ Leads(q)
    /\ ReadsTheFile

LEMMA ReadTypesOf ==
    ASSUME IInv, pc = "read"
    PROVE  /\ csize \in Nat \ {0} /\ ClusterBytes \in Nat \ {0} /\ ClusterBytes = SectorSize * csize
           /\ fptr \in Nat /\ btr \in Nat /\ size \in Nat /\ fptr + btr = size
           /\ out \in Seq(Bytes) /\ Len(out) = fptr
           /\ obj.objsize \in Nat /\ obj.sclust \in Nat
           /\ n_fatent \in Nat /\ database \in Nat
           /\ fs_type # "none"
  <1>1. TypeOK /\ MountInv /\ ReadInv
    BY DEF IInv
  <1>2. csize \in Nat \ {0} /\ n_fatent \in Nat /\ database \in Nat /\ fs_type # "none"
    BY <1>1, GeometryTypes
    DEF MountInv, ExFatLayout, FatLayout, exfat, TypeOK, MountTypeOK, FatTypeOK
  <1>3. ClusterBytes \in Nat \ {0}
    <2>1. SectorSize * 1 <= SectorSize * csize /\ SectorSize * csize \in Nat
      BY <1>2, WordNat, Monotone
    <2> QED
      BY <2>1, WordNat DEF ClusterBytes
  <1>4. /\ fptr \in Nat /\ btr \in Nat /\ size \in Nat /\ fptr + btr = size
        /\ out \in Seq(Bytes) /\ Len(out) = fptr
    BY <1>1, WordNat DEF TypeOK, ReadInv, Bytes
  <1>5. obj.objsize \in Nat /\ obj.sclust \in Nat
    <2>1. FatValues \subseteq Nat
      BY <1>1, GeometryTypes DEF FatValues, EOC
    <2>2. CASE obj \in Opened
      <3>1. obj.sclust \in FatValues /\ obj.objsize \in Sizes
        BY <2>2 DEF Opened
      <3> QED
        BY <2>1, <3>1, FatReadAssumption
    <2>3. CASE obj = NoFile
      BY <2>3 DEF NoFile
    <2> QED
      BY <1>1, <2>2, <2>3 DEF TypeOK
  <1> QED
    BY <1>2, <1>3, <1>4, <1>5 DEF ClusterBytes

\* What is read of the FAT never changes the part of the chain that is known.
LEMMA ChainGrows ==
    ASSUME TypeOK, TypeOK', UNCHANGED <<kept, obj>>,
           \A x \in DOMAIN fat : x \in DOMAIN fat' /\ fat'[x] = fat[x],
           NEW q \in Nat, Leads(q)
    PROVE  /\ \A m \in 0..q : Chain'[m] = Chain[m]
           /\ Leads(q)'
  <1>1. Contiguous(obj)' = Contiguous(obj) /\ obj' = obj
    BY DEF kept, geometry, volume, Contiguous, exfat
  <1>2. IsChain(Chain, obj.sclust, Contiguous(obj), fat)
    BY ChainIs
  <1>3. IsChain(Chain', obj.sclust, Contiguous(obj), fat')
    BY ChainIsPrime, <1>1 DEF IsChain
  <1>4. \A m \in 0..q : Chain'[m] = Chain[m]
    <2>1. Contiguous(obj) \/ \A m \in 0..(q - 1) : Chain[m] \in DOMAIN fat
      BY DEF Leads
    <2> QED
      BY <1>2, <1>3, <2>1, ChainsAgree
  <1>5. Leads(q)'
    <2>1. \A m \in 0..(q - 1) : m \in 0..q
      OBVIOUS
    <2> QED
      BY <1>1, <1>4, <2>1 DEF Leads
  <1> QED
    BY <1>4, <1>5

\* Where f_read stands in the file: in the cluster of the last byte, or at its end.
LEMMA Standing ==
    ASSUME IInv, FileInv, pc = "read", btr > 0
    PROVE  /\ fptr = SectorSize * (fptr \div SectorSize) /\ fptr \div SectorSize \in Nat
           /\ csect \in 0..(csize - 1)
           /\ fptr \div ClusterBytes \in Nat
           /\ fptr % ClusterBytes # 0 =>
                 fptr > 0 /\ (fptr - 1) \div ClusterBytes = fptr \div ClusterBytes
           /\ fptr % ClusterBytes = 0 /\ fptr # 0 =>
                 /\ (fptr - 1) \div ClusterBytes + 1 = fptr \div ClusterBytes
                 /\ (fptr - 1) \div ClusterBytes \in Nat
                 /\ ClusterBytes * (fptr \div ClusterBytes) = fptr
  <1> DEFINE d == ClusterBytes
             a == fptr \div d
             r == fptr % d
             u == fptr \div SectorSize
  <1>1. /\ csize \in Nat \ {0} /\ d \in Nat \ {0} /\ fptr \in Nat
    BY ReadTypesOf
  <1>2. fptr = SectorSize * u /\ u \in Nat
    <2>1. fptr % SectorSize = 0
      BY DEF FileInv
    <2>2. u \in Nat /\ SectorSize * u \in Nat /\ fptr = SectorSize * u + (fptr % SectorSize)
      BY <1>1, WordNat, DivMod
    <2> HIDE DEF u
    <2> QED
      BY <2>1, <2>2
  <1>3. csect \in 0..(csize - 1)
    <2> HIDE DEF u
    <2>1. u % csize \in 0..(csize - 1)
      BY <1>1, <1>2, DivMod
    <2> QED
      BY <2>1 DEF csect, u
  <1>4. a \in Nat /\ r \in 0..(d - 1) /\ d * a \in Nat /\ fptr = d * a + r
    BY <1>1, DivMod
  <1> HIDE DEF d, u
  <1>5. ASSUME r # 0
        PROVE  fptr > 0 /\ (fptr - 1) \div d = a
    <2> HIDE DEF a, r
    <2>1. fptr - 1 = d * a + (r - 1) /\ r - 1 \in 0..(d - 1) /\ fptr > 0
      BY <1>1, <1>4, <1>5
    <2>2. (d * a + (r - 1)) \div d = a
      BY <1>1, <1>4, <2>1, DivUnique
    <2> QED
      BY <2>1, <2>2
  <1>6. ASSUME r = 0, fptr # 0
        PROVE  (fptr - 1) \div d + 1 = a /\ (fptr - 1) \div d \in Nat /\ d * a = fptr
    <2> HIDE DEF a, r
    <2>1. d * a = fptr
      BY <1>4, <1>6
    <2>2. a # 0
      BY <1>1, <1>6, <2>1
    <2>3. a - 1 \in Nat /\ d * (a - 1) + (d - 1) = fptr - 1 /\ d - 1 \in 0..(d - 1)
      <3>1. d * a = d * (a - 1) + d
        BY <1>1, <1>4, <2>2
      <3>2. d * (a - 1) \in Nat /\ a - 1 \in Nat
        BY <1>1, <1>4, <2>2, Commute
      <3> QED
        BY <1>1, <2>1, <3>1, <3>2
    <2>4. (d * (a - 1) + (d - 1)) \div d = a - 1
      BY <1>1, <2>3, DivUnique
    <2> QED
      BY <1>4, <2>1, <2>3, <2>4
  <1> QED
    BY <1>2, <1>3, <1>4, <1>5, <1>6 DEF d, u

LEMMA GrowsByOne ==
    ASSUME NEW x, NEW v, FatEntry(x, v)
    PROVE  /\ x \in DOMAIN fat' /\ fat'[x] = v
           /\ \A y \in DOMAIN fat : y \in DOMAIN fat' /\ fat'[y] = fat[y]
  <1>1. CASE x \in DOMAIN fat /\ v = fat[x] /\ UNCHANGED fat
    BY <1>1
  <1>2. CASE x \notin DOMAIN fat /\ fat' = With(fat, x, v)
    BY <1>2 DEF With
  <1> QED
    BY <1>1, <1>2 DEF FatEntry

\* The cluster that f_read goes on with is the next one of the file, whether it is taken
\* from the object, from the FAT, or counted on in a contiguous file.
LEMMA ClusterIs ==
    ASSUME IInv, TypeOK', FileInv, pc = "read", btr > 0, UNCHANGED <<kept, obj>>,
           NEW c \in FatValues, Cluster(c), NEW a, a = fptr \div ClusterBytes
    PROVE  /\ c = Chain'[a] /\ Leads(a)'
           /\ \A k \in 1..fptr :
                 Chain'[(k - 1) \div ClusterBytes] = Chain[(k - 1) \div ClusterBytes]
           /\ clst2sect(c) = 0 => fptr % ClusterBytes = 0
  <1> DEFINE d == ClusterBytes
             q == (fptr - 1) \div d
  <1>1. /\ d \in Nat \ {0} /\ fptr \in Nat /\ TypeOK
    BY ReadTypesOf DEF IInv
  <1>2. \A x \in DOMAIN fat : x \in DOMAIN fat' /\ fat'[x] = fat[x]
    <2>1. CASE UNCHANGED fat
      BY <2>1
    <2>2. CASE ~UNCHANGED fat
      <3>1. FatEntry(fclust, c)
        BY <2>2 DEF Cluster, GetFat
      <3> QED
        BY <3>1, GrowsByOne
    <2> QED
      BY <2>1, <2>2
  <1>3. ASSUME NEW p \in Nat, p = q, fptr > 0, Leads(p)
        PROVE  /\ \A m \in 0..p : Chain'[m] = Chain[m]
               /\ Leads(p)'
               /\ \A k \in 1..fptr : Chain'[(k - 1) \div d] = Chain[(k - 1) \div d]
    <2>1. (\A m \in 0..p : Chain'[m] = Chain[m]) /\ Leads(p)'
      BY <1>1, <1>2, <1>3, ChainGrows
    <2>2. ASSUME NEW k \in 1..fptr PROVE (k - 1) \div d \in 0..p
      <3>1. k - 1 \in Nat /\ fptr - 1 \in Nat /\ k - 1 <= fptr - 1
        BY <1>1
      <3>2. (k - 1) \div d <= q /\ (k - 1) \div d \in Nat
        BY <1>1, <3>1, DivMonotone
      <3> HIDE DEF q
      <3> QED
        BY <1>3, <3>2
    <2> QED
      BY <2>1, <2>2
  <1>4. fptr > 0 => fclust = Chain[q] /\ clst2sect(fclust) # 0 /\ Leads(q)
    BY DEF FileInv
  <1> HIDE DEF d
  <1>5. CASE fptr % d # 0
    <2>1. fptr > 0 /\ q = a /\ a \in Nat
      <3>1. /\ fptr \div ClusterBytes \in Nat
            /\ fptr % ClusterBytes # 0 =>
                 fptr > 0 /\ (fptr - 1) \div ClusterBytes = fptr \div ClusterBytes
        BY Standing
      <3>2. fptr % ClusterBytes # 0
        BY <1>5 DEF d
      <3> QED
        BY <3>1, <3>2 DEF d
    <2>2. c = fclust
      BY <1>1, <1>5, <2>1 DEF Cluster, d
    <2> HIDE DEF q
    <2>3. a \in 0..a /\ c = Chain[a] /\ clst2sect(c) # 0 /\ Leads(a)
      BY <1>4, <2>1, <2>2
    <2>4. /\ \A m \in 0..a : Chain'[m] = Chain[m]
          /\ Leads(a)'
          /\ \A k \in 1..fptr : Chain'[(k - 1) \div d] = Chain[(k - 1) \div d]
      BY <1>3, <2>1, <2>3
    <2>5. c = Chain'[a]
      BY <2>3, <2>4
    <2> QED
      BY <2>3, <2>4, <2>5 DEF d
  <1>6. CASE fptr = 0
    <2>1. a = 0 /\ fptr % d = 0
      <3>1. 0 \div d = 0 /\ 0 % d = 0
        BY <1>1
      <3> QED
        BY <1>6, <3>1 DEF d
    <2>2. c = obj.sclust /\ obj' = obj
      BY <1>1, <1>6, <2>1 DEF Cluster, d
    <2>3. Chain'[0] = obj.sclust
      <3>1. IsChain(Chain, obj.sclust, Contiguous(obj), fat)'
        BY ChainIsPrime
      <3> QED
        BY <2>2, <3>1 DEF IsChain
    <2>4. Leads(0)'
      BY DEF Leads
    <2> QED
      BY <1>6, <2>1, <2>2, <2>3, <2>4 DEF d
  <1>7. CASE fptr # 0 /\ fptr % d = 0
    <2>1. q \in Nat /\ q + 1 = a /\ d * a = fptr /\ fptr > 0 /\ a \in Nat
      BY <1>1, <1>7, Standing DEF d
    <2>0. PICK p \in Nat : p = q
      BY <2>1
    <2>2. GetFat(obj, fclust, c)
      BY <1>7 DEF Cluster, d
    <2>9. p + 1 = a /\ d * a = fptr /\ fptr > 0 /\ a \in Nat
      BY <2>0, <2>1
    <2> HIDE DEF q
    <2>3. fclust \in Clusters /\ fclust = Chain[p] /\ Leads(p)
      BY <1>4, <2>0, <2>1 DEF clst2sect
    <2>4. /\ \A m \in 0..p : Chain'[m] = Chain[m]
          /\ Leads(p)'
          /\ \A k \in 1..fptr : Chain'[(k - 1) \div d] = Chain[(k - 1) \div d]
      BY <1>3, <2>0, <2>1, <2>3
    <2>5. fclust = Chain'[p]
      BY <2>1, <2>3, <2>4
    <2>6. Contiguous(obj)' = Contiguous(obj) /\ obj' = obj
      BY DEF kept, geometry, volume, Contiguous, exfat
    <2>7. IsChain(Chain', obj.sclust, Contiguous(obj), fat')
      BY ChainIsPrime, <2>6 DEF IsChain
    <2>8. c = Chain'[p + 1] /\ Leads(p + 1)'
      <3>1. CASE Contiguous(obj)
        <4>1. fclust = obj.sclust + p
          <5>1. IsChain(Chain, obj.sclust, TRUE, fat)
            BY <1>1, <3>1, ChainIs DEF IsChain
          <5>2. obj.sclust \in Nat
            BY ReadTypesOf
          <5>3. Chain[p] = obj.sclust + p
            BY <5>1, <5>2, ContiguousChain
          <5> QED
            BY <2>3, <5>3
        <4>2. p < LastCluster(obj)
          <5> DEFINE y == (obj.objsize - 1) \div SectorSize
          <5>1. obj.objsize - 1 \in Nat /\ SectorSize * (csize * a) <= obj.objsize - 1
                /\ csize * a \in Nat
            <6>0. csize \in Nat /\ SectorSize \in Nat /\ d = SectorSize * csize
              BY ReadTypesOf, WordNat DEF d
            <6>1. SectorSize * (csize * a) = fptr /\ csize * a \in Nat
              <7>1. \A i, j, k \in Nat : (i * j) * k = i * (j * k)
                OBVIOUS
              <7>2. (SectorSize * csize) * a = SectorSize * (csize * a)
                BY <2>9, <6>0, <7>1
              <7> QED
                BY <2>9, <6>0, <7>2, Commute
            <6>2. fptr < obj.objsize /\ obj.objsize \in Nat
              BY ReadTypesOf DEF FileInv
            <6> QED
              BY <1>1, <6>1, <6>2
          <5>2. y \in Nat /\ csize * a <= y
            BY <5>1, WordNat, DivAtLeast
          <5> HIDE DEF y
          <5>3. y \div csize \in Nat /\ a <= y \div csize
            BY <2>9, <5>2, ReadTypesOf, DivAtLeast
          <5> QED
            BY <2>9, <5>3 DEF LastCluster, y
        <4>3. c = fclust + 1
          <5>1. LET cofs == fclust - obj.sclust
                IN  c = IF cofs < LastCluster(obj) THEN fclust + 1
                        ELSE IF cofs = LastCluster(obj) THEN EOC ELSE 1
            BY <2>2, <2>3, <3>1 DEF GetFat
          <5>2. fclust - obj.sclust = p
            BY <2>9, <4>1, ReadTypesOf
          <5> QED
            BY <4>2, <5>1, <5>2
        <4>4. Chain'[p + 1] = obj.sclust + (p + 1)
          BY <2>9, <2>7, <3>1 DEF IsChain
        <4> QED
          <5>1. obj.sclust \in Nat
            BY ReadTypesOf
          <5>2. c = Chain'[p + 1]
            BY <4>1, <4>3, <4>4, <5>1
          <5>3. Leads(p + 1)'
            BY <2>6, <3>1 DEF Leads
          <5> QED
            BY <5>2, <5>3
      <3>2. CASE ~Contiguous(obj)
        <4>1. FatEntry(fclust, c)
          BY <2>2, <2>3, <3>2 DEF GetFat
        <4>2. fclust \in DOMAIN fat' /\ fat'[fclust] = c
          BY <4>1, GrowsByOne
        <4>3. c = Chain'[p + 1]
          BY <2>9, <2>5, <2>7, <3>2, <4>2 DEF IsChain
        <4>4. ASSUME NEW m \in 0..(p + 1 - 1) PROVE Chain'[m] \in DOMAIN fat'
          <5>1. m = p \/ m \in 0..(p - 1)
            BY <2>9
          <5> QED
            BY <2>4, <2>5, <2>6, <3>2, <4>2, <5>1 DEF Leads
        <4> QED
          BY <4>3, <4>4 DEF Leads
      <3> QED
        BY <3>1, <3>2
    <2> QED
      BY <1>7, <2>4, <2>8, <2>9 DEF d
  <1> QED
    BY <1>1, <1>5, <1>6, <1>7 DEF d

\* Where the byte j behind fptr is, when it is in the cluster of fptr.
LEMMA BytePlace ==
    ASSUME IInv, FileInv, pc = "read", btr > 0,
           NEW j \in Nat, csect + (j \div SectorSize) < csize
    PROVE  /\ (fptr + j) \div ClusterBytes = fptr \div ClusterBytes
           /\ ((fptr + j) % ClusterBytes) \div SectorSize = csect + (j \div SectorSize)
           /\ ((fptr + j) % ClusterBytes) % SectorSize = j % SectorSize
  <1> DEFINE u == fptr \div SectorSize
  <1>1. fptr = SectorSize * u /\ u \in Nat /\ csect \in 0..(csize - 1)
    BY Standing
  <1>2. csize \in Nat \ {0} /\ SectorSize \in Nat \ {0} /\ ClusterBytes = SectorSize * csize
        /\ fptr \in Nat
    BY ReadTypesOf, WordNat
  <1>3. csect = u % csize
    BY DEF csect
  <1> HIDE DEF u
  <1>4. ASSUME NEW i \in Nat, csect + (i \div SectorSize) < csize, NEW x, x = SectorSize * u + i
        PROVE  InPlace(x, ClusterBytes, SectorSize, csize, u, i)
    <2>1. Placed(x, ClusterBytes, SectorSize, csize, u, i)
      BY <1>2, <1>3, <1>4, Zenon DEF Placed
    <2> QED
      BY <1>1, <1>2, <1>4, <2>1, Position
  <1>5. fptr \div ClusterBytes = u \div csize
    <2>1. 0 \div SectorSize = 0
      BY <1>2
    <2>2. csect + (0 \div SectorSize) < csize
      BY <1>1, <1>2, <2>1
    <2>3. fptr = SectorSize * u + 0
      BY <1>1, <1>2
    <2>4. InPlace(fptr, ClusterBytes, SectorSize, csize, u, 0)
      BY <1>4, <2>2, <2>3
    <2> QED
      BY <2>4, Zenon DEF InPlace
  <1>6. fptr + j = SectorSize * u + j
    BY <1>1
  <1> DEFINE x == fptr + j
  <1>7. x = SectorSize * u + j /\ x \in Nat
    BY <1>2, <1>6
  <1> HIDE DEF x
  <1>8. InPlace(x, ClusterBytes, SectorSize, csize, u, j)
    BY <1>4, <1>7
  <1> QED
    BY <1>3, <1>5, <1>8, Zenon DEF InPlace, x

LEMMA TransferFile ==
    ASSUME IInv, IInv', FileInv, pc = "read", btr > 0,
           NEW c \in FatValues, Cluster(c), clst2sect(c) # 0,
           NEW n \in Nat, n <= btr, n > 0,
           n = btr \/ \E m \in Nat : n = SectorSize * m,
           \A k \in 1..n : csect + ((k - 1) \div SectorSize) < csize,
           Transfer(c, n)
    PROVE  FileInv'
  <1> DEFINE a == fptr \div ClusterBytes
             s == clst2sect(c) + csect
             b == SectorBytes(s, n)
  <1>1. /\ out' = out \o b /\ fptr' = fptr + n /\ btr' = btr - n /\ fclust' = c
        /\ UNCHANGED <<kept, pc, obj, size, res>>
    BY DEF Transfer
  <1>2. /\ csize \in Nat \ {0} /\ ClusterBytes \in Nat \ {0} /\ fptr \in Nat /\ btr \in Nat
        /\ size \in Nat /\ fptr + btr = size
        /\ out \in Seq(Bytes) /\ Len(out) = fptr /\ n_fatent \in Nat /\ database \in Nat
    BY ReadTypesOf
  <1>3. /\ pc' = "read" /\ UNCHANGED <<obj, size, res, csize, database, n_fatent>>
        /\ ClusterBytes' = ClusterBytes /\ clst2sect(c)' = clst2sect(c)
    BY <1>1 DEF kept, geometry, volume, ClusterBytes, clst2sect, Clusters
  <1>4. PICK p : p = a
    OBVIOUS
  <1>5. /\ c = Chain'[p] /\ Leads(p)'
        /\ \A k \in 1..fptr :
              Chain'[(k - 1) \div ClusterBytes] = Chain[(k - 1) \div ClusterBytes]
    <2>1. TypeOK' /\ UNCHANGED <<kept, obj>>
      BY <1>1 DEF IInv
    <2> QED
      BY <1>4, <2>1, ClusterIs
  <1>6. \A j \in 0..(n - 1) :
          /\ (fptr + j) \div ClusterBytes = p
          /\ ((fptr + j) % ClusterBytes) \div SectorSize = csect + (j \div SectorSize)
          /\ ((fptr + j) % ClusterBytes) % SectorSize = j % SectorSize
    <2> TAKE j \in 0..(n - 1)
    <2>1. j \in Nat /\ j + 1 \in 1..n /\ (j + 1) - 1 = j
      OBVIOUS
    <2>2. csect + (j \div SectorSize) < csize
      BY <2>1
    <2> QED
      BY <1>4, <2>1, <2>2, BytePlace
  <1>7. c \in Clusters /\ c - 2 \in Nat /\ clst2sect(c) = database + csize * (c - 2)
        /\ csize * (c - 2) \in Nat
    <2>1. c \in Clusters /\ clst2sect(c) = database + csize * (c - 2)
      BY DEF clst2sect
    <2>2. c - 2 \in Nat
      BY <1>2, <2>1 DEF Clusters
    <2> QED
      BY <1>2, <2>1, <2>2, Commute
  <1>8. csect \in Nat
    <2>1. csect \in 0..(csize - 1)
      BY Standing
    <2> QED
      BY <1>2, <2>1
  <1>9. s \in Nat
    BY <1>2, <1>7, <1>8
  <1>10. b \in Seq(Bytes) /\ Len(b) = n
    <2> HIDE DEF s
    <2> QED
      BY <1>9, BytesOfSectors
  <1>11. \A k \in 1..n : b[k] = <<s + ((k - 1) \div SectorSize), (k - 1) % SectorSize>>
    BY DEF SectorBytes
  <1> HIDE DEF a, s, b
  <1>12. /\ Len(out') = fptr + n
         /\ \A k \in 1..(fptr + n) : out'[k] = IF k <= fptr THEN out[k] ELSE b[k - fptr]
    BY <1>1, <1>2, <1>10, ConcatProperties
  <1>13. ASSUME NEW k \in 1..(fptr + n) PROVE out'[k] = ByteOfFile(k - 1)'
    <2> DEFINE e == Chain'[(k - 1) \div ClusterBytes]
               o == (k - 1) % ClusterBytes
    <2>1. ByteOfFile(k - 1)' = <<database + csize * (e - 2) + (o \div SectorSize), o % SectorSize>>
      BY <1>3 DEF ByteOfFile
    <2>2. CASE k <= fptr
      <3>1. k \in 1..fptr /\ k \in 1..Len(out) /\ out'[k] = out[k]
        BY <1>2, <1>12, <2>2
      <3>2. out[k] = ByteOfFile(k - 1)
        BY <3>1 DEF FileInv, ReadsTheFile
      <3>3. e = Chain[(k - 1) \div ClusterBytes]
        BY <1>5, <3>1
      <3> HIDE DEF e
      <3>4. ByteOfFile(k - 1) = <<database + csize * (e - 2) + (o \div SectorSize), o % SectorSize>>
        BY <3>3 DEF ByteOfFile
      <3> QED
        BY <2>1, <3>1, <3>2, <3>4
    <2>3. CASE ~(k <= fptr)
      <3> DEFINE j == k - fptr - 1
      <3>1. j \in 0..(n - 1) /\ k - 1 = fptr + j /\ k - fptr \in 1..n /\ (k - fptr) - 1 = j
        BY <1>2, <2>3
      <3> HIDE DEF j
      <3>2. (k - 1) \div ClusterBytes = p /\ o \div SectorSize = csect + (j \div SectorSize)
            /\ o % SectorSize = j % SectorSize
        BY <1>6, <3>1
      <3>3. e = c
        BY <1>5, <3>2
      <3> HIDE DEF e, o
      <3>4. out'[k] = <<s + (j \div SectorSize), j % SectorSize>>
        <4>1. k \in 1..(fptr + n) /\ out'[k] = b[k - fptr]
          BY <1>12, <2>3
        <4> DEFINE i == k - fptr
        <4>2. i \in 1..n /\ i - 1 = j /\ out'[k] = b[i]
          BY <3>1, <4>1
        <4> HIDE DEF i
        <4>3. b[i] = <<s + ((i - 1) \div SectorSize), (i - 1) % SectorSize>>
          BY <1>11, <4>2
        <4>4. out'[k] = <<s + ((i - 1) \div SectorSize), (i - 1) % SectorSize>> /\ i - 1 = j
          BY <4>2, <4>3
        <4> DEFINE h == i - 1
        <4>5. out'[k] = <<s + (h \div SectorSize), h % SectorSize>> /\ h = j
          BY <4>4
        <4> HIDE DEF h
        <4> QED
          BY <4>5
      <3>5. j \div SectorSize \in Nat
        <4>1. j \in Nat
          BY <1>2, <3>1
        <4> QED
          BY <4>1, WordNat, DivMod
      <3>6. s + (j \div SectorSize) = database + csize * (c - 2) + (csect + (j \div SectorSize))
        BY <1>2, <1>7, <1>8, <3>5 DEF s
      <3> QED
        BY <2>1, <3>2, <3>3, <3>4, <3>6
    <2> QED
      BY <2>2, <2>3
  <1>14. (pc = "read" /\ btr > 0 => fptr % SectorSize = 0)'
    <2> SUFFICES ASSUME btr - n > 0 PROVE (fptr + n) % SectorSize = 0
      BY <1>1
    <2>1. PICK m \in Nat : n = SectorSize * m
      BY <1>2
    <2>2. fptr = SectorSize * (fptr \div SectorSize) /\ fptr \div SectorSize \in Nat
      BY Standing
    <2> DEFINE u == fptr \div SectorSize
    <2> HIDE DEF u
    <2>3. u \in Nat /\ fptr + n = SectorSize * (u + m) + 0 /\ u + m \in Nat
      <3>1. u \in Nat /\ fptr = SectorSize * u
        BY <2>2 DEF u
      <3>2. SectorSize * (u + m) = SectorSize * u + SectorSize * m
        BY <3>1, WordNat
      <3> QED
        BY <1>2, <2>1, <3>1, <3>2
    <2> QED
      BY <2>3, WordNat, DivUnique
  <1>15. (fptr' - 1) \div ClusterBytes' = p
    <2>1. n - 1 \in 0..(n - 1) /\ fptr + (n - 1) = (fptr + n) - 1
      BY <1>2
    <2>2. (fptr + (n - 1)) \div ClusterBytes = p
      BY <1>6, <2>1
    <2> QED
      BY <1>1, <1>3, <2>1, <2>2
  <1>16. ReadsTheFile'
    <2>1. res' = "none"
      BY <1>3 DEF FileInv
    <2>2. Len(out') <= size'
      BY <1>2, <1>3, <1>12
    <2>3. \A k \in 1..Len(out') : out'[k] = ByteOfFile(k - 1)'
      BY <1>12, <1>13
    <2> QED
      BY <2>1, <2>2, <2>3 DEF ReadsTheFile
  <1>17. (fclust = Chain[(fptr - 1) \div ClusterBytes] /\ clst2sect(fclust) # 0)'
    BY <1>1, <1>3, <1>5, <1>15 DEF clst2sect
  <1>18. Leads((fptr - 1) \div ClusterBytes)'
    BY <1>5, <1>15 DEF Leads
  <1>19. res' = "none" /\ size' <= obj'.objsize
    BY <1>3 DEF FileInv
  <1> QED
    BY <1>14, <1>16, <1>17, <1>18, <1>19 DEF FileInv

-----------------------------------------------------------------------------
(* The steps.                                                              *)

LEMMA EmptyFile ==
    out = <<>> /\ size \in Nat /\ res \notin {"FR_OK", "FR_INT_ERR"} => ReadsTheFile
  BY DEF ReadsTheFile

LEMMA EmptyFilePrime ==
    (out = <<>> /\ size \in Nat /\ res \notin {"FR_OK", "FR_INT_ERR"})' => ReadsTheFile'
  BY EmptyFile, PTL

LEMMA FileInit == Init => FileInv
  <1> SUFFICES ASSUME Init PROVE FileInv
    OBVIOUS
  <1>1. pc = "sector0" /\ res = "none" /\ out = <<>> /\ size = 0
    BY DEF Init, MountInit
  <1> QED
    BY <1>1, EmptyFile DEF FileInv

\* mount_volume ends with a result of its own, and with none goes on.
LEMMA MountResult ==
    ASSUME MountNext
    PROVE  /\ pc \in MountPlaces /\ pc' # "read"
           /\ \/ res' = res
              \/ pc' = "done" /\ res' \in {"FR_NO_FILESYSTEM", "FR_DISK_ERR"}
  <1>1. CASE FindInSector0 \/ FindInMbr
    BY <1>1 DEF FindInSector0, FindInMbr, VolumeAt, Found, NoVolume, Fail, MountPlaces
  <1>2. CASE GptHeader \/ FindInGpt
    BY <1>2 DEF GptHeader, FindInGpt, VolumeAt, Found, NoVolume, Fail, MountPlaces
  <1>3. CASE ReadBpb \/ ReadBpbEx
    BY <1>3 DEF ReadBpb, ReadBpbEx, MountPlaces
  <1>4. CASE BpbRefused \/ BpbExRefused \/ FindBitmap
    BY <1>4 DEF BpbRefused, BpbExRefused, FindBitmap, Fail, MountPlaces
  <1>5. CASE BitmapChain
    BY <1>5 DEF BitmapChain, Mounted, Fail, MountPlaces
  <1> QED
    BY <1>1, <1>2, <1>3, <1>4, <1>5 DEF MountNext

\* Up to the allocation nothing is read.
LEMMA FileBefore ==
    ASSUME IInv, FileInv, Mount \/ Open
    PROVE  FileInv'
  <1>1. pc \in MountPlaces \cup {"mounted"} /\ UNCHANGED <<size, out>> /\ pc' # "read"
        /\ (res' = res \/ (pc' = "done" /\ res' \in {"FR_NO_FILESYSTEM", "FR_DISK_ERR"}))
    <2>1. CASE Mount
      BY <2>1, MountResult DEF Mount, file
    <2>2. CASE Open
      BY <2>2 DEF Open
    <2> QED
      BY <2>1, <2>2
  <1>2. pc # "done" /\ out = <<>> /\ size = 0
    BY <1>1 DEF IInv, ReadInv, MountPlaces
  <1>3. res = "none"
    BY <1>2 DEF FileInv
  <1>4. ReadsTheFile'
    BY <1>1, <1>2, <1>3, EmptyFilePrime
  <1> QED
    BY <1>1, <1>3, <1>4 DEF FileInv

LEMMA FileAlloc ==
    ASSUME IInv, IInv', FileInv, Alloc
    PROVE  FileInv'
  <1>1. /\ pc = "alloc" /\ size' = obj.objsize % Word
        /\ UNCHANGED <<obj, fptr, out, res>>
    BY DEF Alloc
  <1>2. out = <<>> /\ size = 0 /\ fptr = 0 /\ res = "none"
    BY <1>1 DEF IInv, TypeOK, ReadInv, MountPlaces, FileInv
  <1>3. obj.objsize \in Nat
    <2>1. obj \in Opened => obj.objsize \in Sizes
      BY DEF Opened
    <2>2. obj = NoFile => obj.objsize = 0
      BY DEF NoFile
    <2>3. obj \in Opened \/ obj = NoFile
      BY DEF IInv, TypeOK
    <2>4. CASE obj \in Opened
      BY <2>1, <2>4, FatReadAssumption
    <2>5. CASE obj = NoFile
      BY <2>2, <2>5
    <2> QED
      BY <2>3, <2>4, <2>5
  <1>4. size' \in Nat /\ size' <= obj.objsize
    BY <1>1, <1>3, WordNat
  <1>5. ReadsTheFile'
    BY <1>1, <1>2, <1>4, EmptyFilePrime
  <1>6. fptr' = 0 /\ 0 % SectorSize = 0
    BY <1>1, <1>2, WordNat
  <1> QED
    BY <1>1, <1>2, <1>4, <1>5, <1>6 DEF FileInv

\* What ends f_read leaves what was read as it is.
LEMMA EndFile ==
    ASSUME IInv, FileInv, pc = "read", pc' = "done",
           UNCHANGED <<kept, obj, size, fptr, btr, fclust, out>>,
           \A k \in 1..fptr :
              Chain'[(k - 1) \div ClusterBytes] = Chain[(k - 1) \div ClusterBytes],
           res' = "FR_OK" => btr = 0,
           res' = "FR_INT_ERR" =>
              /\ fptr % ClusterBytes = 0
              /\ LET c == Chain'[fptr \div ClusterBytes]
                 IN  c \in Clusters => c = 2 /\ database = 0
    PROVE  FileInv'
  <1>1. fptr \in Nat /\ btr \in Nat /\ fptr + btr = size /\ Len(out) = fptr
    BY ReadTypesOf
  <1>2. ClusterBytes' = ClusterBytes /\ Clusters' = Clusters /\ UNCHANGED <<database, csize>>
    BY DEF kept, geometry, volume, ClusterBytes, Clusters
  <1>3. ASSUME NEW k \in 1..fptr PROVE out'[k] = ByteOfFile(k - 1)'
    <2>1. out'[k] = ByteOfFile(k - 1)
      BY <1>1, <1>3 DEF FileInv, ReadsTheFile
    <2>2. ByteOfFile(k - 1)' = ByteOfFile(k - 1)
      BY <1>2, <1>3 DEF ByteOfFile
    <2> QED
      BY <2>1, <2>2
  <1>4. Len(out') <= size' /\ (res' = "FR_OK" => Len(out') = size')
    BY <1>1
  <1>5. \A k \in 1..Len(out') : out'[k] = ByteOfFile(k - 1)'
    BY <1>1, <1>3
  <1>6. (res = "FR_INT_ERR" =>
           /\ Len(out) % ClusterBytes = 0
           /\ LET c == Chain[Len(out) \div ClusterBytes]
              IN  c \in Clusters => c = 2 /\ database = 0)'
    BY <1>1, <1>2
  <1>7. ReadsTheFile'
    BY <1>4, <1>5, <1>6 DEF ReadsTheFile
  <1> QED
    BY <1>7 DEF FileInv

LEMMA FileEnds ==
    ASSUME IInv, IInv', FileInv, ReadChainEnds \/ ReadFails \/ ReadDone
    PROVE  FileInv'
  <1>1. /\ pc = "read" /\ pc' = "done" /\ UNCHANGED <<kept, obj, size, fptr, btr, fclust, out>>
    BY DEF ReadChainEnds, ReadFails, ReadDone
  <1>2. CASE ReadChainEnds
    <2>1. btr > 0 /\ res' = "FR_INT_ERR"
      BY <1>2 DEF ReadChainEnds
    <2>2. PICK c \in FatValues : Cluster(c) /\ clst2sect(c) = 0
      BY <1>2 DEF ReadChainEnds
    <2>3. PICK a : a = fptr \div ClusterBytes
      OBVIOUS
    <2>4. /\ c = Chain'[a]
          /\ \A k \in 1..fptr :
                Chain'[(k - 1) \div ClusterBytes] = Chain[(k - 1) \div ClusterBytes]
          /\ fptr % ClusterBytes = 0
      <3>1. TypeOK'
        BY DEF IInv
      <3> QED
        BY <1>1, <2>1, <2>2, <2>3, <3>1, ClusterIs
    <2>5. ASSUME c \in Clusters PROVE c = 2 /\ database = 0
      <3>1. csize \in Nat \ {0} /\ n_fatent \in Nat /\ database \in Nat
        BY <1>1, ReadTypesOf
      <3>2. c - 2 \in Nat
        BY <2>5, <3>1 DEF Clusters
      <3>3. database + csize * (c - 2) = 0
        BY <2>2, <2>5 DEF clst2sect
      <3>4. csize * (c - 2) \in Nat
        BY <3>1, <3>2, Commute
      <3>5. database = 0 /\ csize * (c - 2) = 0
        BY <3>1, <3>3, <3>4
      <3>6. ASSUME c - 2 # 0 PROVE FALSE
        <4>1. csize * 1 <= csize * (c - 2)
          <5> DEFINE e == c - 2
          <5>0. e \in Nat /\ e # 0
            BY <3>2, <3>6
          <5> HIDE DEF e
          <5>1. 1 <= e
            BY <5>0
          <5>2. csize * 1 <= csize * e
            BY <3>1, <5>0, <5>1, Monotone
          <5> QED
            BY <5>2 DEF e
        <4> QED
          BY <3>1, <3>5, <4>1
      <3> QED
        BY <3>2, <3>5, <3>6
    <2> QED
      BY <1>1, <2>1, <2>3, <2>4, <2>5, EndFile
  <1>3. CASE ReadFails \/ ReadDone
    <2>1. UNCHANGED <<fat, obj>> /\ (res' = "FR_DISK_ERR" \/ (res' = "FR_OK" /\ btr = 0))
      BY <1>3 DEF ReadFails, ReadDone
    <2>2. Chain' = Chain
      BY <1>1, <2>1 DEF Chain, Contiguous, exfat, kept, geometry, volume
    <2> QED
      BY <1>1, <2>1, <2>2, EndFile
  <1> QED
    BY <1>2, <1>3

LEMMA FileWhole ==
    ASSUME IInv, IInv', FileInv, ReadWhole
    PROVE  FileInv'
  <1>1. PICK c \in FatValues, m \in Nat : WholeSectors(c, m)
    BY WholeSectorsRead
  <1>2. pc = "read" /\ btr > 0
    BY <1>1 DEF WholeSectors, ReadWhole
  <1> DEFINE n == SectorSize * m
  <1>3. /\ n \in Nat /\ n <= btr /\ n > 0 /\ Cluster(c) /\ clst2sect(c) # 0 /\ Transfer(c, n)
        /\ \A k \in 1..n : csect + ((k - 1) \div SectorSize) < csize
    BY <1>1 DEF WholeSectors
  <1>4. \E i \in Nat : n = SectorSize * i
    OBVIOUS
  <1> HIDE DEF n
  <1> QED
    BY <1>2, <1>3, <1>4, TransferFile

LEMMA FileRest ==
    ASSUME IInv, IInv', FileInv, ReadRest
    PROVE  FileInv'
  <1>1. PICK c \in FatValues : Cluster(c) /\ clst2sect(c) # 0 /\ Transfer(c, btr)
    BY DEF ReadRest
  <1>2. pc = "read" /\ btr \in Nat /\ btr > 0
    BY WordNat DEF ReadRest
  <1>3. \A k \in 1..btr : csect + ((k - 1) \div SectorSize) < csize
    BY RestInCluster
  <1> QED
    BY <1>1, <1>2, <1>3, TransferFile

LEMMA FileStutter ==
    ASSUME FileInv, UNCHANGED vars
    PROVE  FileInv'
  BY DEF FileInv, ReadsTheFile, ByteOfFile, Chain, Leads, ClusterBytes, Clusters, clst2sect,
         Contiguous, exfat, vars, mount_vars, geometry, volume, file

\* The sectors of a file are read in the order of its clusters, whatever the card holds;
\* and f_read says FR_OK when all of them are, FR_INT_ERR when the chain has ended.
THEOREM FileIsRead == Spec => []ReadsTheFile
  <1>1. IInv /\ IInv' /\ FileInv /\ [Next]_vars => FileInv'
    BY FileBefore, FileAlloc, FileWhole, FileRest, FileEnds, FileStutter DEF Next
  <1>2. FileInv => ReadsTheFile
    BY DEF FileInv
  <1> QED
    BY FileInit, <1>1, <1>2, ReadInvariant, PTL DEF Spec

=============================================================================
