---------------------------- MODULE SdLoad_proofs ----------------------------
(***************************************************************************)
(* IInv is an inductive invariant of SdLoad, for any number of slots and   *)
(* paths and any behaviour of the cards, and the safety invariants follow; *)
(* and SdLoad implements LoaderPromise.                                    *)
(*                                                                         *)
(* One lemma per action.  Each begins with what the action does, in terms  *)
(* of the call's own slot, and then goes through the parts of IInv.        *)
(***************************************************************************)
EXTENDS SdLoad, TLAPS

USE DEF NULL, Slots, PCs, Ops, InCall, CardIn

\* A slot paired with a number of pulls so far names a card.
LEMMA CardType == \A s \in 0..NumSlots, n \in 0..MaxPulls : <<s, n>> \in Cards
  BY DEF Cards

\* The serial of a card is a natural number, so serials can be compared.
LEMMA SerialType == \A c \in Cards : c[2] \in Nat
  BY SdLoadAssumption DEF Cards

\* Before load_fat is first called the invariant holds: nothing is mounted or open.
LEMMA InitInv == Init => IInv
  <1> SUFFICES ASSUME Init PROVE IInv
    OBVIOUS
  <1>1. TypeOK
    <2> USE SdLoadAssumption DEF Init
    <2>1. NoCard \in Cards
      BY DEF NoCard, Cards
    <2>2. fs \in [Slots -> [mounted : BOOLEAN, id : Nat, card : Cards]]
      BY <2>1
    <2>3. file \in [id : Nat, card : Cards]
      BY <2>1
    <2>4. image \in Seq(Cards)
      OBVIOUS
    <2>5. /\ iface \in 0..NumSlots /\ FatFs \in 0..NumSlots /\ slot \in 0..NumSlots
          /\ i \in 1..MaxPaths
      OBVIOUS
    <2> QED
      <3>1. /\ serial \in [Slots -> 0..MaxPulls]
            /\ inserted \in [Slots -> BOOLEAN] /\ started \in [Slots -> BOOLEAN]
            /\ ext \in [1..MaxPaths -> {"dol", "cli"}]
        OBVIOUS
      <3>2. /\ Fsid \in Nat /\ num_paths \in 1..MaxPaths /\ pc \in PCs /\ op \in Ops
            /\ res \in BOOLEAN /\ dol \in BOOLEAN
            /\ args \in {"none", "file", "garbage"}
        OBVIOUS
      <3> QED
        BY <2>2, <2>3, <2>4, <2>5, <3>1, <3>2 DEF TypeOK
  <1>2. PlaceInv /\ DeviceInv /\ MountInv
    BY DEF Init, PlaceInv, DeviceInv, MountInv
  <1>3. CardInv /\ LoadInv
    BY DEF Init, CardInv, LoadInv
  <1>4. ImageFromMountedCard
    BY DEF Init, ImageFromMountedCard
  <1> QED
    BY <1>1, <1>2, <1>3, <1>4 DEF IInv

\* f_mount makes the object of this call the registered one; the object of the
\* previous call loses its volume with its frame, but keeps its id and card.
LEMMA LoadFatInv == IInv /\ LoadFat => IInv'
  <1> SUFFICES ASSUME IInv, LoadFat PROVE IInv'
    OBVIOUS
  <1> USE SdLoadAssumption
  <1>1. /\ pc = "idle" /\ ~res /\ slot < NumSlots
        /\ slot' = slot + 1 /\ iface' = slot' /\ FatFs' = slot'
        /\ op' = "f_mount" /\ pc' = "startup" /\ i' = 1
        /\ UNCHANGED <<inserted, serial, started, Fsid, ext, dol, image, args,
                       num_paths, file, res>>
    BY DEF LoadFat, env, memory
  <1>2. slot' \in Slots
    BY <1>1 DEF IInv, TypeOK
  <1>3. /\ fs' \in [Slots -> [mounted : BOOLEAN, id : Nat, card : Cards]]
        /\ \A s \in Slots : fs'[s].id = fs[s].id /\ fs'[s].card = fs[s].card
        /\ ~fs'[slot'].mounted
    <2>1. ASSUME NEW s \in Slots, NEW f, f = [fs[s] EXCEPT !.mounted = FALSE]
          PROVE  /\ f \in [mounted : BOOLEAN, id : Nat, card : Cards]
                 /\ f.id = fs[s].id /\ f.card = fs[s].card /\ ~f.mounted
      <3>1. fs[s] \in [mounted : BOOLEAN, id : Nat, card : Cards]
        BY <2>1 DEF IInv, TypeOK
      <3> QED
        BY <2>1, <3>1
    <2>2. \A s \in Slots : fs'[s] = IF s \in {FatFs, slot'}
                                    THEN [fs[s] EXCEPT !.mounted = FALSE] ELSE fs[s]
      BY DEF LoadFat
    <2>3. fs' = [s \in Slots |-> fs'[s]]
      BY DEF LoadFat
    <2>4. \A s \in Slots : /\ fs'[s] \in [mounted : BOOLEAN, id : Nat, card : Cards]
                           /\ fs'[s].id = fs[s].id /\ fs'[s].card = fs[s].card
      BY <2>1, <2>2 DEF IInv, TypeOK
    <2>5. ~fs'[slot'].mounted
      BY <1>2, <2>1, <2>2
    <2> QED
      BY <2>3, <2>4, <2>5
  <1>4. TypeOK'
    <2>1. i' \in 1..MaxPaths /\ slot' \in 0..NumSlots
      BY <1>1, <1>2
    <2> QED
      BY <1>1, <1>3, <2>1 DEF IInv, TypeOK
  <1>5. PlaceInv'
    BY <1>1, <1>2, <1>3 DEF PlaceInv
  <1>6. DeviceInv'
    BY <1>1, <1>2, <1>3 DEF DeviceInv
  <1>7. ~dol /\ image = <<>>
    BY <1>1 DEF IInv, LoadInv
  <1>8. MountInv'
    <2>1. \A s \in Slots : fs[s].id # 0 => ~started[s] /\ ~(s > slot)
      BY <1>1 DEF IInv, MountInv
    <2>2. \A s \in Slots : s > slot' => s > slot
      BY <1>1 DEF IInv, TypeOK
    <2>3. ~(slot' <= slot)
      BY <1>1 DEF IInv, TypeOK
    <2> QED
      BY <1>1, <1>2, <1>3, <2>1, <2>2, <2>3 DEF MountInv, IInv, TypeOK
  <1>9. CardInv'
    BY <1>1, <1>2, <1>3 DEF IInv, CardInv
  <1>10. LoadInv'
    BY <1>1, <1>7 DEF IInv, LoadInv
  <1>11. ImageFromMountedCard'
    BY <1>1, <1>7 DEF ImageFromMountedCard
  <1> QED
    BY <1>4, <1>5, <1>6, <1>8, <1>9, <1>10, <1>11 DEF IInv

-----------------------------------------------------------------------------
(* The two ways mount_volume ends, for whoever called it.                  *)

FsType == [Slots -> [mounted : BOOLEAN, id : Nat, card : Cards]]

\* A failed mount leaves the volume invalid, whatever became of the device.
LEMMA MountFailedInv ==
  ASSUME IInv, pc \in {"startup", "probe", "find"}, MountFailed,
         iface' \in {NULL, slot},
         started' \in [Slots -> BOOLEAN],
         \A s \in Slots : started'[s] => started[s],
         UNCHANGED <<inserted, serial, FatFs, fs, Fsid, slot, num_paths, ext, file,
                     dol, image, args>>
  PROVE  IInv'
  <1> USE SdLoadAssumption
  <1>1. /\ slot \in Slots /\ ~fs[slot].mounted /\ FatFs = slot
        /\ op # "f_mount" <=> fs[slot].id # 0
        /\ res <=> op = "f_open_cli"
        /\ res <=> dol
        /\ ~dol => image = <<>>
    BY DEF IInv, PlaceInv, MountInv, LoadInv
  <1>2. /\ pc' \in {"idle", "startup", "unmount"}
        /\ op' \in Ops
        /\ op' = "f_mount" <=> op = "f_mount"
        /\ pc' = "idle" <=> op = "f_mount"
        /\ op' = "f_open_cli" <=> op = "f_open_cli"
        /\ pc' = "unmount" => op' # "f_mount"
        /\ res' = res
        /\ i' \in 1..MaxPaths
    <2>1. /\ op \in Ops /\ res \in BOOLEAN
          /\ i \in 1..MaxPaths /\ num_paths \in 1..MaxPaths
          /\ pc # "idle"
      BY DEF IInv, TypeOK
    <2>2. CASE op = "f_mount"
      BY <1>1, <2>1, <2>2 DEF MountFailed
    <2>3. CASE op = "f_getlabel"
      BY <1>1, <2>1, <2>3 DEF MountFailed
    <2>4. CASE op = "f_open"
      BY <1>1, <2>1, <2>4 DEF MountFailed
    <2>5. CASE op = "f_open_cli"
      BY <1>1, <2>1, <2>5 DEF MountFailed
    <2> QED
      BY <2>1, <2>2, <2>3, <2>4, <2>5
  <1>3. TypeOK'
    <2>1. iface' \in 0..NumSlots
      BY <1>1
    <2>2. pc' \in PCs
      BY <1>2
    <2> QED
      BY <1>2, <2>1, <2>2 DEF IInv, TypeOK
  <1>4. PlaceInv'
    BY <1>1, <1>2 DEF PlaceInv
  <1>5. DeviceInv'
    BY <1>1, <1>2 DEF DeviceInv
  <1>6. MountInv'
    BY <1>1, <1>2 DEF IInv, MountInv
  <1>7. CardInv'
    BY <1>1, <1>2 DEF IInv, CardInv, Card
  <1>8. LoadInv'
    BY <1>1, <1>2 DEF IInv, LoadInv
  <1>9. ImageFromMountedCard'
    <2>2. CASE dol
      BY <1>1, <1>2, <2>2 DEF IInv, ImageFromMountedCard, Card
    <2>3. CASE ~dol
      BY <1>1, <2>3 DEF ImageFromMountedCard
    <2> QED
      BY <2>2, <2>3
  <1> QED
    BY <1>3, <1>4, <1>5, <1>6, <1>7, <1>8, <1>9 DEF IInv

\* A mount that succeeds finds the device of the slot with a card in it.
LEMMA MountDoneInv ==
  ASSUME IInv, pc \in {"status", "find"}, MountDone,
         iface = slot, started[slot], inserted[slot],
         fs' \in FsType, Fsid' \in Nat,
         \A s \in Slots \ {slot} : fs'[s] = fs[s],
         fs'[slot].mounted, fs'[slot].id # 0,
         fs'[slot].card[1] = slot, fs'[slot].card[2] <= serial[slot],
         UNCHANGED <<inserted, serial, iface, started, FatFs, slot, num_paths, i,
                     ext, file, dol, image, args, res>>
  PROVE  IInv'
  <1> USE SdLoadAssumption
  <1>1. /\ slot \in Slots /\ FatFs = slot
        /\ res <=> op = "f_open_cli"
        /\ res <=> dol
        /\ ~dol => image = <<>>
    BY DEF IInv, PlaceInv, LoadInv
  <1>2. /\ pc' \in {"status", "entry"}
        /\ op' \in Ops \ {"f_mount"}
        /\ pc' = "entry" => op' \in {"f_open", "f_open_cli"}
        /\ op' = "f_open_cli" <=> op = "f_open_cli"
    BY DEF MountDone
  <1>3. TypeOK'
    BY <1>1, <1>2 DEF IInv, TypeOK, FsType
  <1>4. PlaceInv' /\ DeviceInv'
    BY <1>1, <1>2 DEF PlaceInv, DeviceInv
  <1>5. MountInv'
    BY <1>1, <1>2 DEF IInv, MountInv
  <1>6. CardInv'
    BY <1>1, <1>2 DEF IInv, CardInv, Card
  <1>7. LoadInv'
    BY <1>1, <1>2 DEF IInv, LoadInv
  <1>8. ImageFromMountedCard'
    <2>2. CASE dol
      BY <1>1, <1>2, <2>2 DEF IInv, ImageFromMountedCard
    <2>3. CASE ~dol
      BY <1>1, <2>3 DEF ImageFromMountedCard
    <2> QED
      BY <2>2, <2>3
  <1> QED
    BY <1>3, <1>4, <1>5, <1>6, <1>7, <1>8 DEF IInv

-----------------------------------------------------------------------------
(* mount_volume and disk_initialize                                        *)

\* disk_status either confirms a volume whose device is started, or drops the volume.
LEMMA StatusInv == IInv /\ Status => IInv'
  <1> SUFFICES ASSUME IInv, Status PROVE IInv'
    OBVIOUS
  <1> USE SdLoadAssumption
  <1>1. /\ pc = "status" /\ slot \in Slots /\ FatFs = slot /\ op # "f_mount"
        /\ fs[slot].mounted /\ iface = slot /\ started[slot]
        /\ fs \in FsType
    BY DEF Status, IInv, TypeOK, PlaceInv, DeviceInv, FsType
  <1>2. UNCHANGED <<inserted, serial, iface, started, FatFs, Fsid, ext, dol, image,
                    args, slot, num_paths, i, file, res>>
    BY DEF Status, env, shim, memory
  <1>3. /\ fs[slot].id # 0
        /\ fs[slot].card[1] = slot /\ fs[slot].card[2] <= serial[slot]
    BY <1>1 DEF IInv, MountInv, CardInv
  <1>4. CASE inserted[slot]
    <2>1. MountDone /\ fs' = fs
      BY <1>1, <1>4 DEF Status
    <2>2. Fsid \in Nat
      BY DEF IInv, TypeOK
    <2> QED
      BY <1>1, <1>2, <1>3, <1>4, <2>1, <2>2, MountDoneInv
  <1>5. CASE ~inserted[slot]
    <2>1. /\ fs' = [fs EXCEPT ![slot].mounted = FALSE]
          /\ pc' = "startup" /\ op' = op
      BY <1>1, <1>5 DEF Status
    <2>2. /\ fs' \in FsType
          /\ \A s \in Slots : fs'[s].id = fs[s].id /\ fs'[s].card = fs[s].card
          /\ ~fs'[slot].mounted
      BY <1>1, <2>1 DEF FsType
    <2>3. fs[slot].card # Card(slot)
      BY <1>1, <1>5 DEF IInv, CardInv
    <2>4. TypeOK'
      BY <1>2, <2>1, <2>2 DEF IInv, TypeOK, FsType
    <2>5. PlaceInv' /\ DeviceInv'
      BY <1>1, <1>2, <2>1, <2>2 DEF PlaceInv, DeviceInv
    <2>6. MountInv'
      BY <1>1, <1>2, <2>1, <2>2 DEF IInv, MountInv
    <2>7. CardInv'
      BY <1>1, <1>2, <2>1, <2>2, <2>3 DEF IInv, CardInv, Card
    <2>8. LoadInv'
      BY <1>1, <1>2, <2>1 DEF IInv, LoadInv
    <2>9. ImageFromMountedCard'
      BY <1>1, <1>2, <2>1, <2>2 DEF IInv, ImageFromMountedCard, Card
    <2> QED
      BY <2>4, <2>5, <2>6, <2>7, <2>8, <2>9 DEF IInv
  <1> QED
    BY <1>4, <1>5

\* Starting a device, or failing to, makes no dropped volume count as mounted again.
LEMMA StartupInv == IInv /\ Startup => IInv'
  <1> SUFFICES ASSUME IInv, Startup PROVE IInv'
    OBVIOUS
  <1> USE SdLoadAssumption
  <1>1. /\ pc = "startup" /\ slot \in Slots /\ ~fs[slot].mounted /\ FatFs = slot
        /\ iface \in {NULL, slot} /\ started \in [Slots -> BOOLEAN]
    BY DEF Startup, IInv, TypeOK, PlaceInv, DeviceInv
  <1>2. UNCHANGED <<inserted, serial, FatFs, fs, Fsid, ext, dol, image, args,
                    slot, num_paths, file>>
    BY DEF Startup, env, volume, memory
  <1>3. CASE /\ iface # NULL
             /\ started' = [started EXCEPT ![iface] = TRUE]
             /\ pc' = "probe"
             /\ UNCHANGED <<iface, op, i, res>>
    <2>1. iface = slot
      BY <1>1, <1>3
    <2>2. /\ started' \in [Slots -> BOOLEAN]
          /\ started'[slot]
          /\ \A s \in Slots \ {slot} : started'[s] = started[s]
      BY <1>1, <1>3, <2>1
    <2>3. TypeOK'
      BY <1>2, <1>3, <2>2 DEF IInv, TypeOK
    <2>4. PlaceInv' /\ DeviceInv'
      BY <1>1, <1>2, <1>3, <2>1, <2>2 DEF PlaceInv, DeviceInv
    <2>5. MountInv'
      BY <1>1, <1>2, <1>3, <2>2 DEF IInv, MountInv
    <2>6. CardInv'
      BY <1>1, <1>2, <1>3 DEF IInv, CardInv, Card
    <2>7. LoadInv'
      BY <1>1, <1>2, <1>3 DEF IInv, LoadInv
    <2>8. ImageFromMountedCard'
      BY <1>2, <1>3 DEF IInv, ImageFromMountedCard, Card
    <2> QED
      BY <2>3, <2>4, <2>5, <2>6, <2>7, <2>8 DEF IInv
  <1>4. CASE /\ started' = [s \in Slots |-> started[s] /\ s # iface]
             /\ iface' = NULL
             /\ MountFailed
    <2>1. /\ started' \in [Slots -> BOOLEAN]
          /\ \A s \in Slots : started'[s] => started[s]
      BY <1>1, <1>4
    <2> QED
      BY <1>1, <1>2, <1>4, <2>1, MountFailedInv
  <1> QED
    BY <1>3, <1>4 DEF Startup

\* A device without a card is shut down, and no valid volume is left on it.
LEMMA ProbeInv == IInv /\ Probe => IInv'
  <1> SUFFICES ASSUME IInv, Probe PROVE IInv'
    OBVIOUS
  <1> USE SdLoadAssumption
  <1>1. /\ pc = "probe" /\ slot \in Slots /\ ~fs[slot].mounted /\ FatFs = slot
        /\ iface = slot /\ started[slot] /\ started \in [Slots -> BOOLEAN]
    BY DEF Probe, IInv, TypeOK, PlaceInv, DeviceInv
  <1>2. UNCHANGED <<inserted, serial, FatFs, fs, Fsid, ext, dol, image, args,
                    slot, num_paths, file>>
    BY DEF Probe, env, volume, memory
  <1>3. CASE inserted[slot]
    <2>1. pc' = "find" /\ UNCHANGED <<iface, started, op, i, res>>
      BY <1>1, <1>3 DEF Probe, shim
    <2>2. TypeOK'
      BY <1>2, <2>1 DEF IInv, TypeOK
    <2>3. PlaceInv' /\ DeviceInv'
      BY <1>1, <1>2, <2>1 DEF PlaceInv, DeviceInv
    <2>4. MountInv' /\ CardInv'
      BY <1>1, <1>2, <2>1 DEF IInv, MountInv, CardInv, Card
    <2>5. LoadInv'
      BY <1>1, <1>2, <2>1 DEF IInv, LoadInv
    <2>6. ImageFromMountedCard'
      BY <1>2, <2>1 DEF IInv, ImageFromMountedCard, Card
    <2> QED
      BY <2>2, <2>3, <2>4, <2>5, <2>6 DEF IInv
  <1>4. CASE ~inserted[slot]
    <2>1. /\ started' = [started EXCEPT ![slot] = FALSE]
          /\ iface' = NULL
          /\ MountFailed
      BY <1>1, <1>4 DEF Probe
    <2>2. /\ started' \in [Slots -> BOOLEAN]
          /\ \A s \in Slots : started'[s] => started[s]
      BY <1>1, <2>1
    <2> QED
      BY <1>1, <1>2, <2>1, <2>2, MountFailedInv
  <1> QED
    BY <1>3, <1>4

\* A volume that is found is on the started device and gets the id of this mount.
LEMMA FindVolumeInv == IInv /\ FindVolume => IInv'
  <1> SUFFICES ASSUME IInv, FindVolume PROVE IInv'
    OBVIOUS
  <1> USE SdLoadAssumption
  <1>1. /\ pc = "find" /\ slot \in Slots /\ FatFs = slot
        /\ iface = slot /\ started[slot] /\ started \in [Slots -> BOOLEAN]
        /\ fs \in FsType /\ Fsid \in Nat /\ serial[slot] \in 0..MaxPulls
    BY DEF FindVolume, IInv, TypeOK, PlaceInv, DeviceInv, FsType
  <1>2. UNCHANGED <<inserted, serial, iface, started, FatFs, ext, dol, image, args,
                    slot, num_paths, file>>
    BY DEF FindVolume, env, shim, memory
  <1>3. CASE /\ CardIn
             /\ Fsid' = Fsid + 1
             /\ fs' = [fs EXCEPT ![FatFs] = [mounted |-> TRUE, id |-> Fsid',
                                             card |-> Card(iface)]]
             /\ MountDone
             /\ UNCHANGED <<i, res>>
    <2>1. inserted[slot] /\ Fsid' \in Nat /\ Fsid' # 0
      BY <1>1, <1>3
    <2>2. Card(slot) \in Cards
      BY <1>1, CardType DEF Card
    <2>3. fs' = [fs EXCEPT ![slot] = [mounted |-> TRUE, id |-> Fsid',
                                      card |-> Card(slot)]]
      BY <1>1, <1>3
    <2>4. /\ fs' \in FsType
          /\ \A s \in Slots \ {slot} : fs'[s] = fs[s]
          /\ fs'[slot].mounted /\ fs'[slot].id # 0
          /\ fs'[slot].card = Card(slot)
      BY <1>1, <2>1, <2>2, <2>3 DEF FsType
    <2>5. fs'[slot].card[1] = slot /\ fs'[slot].card[2] <= serial[slot]
      BY <1>1, <2>4 DEF Card
    <2> QED
      BY <1>1, <1>2, <1>3, <2>1, <2>4, <2>5, MountDoneInv
  <1>4. CASE MountFailed /\ UNCHANGED <<fs, Fsid>>
    BY <1>1, <1>2, <1>4, MountFailedInv
  <1> QED
    BY <1>3, <1>4 DEF FindVolume

-----------------------------------------------------------------------------
(* The loop over the paths                                                 *)

\* Where a valid volume is used, its device and its id are at hand.
LEMMA MountedFacts ==
  ASSUME IInv, pc \in {"status", "entry", "validate", "sector", "close", "cli_read"}
  PROVE  /\ slot \in Slots /\ FatFs = slot /\ iface = slot
         /\ fs[slot].mounted /\ fs[slot].id # 0 /\ fs[slot].id \in Nat
         /\ op # "f_mount"
         /\ serial[slot] \in 0..MaxPulls
         /\ Card(slot) \in Cards
  <1>1. /\ slot \in Slots /\ FatFs = slot /\ fs[slot].mounted /\ op # "f_mount"
    BY DEF IInv, PlaceInv
  <1>2. iface = slot /\ fs[slot].id # 0
    BY <1>1 DEF IInv, DeviceInv, MountInv
  <1>3. serial[slot] \in 0..MaxPulls /\ fs[slot].id \in Nat
    BY <1>1 DEF IInv, TypeOK
  <1>4. Card(slot) \in Cards
    BY <1>1, <1>3, CardType, SdLoadAssumption DEF Card
  <1> QED
    BY <1>1, <1>2, <1>3, <1>4

\* f_open of a DOL yields a file object of the volume mounted in this call.
LEMMA OpenDolInv == IInv /\ OpenDol => IInv'
  <1> SUFFICES ASSUME IInv, OpenDol PROVE IInv'
    OBVIOUS
  <1> USE SdLoadAssumption
  <1>1. pc = "entry" /\ op = "f_open" /\ ~res /\ ~dol /\ image = <<>>
    BY DEF OpenDol, IInv, LoadInv
  <1>2. /\ slot \in Slots /\ FatFs = slot /\ iface = slot
        /\ fs[slot].mounted /\ fs[slot].id # 0 /\ fs[slot].id \in Nat
        /\ Card(slot) \in Cards
    BY <1>1, MountedFacts
  <1>3. UNCHANGED <<inserted, serial, iface, started, FatFs, fs, Fsid, ext, args,
                    slot, num_paths, res>>
    BY DEF OpenDol, env, shim, volume
  <1>4. CASE NextPath /\ UNCHANGED <<file, dol, image>>
    <2>1. /\ pc' \in {"status", "unmount"} /\ op' = "f_open"
          /\ i' \in 1..MaxPaths
      <3>1. i \in 1..MaxPaths /\ num_paths \in 1..MaxPaths
        BY DEF IInv, TypeOK
      <3> QED
        BY <1>1, <1>2, <1>4, <3>1 DEF NextPath, EnterMount, MountFirst
    <2>2. TypeOK'
      BY <1>3, <1>4, <2>1 DEF IInv, TypeOK
    <2>3. PlaceInv' /\ DeviceInv'
      BY <1>1, <1>2, <1>3, <2>1 DEF IInv, PlaceInv, DeviceInv
    <2>4. MountInv' /\ CardInv'
      BY <1>1, <1>2, <1>3, <2>1 DEF IInv, MountInv, CardInv, Card
    <2>5. LoadInv'
      BY <1>1, <1>3, <1>4, <2>1 DEF IInv, LoadInv
    <2>6. ImageFromMountedCard'
      BY <1>1, <1>4 DEF ImageFromMountedCard
    <2> QED
      BY <2>2, <2>3, <2>4, <2>5, <2>6 DEF IInv
  <1>5. CASE /\ file' = [id |-> fs[FatFs].id, card |-> Card(iface)]
             /\ dol' = TRUE
             /\ image' = <<>>
             /\ pc' = "validate"
             /\ UNCHANGED <<i, op>>
    <2>1. file' \in [id : Nat, card : Cards] /\ file'.id = fs[slot].id
      BY <1>2, <1>5
    <2>2. TypeOK'
      <3>1. /\ dol' \in BOOLEAN /\ image' \in Seq(Cards) /\ pc' \in PCs
            /\ op' \in Ops /\ i' \in 1..MaxPaths
        BY <1>5 DEF IInv, TypeOK
      <3> QED
        BY <1>3, <2>1, <3>1 DEF IInv, TypeOK
    <2>3. PlaceInv' /\ DeviceInv'
      BY <1>1, <1>2, <1>3, <1>5 DEF IInv, PlaceInv, DeviceInv
    <2>4. MountInv' /\ CardInv'
      BY <1>1, <1>2, <1>3, <1>5 DEF IInv, MountInv, CardInv, Card
    <2>5. LoadInv'
      BY <1>1, <1>2, <1>3, <1>5, <2>1 DEF IInv, LoadInv
    <2>6. ImageFromMountedCard'
      BY <1>5 DEF ImageFromMountedCard
    <2> QED
      BY <2>2, <2>3, <2>4, <2>5, <2>6 DEF IInv
  <1> QED
    BY <1>4, <1>5 DEF OpenDol

\* validate reads a file object of the volume mounted in this call.
LEMMA ValidateInv == IInv /\ Validate => IInv'
  <1> SUFFICES ASSUME IInv, Validate PROVE IInv'
    OBVIOUS
  <1>1. /\ pc = "validate" /\ pc' \in {"sector", "close"}
        /\ UNCHANGED <<inserted, serial, iface, started, FatFs, fs, Fsid, ext, dol,
                       image, args, slot, num_paths, i, file, op, res>>
    BY DEF Validate, env, shim, volume, memory
  <1>2. slot \in Slots /\ fs[slot].mounted /\ fs[slot].id # 0
    BY <1>1, MountedFacts
  <1>3. TypeOK'
    BY <1>1 DEF IInv, TypeOK
  <1>4. PlaceInv' /\ DeviceInv'
    BY <1>1, <1>2 DEF IInv, PlaceInv, DeviceInv
  <1>5. MountInv' /\ CardInv'
    BY <1>1, <1>2 DEF IInv, MountInv, CardInv, Card
  <1>6. LoadInv'
    BY <1>1 DEF IInv, LoadInv
  <1>7. ImageFromMountedCard'
    BY <1>1 DEF IInv, ImageFromMountedCard, Card
  <1> QED
    BY <1>3, <1>4, <1>5, <1>6, <1>7 DEF IInv

\* The part of the DOL that is read comes from the card now in the slot.
LEMMA ReadSectorsInv == IInv /\ ReadSectors => IInv'
  <1> SUFFICES ASSUME IInv, ReadSectors PROVE IInv'
    OBVIOUS
  <1>1. /\ pc = "sector" /\ pc' \in {"sector", "close"}
        /\ UNCHANGED <<inserted, serial, iface, started, FatFs, fs, Fsid, ext, dol,
                       args, slot, num_paths, i, file, op, res>>
    BY DEF ReadSectors, env, shim, volume
  <1>2. /\ slot \in Slots /\ fs[slot].mounted /\ fs[slot].id # 0
        /\ iface = slot /\ Card(slot) \in Cards /\ image \in Seq(Cards)
    BY <1>1, MountedFacts DEF IInv, TypeOK
  <1>3. image' = Append(image, Card(slot)) \/ image' = image
    BY <1>2 DEF ReadSectors
  <1>4. image' \in Seq(Cards)
    BY <1>2, <1>3
  <1>5. TypeOK'
    BY <1>1, <1>4 DEF IInv, TypeOK
  <1>6. PlaceInv' /\ DeviceInv'
    BY <1>1, <1>2 DEF IInv, PlaceInv, DeviceInv
  <1>7. MountInv' /\ CardInv'
    BY <1>1, <1>2 DEF IInv, MountInv, CardInv, Card
  <1>8. dol
    BY <1>1 DEF IInv, LoadInv
  <1>9. LoadInv'
    BY <1>1, <1>8 DEF IInv, LoadInv
  <1>10. ImageFromMountedCard'
    <2>1. CASE image' = image
      BY <1>1, <2>1 DEF IInv, ImageFromMountedCard, Card
    <2>2. CASE image' = Append(image, Card(slot))
      <3>1. /\ Len(image') = Len(image) + 1
            /\ image'[Len(image) + 1] = Card(slot)
            /\ \A k \in 1..Len(image) : image'[k] = image[k]
            /\ Len(image) \in Nat
        BY <1>2, <2>2
      <3>2. ASSUME NEW k \in 1..Len(image')
            PROVE  /\ image'[k][1] = slot
                   /\ op = "f_open" /\ fs[slot].card = Card(slot) =>
                          image'[k] = Card(slot)
        <4>1. CASE k \in 1..Len(image)
          BY <3>1, <4>1 DEF IInv, ImageFromMountedCard
        <4>2. CASE k = Len(image) + 1
          BY <3>1, <4>2 DEF Card
        <4> QED
          BY <3>1, <4>1, <4>2
      <3> QED
        BY <1>1, <3>2 DEF ImageFromMountedCard, Card
    <2> QED
      BY <1>3, <2>1, <2>2
  <1> QED
    BY <1>5, <1>6, <1>7, <1>9, <1>10 DEF IInv

\* After the DOL the path becomes that of a CLI file, and no DOL is looked for again.
LEMMA CloseDolInv == IInv /\ CloseDol => IInv'
  <1> SUFFICES ASSUME IInv, CloseDol PROVE IInv'
    OBVIOUS
  <1>1. /\ pc = "close" /\ pc' = "status" /\ op' = "f_open_cli" /\ res' = TRUE
        /\ ext' = [ext EXCEPT ![i] = "cli"]
        /\ UNCHANGED <<inserted, serial, iface, started, FatFs, fs, Fsid, dol,
                       image, args, slot, num_paths, i, file>>
    BY MountedFacts DEF CloseDol, EnterMount, MountFirst, env, shim, volume
  <1>2. /\ slot \in Slots /\ fs[slot].mounted /\ fs[slot].id # 0
    BY <1>1, MountedFacts
  <1>3. dol
    BY <1>1 DEF IInv, LoadInv
  <1>4. TypeOK'
    BY <1>1 DEF IInv, TypeOK
  <1>5. PlaceInv' /\ DeviceInv'
    BY <1>1, <1>2 DEF IInv, PlaceInv, DeviceInv
  <1>6. MountInv' /\ CardInv'
    BY <1>1, <1>2 DEF IInv, MountInv, CardInv, Card
  <1>7. LoadInv'
    BY <1>1, <1>3 DEF LoadInv
  <1>8. ImageFromMountedCard'
    BY <1>1 DEF IInv, ImageFromMountedCard
  <1> QED
    BY <1>4, <1>5, <1>6, <1>7, <1>8 DEF IInv

\* f_open of a CLI file, like that of a DOL, yields a file of this mount.
LEMMA OpenCliInv == IInv /\ OpenCli => IInv'
  <1> SUFFICES ASSUME IInv, OpenCli PROVE IInv'
    OBVIOUS
  <1>1. /\ pc = "entry" /\ pc' \in {"unmount", "cli_read"} /\ op = "f_open_cli"
        /\ UNCHANGED <<inserted, serial, iface, started, FatFs, fs, Fsid, ext, dol,
                       image, args, slot, num_paths, i, op, res>>
    BY DEF OpenCli, env, shim, volume, memory
  <1>2. /\ slot \in Slots /\ FatFs = slot /\ iface = slot
        /\ fs[slot].mounted /\ fs[slot].id # 0 /\ fs[slot].id \in Nat
        /\ Card(slot) \in Cards /\ file \in [id : Nat, card : Cards]
    BY <1>1, MountedFacts DEF IInv, TypeOK
  <1>3. /\ file' \in [id : Nat, card : Cards]
        /\ pc' = "cli_read" => file'.id = fs[slot].id
    BY <1>2 DEF OpenCli
  <1>4. TypeOK'
    BY <1>1, <1>3 DEF IInv, TypeOK
  <1>5. PlaceInv' /\ DeviceInv'
    BY <1>1, <1>2 DEF IInv, PlaceInv, DeviceInv
  <1>6. MountInv' /\ CardInv'
    BY <1>1, <1>2 DEF IInv, MountInv, CardInv, Card
  <1>7. LoadInv'
    BY <1>1, <1>2, <1>3 DEF IInv, LoadInv
  <1>8. ImageFromMountedCard'
    BY <1>1 DEF IInv, ImageFromMountedCard
  <1> QED
    BY <1>4, <1>5, <1>6, <1>7, <1>8 DEF IInv

\* Reading a CLI file leaves the DOL that was read before it untouched.
LEMMA ReadCliInv == IInv /\ ReadCli => IInv'
  <1> SUFFICES ASSUME IInv, ReadCli PROVE IInv'
    OBVIOUS
  <1>1. /\ pc = "cli_read" /\ pc' = "unmount" /\ op = "f_open_cli"
        /\ args' \in {"file", "garbage"}
        /\ UNCHANGED <<inserted, serial, iface, started, FatFs, fs, Fsid, ext, dol,
                       image, slot, num_paths, i, file, op, res>>
    BY DEF ReadCli, env, shim, volume, IInv, PlaceInv
  <1>2. slot \in Slots /\ fs[slot].mounted /\ fs[slot].id # 0
    BY <1>1, MountedFacts
  <1>3. TypeOK'
    BY <1>1 DEF IInv, TypeOK
  <1>4. PlaceInv' /\ DeviceInv'
    BY <1>1, <1>2 DEF IInv, PlaceInv, DeviceInv
  <1>5. MountInv' /\ CardInv'
    BY <1>1, <1>2 DEF IInv, MountInv, CardInv, Card
  <1>6. LoadInv'
    BY <1>1 DEF IInv, LoadInv
  <1>7. ImageFromMountedCard'
    BY <1>1 DEF IInv, ImageFromMountedCard
  <1> QED
    BY <1>3, <1>4, <1>5, <1>6, <1>7 DEF IInv

\* The shutdown at the end of load_fat, or the null call, leaves the buffer and its result.
LEMMA UnmountInv == IInv /\ Unmount => IInv'
  <1> SUFFICES ASSUME IInv, Unmount PROVE IInv'
    OBVIOUS
  <1> USE SdLoadAssumption
  <1>1. /\ pc = "unmount" /\ slot \in Slots /\ iface \in {NULL, slot}
        /\ op # "f_mount" /\ fs[slot].id # 0 /\ FatFs = slot
        /\ started \in [Slots -> BOOLEAN]
        /\ UNCHANGED <<inserted, serial, FatFs, fs, Fsid, ext, dol, image, args,
                       slot, num_paths, i, file, op, res>>
    BY DEF Unmount, IInv, TypeOK, PlaceInv, DeviceInv, MountInv, env, volume, memory
  <1>2. LoadInv' /\ pc' \in {"idle", "fault"}
    BY <1>1 DEF Unmount, IInv, LoadInv
  <1>3. ImageFromMountedCard'
    BY <1>1 DEF IInv, ImageFromMountedCard, Card
  <1>4. CASE iface = NULL
    <2>1. pc' = "fault" /\ UNCHANGED <<iface, started>>
      BY <1>1, <1>4 DEF Unmount, shim
    <2>2. TypeOK'
      BY <1>1, <2>1 DEF IInv, TypeOK
    <2>3. PlaceInv' /\ DeviceInv'
      BY <1>1, <2>1 DEF IInv, PlaceInv, DeviceInv
    <2>4. MountInv'
      BY <1>1, <2>1 DEF IInv, MountInv
    <2>5. CardInv'
      BY <1>1, <1>4, <2>1 DEF IInv, CardInv, Card
    <2> QED
      BY <1>2, <1>3, <2>2, <2>3, <2>4, <2>5 DEF IInv
  <1>5. CASE iface = slot /\ iface # NULL
    <2>1. /\ pc' = "idle" /\ iface' = NULL
          /\ started' = [started EXCEPT ![slot] = FALSE]
      BY <1>1, <1>5 DEF Unmount
    <2>2. /\ started' \in [Slots -> BOOLEAN] /\ ~started'[slot]
          /\ \A s \in Slots : started'[s] => started[s]
      BY <1>1, <2>1
    <2>3. TypeOK'
      BY <1>1, <2>1, <2>2 DEF IInv, TypeOK
    <2>4. PlaceInv' /\ DeviceInv'
      BY <1>1, <2>1 DEF IInv, PlaceInv, DeviceInv
    <2>5. MountInv'
      BY <1>1, <2>1, <2>2 DEF IInv, MountInv
    <2>6. CardInv'
      BY <1>1, <2>1 DEF IInv, CardInv
    <2> QED
      BY <1>2, <1>3, <2>3, <2>4, <2>5, <2>6 DEF IInv
  <1> QED
    BY <1>1, <1>4, <1>5

-----------------------------------------------------------------------------
(* The user's steps.                                                       *)

\* No volume can describe a card put in after a pull: its serial is new.
LEMMA PullInv == \A s \in Slots : IInv /\ Pull(s) => IInv'
  <1> SUFFICES ASSUME NEW u \in Slots, IInv, Pull(u) PROVE IInv'
    OBVIOUS
  <1> USE SdLoadAssumption
  <1>1. /\ inserted[u] /\ serial[u] < MaxPulls
        /\ inserted' = [inserted EXCEPT ![u] = FALSE]
        /\ serial' = [serial EXCEPT ![u] = @ + 1]
        /\ UNCHANGED <<iface, started, FatFs, fs, Fsid, ext, dol, image, args,
                       slot, num_paths, i, file, pc, op, res>>
    BY DEF Pull, shim, volume, memory, loader
  <1>2. /\ serial \in [Slots -> 0..MaxPulls] /\ inserted \in [Slots -> BOOLEAN]
        /\ slot \in 0..NumSlots
    BY DEF IInv, TypeOK
  <1>3. /\ serial' \in [Slots -> 0..MaxPulls] /\ inserted' \in [Slots -> BOOLEAN]
        /\ serial'[u] = serial[u] + 1
        /\ \A s \in Slots : s # u => serial'[s] = serial[s] /\ inserted'[s] = inserted[s]
        /\ \A s \in Slots : serial[s] \in Nat /\ serial'[s] \in Nat
    BY <1>1, <1>2
  <1>4. TypeOK'
    BY <1>1, <1>3 DEF IInv, TypeOK
  <1>5. PlaceInv' /\ DeviceInv' /\ MountInv' /\ LoadInv'
    BY <1>1 DEF IInv, PlaceInv, DeviceInv, MountInv, LoadInv
  <1>6. fs[u].id # 0 => fs[u].card # <<u, serial'[u]>>
    <2>1. ASSUME fs[u].id # 0, fs[u].card = <<u, serial'[u]>> PROVE FALSE
      <3>1. fs[u].card[2] <= serial[u]
        BY <2>1 DEF IInv, CardInv
      <3>2. fs[u].card[2] = serial[u] + 1
        BY <1>3, <2>1
      <3>3. serial[u] \in Nat
        BY <1>3
      <3> QED
        BY <3>1, <3>2, <3>3
    <2> QED
      BY <2>1
  <1>7. ASSUME pc # "idle", fs[slot].id # 0
        PROVE  /\ slot \in Slots
               /\ fs[slot].card = Card(slot)' => slot # u /\ fs[slot].card = Card(slot)
    <2>1. slot \in Slots
      BY <1>7 DEF IInv, PlaceInv
    <2>2. slot # u => Card(slot)' = Card(slot)
      BY <1>1, <1>3, <2>1 DEF Card
    <2>3. slot = u => fs[slot].card # Card(slot)'
      BY <1>1, <1>6, <1>7 DEF Card
    <2> QED
      BY <2>1, <2>2, <2>3
  <1>8. pc # "idle" /\ (fs[slot].mounted \/ op # "f_mount") => fs[slot].id # 0
    BY DEF IInv, TypeOK, PlaceInv, MountInv
  <1>9. CardInv'
    <2>1. \A s \in Slots : fs[s].id # 0 =>
              fs[s].card[1] = s /\ fs[s].card[2] <= serial'[s]
      <3> SUFFICES ASSUME NEW s \in Slots, fs[s].id # 0
                   PROVE  fs[s].card[1] = s /\ fs[s].card[2] <= serial'[s]
        OBVIOUS
      <3>1. fs[s].card[1] = s /\ fs[s].card[2] <= serial[s]
        BY DEF IInv, CardInv
      <3>2. fs[s].card[2] \in Nat
        <4>1. fs[s].card \in Cards
          BY DEF IInv, TypeOK
        <4> QED
          BY <4>1, SerialType
      <3>3. serial[s] <= serial'[s]
        <4>1. s = u \/ s # u
          OBVIOUS
        <4> QED
          BY <1>3, <4>1
      <3>4. serial[s] \in Nat /\ serial'[s] \in Nat
        BY <1>3
      <3> QED
        BY <3>1, <3>2, <3>3, <3>4
    <2>2. pc # "idle" /\ fs[slot].mounted /\ fs[slot].card = Card(slot)'
              => inserted'[slot]
      BY <1>3, <1>7, <1>8 DEF IInv, CardInv
    <2>3. pc # "idle" /\ op # "f_mount" /\ (~fs[slot].mounted \/ iface = NULL)
              => fs[slot].card # Card(slot)'
      BY <1>7, <1>8 DEF IInv, CardInv
    <2>4. pc = "fault" => iface = NULL
      BY DEF IInv, CardInv
    <2> QED
      BY <1>1, <2>1, <2>2, <2>3, <2>4 DEF CardInv
  <1>10. ImageFromMountedCard'
    <2> SUFFICES ASSUME NEW k \in 1..Len(image)
                 PROVE  /\ image[k][1] = slot
                        /\ op = "f_open" /\ fs[slot].card = Card(slot)' =>
                               image[k] = Card(slot)'
      BY <1>1 DEF ImageFromMountedCard
    <2>1. /\ image[k][1] = slot
          /\ op = "f_open" /\ fs[slot].card = Card(slot) => image[k] = Card(slot)
      BY DEF IInv, ImageFromMountedCard
    <2>2. ASSUME op = "f_open", fs[slot].card = Card(slot)'
          PROVE  image[k] = Card(slot)'
      <3>1. pc # "idle" /\ fs[slot].id # 0
        <4>1. image # <<>>
          OBVIOUS
        <4>2. dol
          BY <4>1 DEF IInv, LoadInv
        <4>3. pc \in {"validate", "sector", "close"}
          BY <2>2, <4>2 DEF IInv, LoadInv
        <4> QED
          BY <4>3 DEF IInv, PlaceInv, MountInv
      <3>2. slot \in Slots /\ slot # u /\ fs[slot].card = Card(slot)
        BY <1>7, <2>2, <3>1
      <3>3. Card(slot)' = Card(slot)
        BY <1>1, <1>3, <3>2 DEF Card
      <3> QED
        BY <2>1, <2>2, <3>2, <3>3
    <2> QED
      BY <2>1, <2>2
  <1> QED
    BY <1>4, <1>5, <1>9, <1>10 DEF IInv

\* Putting a card in a slot, at any moment, makes no stale volume look fresh.
LEMMA InsertInv == \A s \in Slots : IInv /\ Insert(s) => IInv'
  <1> SUFFICES ASSUME NEW u \in Slots, IInv, Insert(u) PROVE IInv'
    OBVIOUS
  <1>1. /\ inserted' = [inserted EXCEPT ![u] = TRUE]
        /\ UNCHANGED <<serial, iface, started, FatFs, fs, Fsid, ext, dol, image, args,
                       slot, num_paths, i, file, pc, op, res>>
    BY DEF Insert, shim, volume, memory, loader
  <1>2. /\ inserted' \in [Slots -> BOOLEAN]
        /\ \A s \in Slots : inserted[s] => inserted'[s]
    BY <1>1 DEF IInv, TypeOK
  <1>3. TypeOK'
    BY <1>1, <1>2 DEF IInv, TypeOK
  <1>4. PlaceInv' /\ DeviceInv' /\ MountInv' /\ LoadInv'
    BY <1>1 DEF IInv, PlaceInv, DeviceInv, MountInv, LoadInv
  <1>5. CardInv' /\ ImageFromMountedCard'
    BY <1>1, <1>2 DEF IInv, PlaceInv, CardInv, ImageFromMountedCard, Card
  <1> QED
    BY <1>3, <1>4, <1>5 DEF IInv

\* A step that changes nothing preserves the invariant.
LEMMA StutterInv == IInv /\ UNCHANGED vars => IInv'
  <1> SUFFICES ASSUME IInv, UNCHANGED vars PROVE IInv'
    OBVIOUS
  <1>1. UNCHANGED <<inserted, serial, iface, started, FatFs, fs, Fsid, ext, dol, image,
                    args, slot, num_paths, i, file, pc, op, res>>
    BY DEF vars, env, shim, volume, memory, loader
  <1>2. TypeOK'
    BY <1>1 DEF IInv, TypeOK
  <1>3. PlaceInv' /\ DeviceInv' /\ MountInv' /\ CardInv'
    BY <1>1 DEF IInv, PlaceInv, DeviceInv, MountInv, CardInv, Card
  <1>4. LoadInv' /\ ImageFromMountedCard'
    BY <1>1 DEF IInv, LoadInv, ImageFromMountedCard, Card
  <1> QED
    BY <1>2, <1>3, <1>4 DEF IInv

-----------------------------------------------------------------------------
(* The theorems.                                                           *)

\* Every step of the specification preserves the invariant.
LEMMA NextInv == IInv /\ [Next]_vars => IInv'
  <1>1. IInv /\ Program => IInv'
    BY LoadFatInv, StatusInv, StartupInv, ProbeInv, FindVolumeInv, OpenDolInv,
       ValidateInv, ReadSectorsInv, CloseDolInv, OpenCliInv, ReadCliInv, UnmountInv
       DEF Program
  <1>2. IInv /\ User => IInv'
    BY PullInv, InsertInv DEF User
  <1> QED
    BY <1>1, <1>2, StutterInv DEF Next

\* The inductive invariant holds in every reachable state, however many slots and
\* paths there are and whenever cards are pulled or put in.
THEOREM Invariant == Spec => []IInv
  <1> QED
    BY InitInv, NextInv, PTL DEF Spec

\* Every variable keeps its type: in particular iface and FatFs are null or refer
\* to a slot main tries.
THEOREM Types == Spec => []TypeOK
  <1>1. IInv => TypeOK
    BY DEF IInv
  <1> QED
    BY <1>1, Invariant, PTL

\* A volume that counts as mounted always has its device started behind the shim.
THEOREM VolumesAreBacked == Spec => []VolumeBacked
  <1>1. IInv => VolumeBacked
    BY DEF IInv, PlaceInv, DeviceInv, VolumeBacked
  <1> QED
    BY <1>1, Invariant, PTL

\* The null call at the end of load_fat needs a card that was pulled.
THEOREM NullCallNeedsRemoval == Spec => []NullCallOnlyAfterRemoval
  <1>1. IInv => NullCallOnlyAfterRemoval
    BY DEF IInv, PlaceInv, MountInv, CardInv, NullCallOnlyAfterRemoval
  <1> QED
    BY <1>1, Invariant, PTL

\* No device that was mounted is left running between two calls of load_fat.
THEOREM DevicesAreShutDown == Spec => []DevicesShutDown
  <1>1. IInv => DevicesShutDown
    BY DEF IInv, MountInv, DevicesShutDown
  <1> QED
    BY <1>1, Invariant, PTL

\* The overwritten path of a CLI file is never used to look for a DOL.
THEOREM PathsStayUnspoiled == Spec => []PathsUnspoiled
  <1>1. IInv => PathsUnspoiled
    <2> SUFFICES ASSUME IInv, InCall, op # "f_open_cli", NEW p \in 1..num_paths
                 PROVE  ext[p] = "dol"
      BY DEF PathsUnspoiled
    <2>1. \A q \in 1..MaxPaths : ext[q] = "dol"
      BY DEF IInv, LoadInv
    <2>2. p \in 1..MaxPaths
      BY SdLoadAssumption DEF IInv, TypeOK
    <2> QED
      BY <2>1, <2>2
  <1> QED
    BY <1>1, Invariant, PTL

\* Whenever load_fat is left, its result says whether there is a buffer.
THEOREM ResultsMatchDol == Spec => []ResultMatchesDol
  <1>1. IInv => ResultMatchesDol
    BY DEF IInv, LoadInv, ResultMatchesDol
  <1> QED
    BY <1>1, Invariant, PTL

\* Every part of the image comes from the slot of the call, and from the mounted
\* card as long as that stays in.
THEOREM ImagesAreOfOneCard == Spec => []ImageFromMountedCard
  <1>1. IInv => ImageFromMountedCard
    BY DEF IInv
  <1> QED
    BY <1>1, Invariant, PTL

\* A buffer, once allocated, only grows: nothing is read over it.
THEOREM BufferIsKept == Spec => DolKept
  <1> DEFINE Kept == dol => /\ dol' /\ Len(image) <= Len(image')
                            /\ \A k \in 1..Len(image) : image'[k] = image[k]
  <1>1. IInv => image \in Seq(Cards) /\ Len(image) \in Nat
    BY DEF IInv, TypeOK
  <1>2. IInv /\ UNCHANGED <<dol, image>> => Kept
    BY <1>1
  <1>3. IInv /\ OpenDol => Kept
    BY <1>1 DEF OpenDol, IInv, PlaceInv, LoadInv
  <1>4. IInv /\ ReadSectors => Kept
    <2> SUFFICES ASSUME IInv, ReadSectors PROVE Kept
      OBVIOUS
    <2>1. dol' = dol /\ iface = slot /\ Card(slot) \in Cards
      BY MountedFacts DEF ReadSectors
    <2>2. image' = Append(image, Card(slot)) \/ image' = image
      BY <2>1 DEF ReadSectors
    <2> QED
      BY <1>1, <2>1, <2>2
  <1>5. /\ Program => OpenDol \/ ReadSectors \/ UNCHANGED <<dol, image>>
        /\ User => UNCHANGED <<dol, image>>
    BY DEF Program, User, LoadFat, Status, Startup, Probe, FindVolume, Validate,
           CloseDol, OpenCli, ReadCli, Unmount, Pull, Insert, memory
  <1>6. UNCHANGED vars => UNCHANGED <<dol, image>>
    BY DEF vars, memory
  <1>7. IInv /\ [Next]_vars => [Kept]_vars
    BY <1>2, <1>3, <1>4, <1>5, <1>6 DEF Next
  <1> QED
    BY <1>7, Invariant, PTL DEF Spec, DolKept

-----------------------------------------------------------------------------
(* SdLoad implements LoaderPromise, for any number of slots and paths:     *)
(* whatever the cards do, a step of load_fat is a step of a loader that    *)
(* tries the paths in order and whose result says whether there is a       *)
(* buffer, or it changes nothing that main can see.                        *)

HIDE DEF NULL, Slots, PCs, CardIn


\* The two derived parts of it, case by case.
LEMMA ViewFacts ==
    /\ pc = "idle" => CallState = "idle"
    /\ pc = "fault" => CallState = "hung"
    /\ pc \notin {"idle", "fault"} => CallState = "running"
    /\ pc # "idle" => CallResult = FALSE
  <1>1. pc = "idle" => CallState = "idle"
    BY DEF CallState
  <1>2. pc = "fault" => CallState = "hung"
    BY DEF CallState
  <1>3. pc \notin {"idle", "fault"} => CallState = "running"
    BY DEF CallState
  <1>4. pc # "idle" => CallResult = FALSE
    BY DEF CallResult
  <1> QED
    BY <1>1, <1>2, <1>3, <1>4

\* The same for the state after a step.
LEMMA ViewFactsNext ==
    /\ pc' = "idle" => CallState' = "idle"
    /\ pc' = "fault" => CallState' = "hung"
    /\ pc' \notin {"idle", "fault"} => CallState' = "running"
    /\ pc' # "idle" => CallResult' = FALSE
  <1>1. pc' = "idle" => CallState' = "idle"
    BY DEF CallState
  <1>2. pc' = "fault" => CallState' = "hung"
    BY DEF CallState
  <1>3. pc' \notin {"idle", "fault"} => CallState' = "running"
    BY DEF CallState
  <1>4. pc' # "idle" => CallResult' = FALSE
    BY DEF CallResult
  <1> QED
    BY <1>1, <1>2, <1>3, <1>4

\* Before the first call main has no buffer and no result.
LEMMA InitPromise == Init => Promise!Init
  BY ViewFacts DEF Init, Promise!Init, CallResult

\* The call to load_fat starts with the first path.
LEMMA LoadFatPromise == IInv /\ LoadFat => Promise!Call
  <1> SUFFICES ASSUME IInv, LoadFat PROVE Promise!Call
    OBVIOUS
  <1>1. /\ pc = "idle" /\ res = FALSE /\ pc' = "startup" /\ i' = 1
        /\ num_paths' = num_paths /\ dol' = dol
    BY DEF LoadFat, memory, IInv, TypeOK
  <1> QED
    BY <1>1, ViewFacts, ViewFactsNext DEF Promise!Call, CallResult

\* A step inside of load_fat after which it is still inside, on the same path and
\* with the same buffer, cannot be seen.
LEMMA InsideStutters ==
    ASSUME InCall, InCall', UNCHANGED <<num_paths, i, dol>>
    PROVE  UNCHANGED Promise!vars
  BY ViewFacts, ViewFactsNext DEF Promise!vars

\* The next path is tried only while there is no buffer.
LEMMA NextPathPromise ==
    ASSUME InCall, ~dol, InCall', UNCHANGED <<num_paths, dol>>,
           \/ i < num_paths /\ i' = i + 1
           \/ i' = i
    PROVE  Promise!Reject \/ UNCHANGED Promise!vars
  BY ViewFacts, ViewFactsNext, InsideStutters DEF Promise!Reject

\* load_fat gives up in f_mount without a buffer; later a failed mount leads to the
\* next path or to the end of the call.
LEMMA MountFailedPromise ==
    ASSUME IInv, pc \in {"startup", "probe", "find"}, MountFailed,
           UNCHANGED <<num_paths, dol>>
    PROVE  Promise!Reject \/ Promise!Return \/ UNCHANGED Promise!vars
  <1>1. op \in Ops
    BY DEF IInv, TypeOK
  <1>2. CASE op = "f_mount"
    <2>1. /\ pc' = "idle" /\ res' = FALSE /\ i' = i
      BY <1>2 DEF MountFailed
    <2>2. dol = FALSE
      BY <1>2 DEF IInv, LoadInv, TypeOK
    <2> QED
      BY <2>1, <2>2, ViewFacts, ViewFactsNext DEF Promise!Return, CallResult
  <1>3. CASE op = "f_open"
    <2>1. ~dol
      BY <1>3 DEF IInv, LoadInv
    <2>2. \/ i < num_paths /\ i' = i + 1 /\ pc' = "startup"
          \/ i' = i /\ pc' = "unmount"
      BY <1>3 DEF MountFailed
    <2> QED
      BY <2>1, <2>2, NextPathPromise
  <1>4. CASE op \in {"f_getlabel", "f_open_cli"}
    <2>1. pc' \in {"startup", "unmount"} /\ i' = i
      BY <1>4 DEF MountFailed
    <2> QED
      BY <2>1, InsideStutters
  <1> QED
    BY <1>1, <1>2, <1>3, <1>4

\* The steps of mount_volume and disk_initialize.
LEMMA MountPromise ==
    ASSUME IInv, Status \/ Startup \/ Probe \/ FindVolume
    PROVE  Promise!Reject \/ Promise!Return \/ UNCHANGED Promise!vars
  <1>1. UNCHANGED <<num_paths, dol>>
    BY DEF Status, Startup, Probe, FindVolume, memory
  <1>2. CASE Status
    <2>1. pc = "status" /\ pc' \in {"status", "entry", "startup"} /\ i' = i
      BY <1>2 DEF Status, MountDone
    <2> QED
      BY <1>1, <2>1, InsideStutters
  <1>3. CASE Startup
    <2>1. pc = "startup" /\ (MountFailed \/ (pc' = "probe" /\ i' = i))
      BY <1>3 DEF Startup
    <2> QED
      BY <1>1, <2>1, InsideStutters, MountFailedPromise
  <1>4. CASE Probe
    <2>1. pc = "probe" /\ (MountFailed \/ (pc' = "find" /\ i' = i))
      BY <1>4 DEF Probe
    <2> QED
      BY <1>1, <2>1, InsideStutters, MountFailedPromise
  <1>5. CASE FindVolume
    <2>1. pc = "find" /\ (MountFailed \/ (pc' \in {"status", "entry"} /\ i' = i))
      BY <1>5 DEF FindVolume, MountDone
    <2> QED
      BY <1>1, <2>1, InsideStutters, MountFailedPromise
  <1> QED
    BY <1>2, <1>3, <1>4, <1>5

\* f_open goes to the next path, or dol_alloc gives the one buffer of the call.
LEMMA OpenDolPromise ==
    ASSUME IInv, OpenDol
    PROVE  Promise!Reject \/ Promise!Load \/ UNCHANGED Promise!vars
  <1>1. pc = "entry" /\ ~dol /\ num_paths' = num_paths
    BY DEF OpenDol, IInv, LoadInv
  <1>2. CASE NextPath /\ dol' = dol
    <2>1. \/ i < num_paths /\ i' = i + 1 /\ pc' \in {"status", "startup"}
          \/ i' = i /\ pc' = "unmount"
      BY <1>2 DEF NextPath, EnterMount, MountFirst
    <2> QED
      BY <1>1, <1>2, <2>1, NextPathPromise
  <1>3. CASE dol' = TRUE /\ pc' = "validate" /\ i' = i
    BY <1>1, <1>3, ViewFacts, ViewFactsNext DEF Promise!Load
  <1> QED
    BY <1>2, <1>3 DEF OpenDol

\* From the buffer on, main sees nothing of reading the file and the arguments.
LEMMA ReadPromise ==
    ASSUME Validate \/ ReadSectors \/ CloseDol \/ OpenCli \/ ReadCli
    PROVE  UNCHANGED Promise!vars
  <1>1. pc \in {"validate", "sector", "close", "entry", "cli_read"}
    BY DEF Validate, ReadSectors, CloseDol, OpenCli, ReadCli
  <1>2. pc' \in {"sector", "close", "status", "startup", "unmount", "cli_read"}
    BY <1>1 DEF Validate, ReadSectors, CloseDol, OpenCli, ReadCli, EnterMount, MountFirst
  <1>3. UNCHANGED <<num_paths, i, dol>>
    BY DEF Validate, ReadSectors, CloseDol, OpenCli, ReadCli, memory
  <1> QED
    BY <1>1, <1>2, <1>3, InsideStutters

\* At the end the result says whether there is a buffer, or load_fat does not return.
LEMMA UnmountPromise ==
    ASSUME IInv, Unmount
    PROVE  Promise!Return \/ Promise!Hang
  <1>1. pc = "unmount" /\ UNCHANGED <<num_paths, i, res, dol>>
    BY DEF Unmount, memory
  <1>2. res = dol /\ res' \in BOOLEAN
    BY <1>1 DEF IInv, LoadInv, TypeOK
  <1>3. CASE pc' = "fault"
    BY <1>1, <1>3, ViewFacts, ViewFactsNext DEF Promise!Hang
  <1>4. CASE pc' = "idle"
    <2>1. CallResult' = res'
      BY <1>2, <1>4 DEF CallResult
    <2> QED
      BY <1>1, <1>2, <1>4, <2>1, ViewFacts, ViewFactsNext DEF Promise!Return
  <1> QED
    BY <1>3, <1>4 DEF Unmount

\* What the user does to the cards, main does not see.
LEMMA UserPromise ==
    ASSUME User \/ UNCHANGED vars
    PROVE  UNCHANGED Promise!vars
  <1>1. UNCHANGED <<pc, num_paths, i, res, dol>>
    BY DEF User, Pull, Insert, vars, memory, loader
  <1> QED
    BY <1>1 DEF Promise!vars, CallState, CallResult

\* load_fat is a loader as main expects it: the paths are tried in order, at most one
\* buffer is allocated, and the result is that it was.
THEOREM Refinement == Spec => KeepsPromise
  <1>1. IInv /\ [Next]_vars => [Promise!Next]_(Promise!vars)
    <2> SUFFICES ASSUME IInv, [Next]_vars PROVE [Promise!Next]_(Promise!vars)
      OBVIOUS
    <2>1. CASE Program
      BY <2>1, LoadFatPromise, MountPromise, OpenDolPromise, ReadPromise, UnmountPromise
         DEF Program, Promise!Next
    <2> QED
      BY <2>1, UserPromise DEF Next
  <1> QED
    BY <1>1, InitPromise, Invariant, PTL DEF Spec, KeepsPromise, Promise!Spec
=============================================================================
