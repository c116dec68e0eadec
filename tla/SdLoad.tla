------------------------------- MODULE SdLoad -------------------------------
(***************************************************************************)
(* Loading a DOL from an SD card: load_fat and load_parse_cli of           *)
(* source/main.c, the device shim of source/ffshim.c, and the volume layer *)
(* of FatFs (mount_volume, validate, f_mount, f_open, f_read) they rest    *)
(* on.  Every question the program asks the hardware (isInserted, startup, *)
(* readSectors) is an action of its own, and a card may be pulled from or  *)
(* put into any slot between two of them.                                  *)
(*                                                                         *)
(* A slot is its position in the order in which main tries the SD devices, *)
(* and a slot number also names the FATFS object in the frame of the       *)
(* load_fat call for that slot.  0 is the null pointer.                    *)
(***************************************************************************)
EXTENDS Naturals, Sequences

CONSTANTS
    NumSlots,    \* SD devices that main tries: sdb, sda, sd2
    MaxPaths,    \* length of the array of paths: a shortcut and the default
    Extents,     \* disk_read calls that f_read needs for a whole DOL
    MaxPulls     \* bound: how often the card of one slot is pulled

ASSUME SdLoadAssumption ==
    /\ NumSlots \in Nat \ {0}
    /\ MaxPaths \in Nat \ {0}
    /\ Extents \in Nat \ {0}
    /\ MaxPulls \in Nat

NULL   == 0
Slots  == 1..NumSlots
Cards  == (0..NumSlots) \X (0..MaxPulls)   \* a slot and the serial of its card
NoCard == <<0, 0>>

VARIABLES
    inserted,   \* [Slots -> BOOLEAN]: a card is in the slot
    serial,     \* [Slots -> Nat]: which card that is (or the next one will be)
    iface,      \* the DISC_INTERFACE the shim talks to
    started,    \* [Slots -> BOOLEAN]: device started up and not shut down
    FatFs,      \* FatFs[0], the registered filesystem object
    fs,         \* the FATFS objects: fs_type # 0, id, and the card they describe
    Fsid,       \* the mount counter of FatFs
    slot,       \* the slot that load_fat was last called for
    num_paths,  \* number of paths main passes
    i,          \* index of the path being tried
    ext,        \* [1..MaxPaths -> {"dol", "cli"}]: extension of each path
    file,       \* the FIL object: mount id and card it was opened on
    pc,         \* the hardware question asked next; "idle": in main
    op,         \* the API call on whose behalf mount_volume runs
    res,        \* result of load_fat
    dol,        \* dol # NULL
    image,      \* the cards the parts of *dol were read from, in order
    args        \* what dol_argv was filled from

env    == <<inserted, serial>>
shim   == <<iface, started>>
volume == <<FatFs, fs, Fsid>>
memory == <<ext, dol, image, args>>
loader == <<slot, num_paths, i, file, pc, op, res>>
vars   == <<env, shim, volume, memory, loader>>

Ops == {"f_mount", "f_getlabel", "f_open", "f_open_cli"}
PCs == {"idle", "status", "startup", "probe", "find", "entry", "validate",
        "sector", "close", "cli_read", "unmount", "fault"}

TypeOK ==
    /\ inserted \in [Slots -> BOOLEAN]
    /\ serial \in [Slots -> 0..MaxPulls]
    /\ iface \in 0..NumSlots
    /\ started \in [Slots -> BOOLEAN]
    /\ FatFs \in 0..NumSlots
    /\ fs \in [Slots -> [mounted : BOOLEAN, id : Nat, card : Cards]]
    /\ Fsid \in Nat
    /\ slot \in 0..NumSlots
    /\ num_paths \in 1..MaxPaths
    /\ i \in 1..MaxPaths
    /\ ext \in [1..MaxPaths -> {"dol", "cli"}]
    /\ file \in [id : Nat, card : Cards]
    /\ pc \in PCs
    /\ op \in Ops
    /\ res \in BOOLEAN
    /\ dol \in BOOLEAN
    /\ image \in Seq(Cards)
    /\ args \in {"none", "file", "garbage"}

Init ==
    /\ inserted \in [Slots -> BOOLEAN]
    /\ serial = [s \in Slots |-> 0]
    /\ iface = NULL
    /\ started = [s \in Slots |-> FALSE]
    /\ FatFs = NULL
    /\ fs = [s \in Slots |-> [mounted |-> FALSE, id |-> 0, card |-> NoCard]]
    /\ Fsid = 0
    /\ slot = 0
    /\ num_paths \in 1..MaxPaths
    /\ i = 1
    /\ ext = [p \in 1..MaxPaths |-> "dol"]
    /\ file = [id |-> 0, card |-> NoCard]
    /\ pc = "idle"
    /\ op = "f_mount"
    /\ res = FALSE
    /\ dol = FALSE
    /\ image = <<>>
    /\ args = "none"

-----------------------------------------------------------------------------
(* The user.                                                               *)

\* A pulled card is gone: the next one put in counts as another card.
Pull(s) ==
    /\ inserted[s]
    /\ serial[s] < MaxPulls
    /\ inserted' = [inserted EXCEPT ![s] = FALSE]
    /\ serial' = [serial EXCEPT ![s] = @ + 1]
    /\ UNCHANGED <<shim, volume, memory, loader>>

Insert(s) ==
    /\ ~inserted[s]
    /\ inserted' = [inserted EXCEPT ![s] = TRUE]
    /\ UNCHANGED <<serial, shim, volume, memory, loader>>

-----------------------------------------------------------------------------
(* Control flow of load_fat between two questions to the hardware.         *)

CardIn  == iface # NULL /\ inserted[iface]
Card(s) == <<s, serial[s]>>

\* mount_volume asks disk_status only for a volume that is already valid.
MountFirst(f) == IF f.mounted THEN "status" ELSE "startup"

\* load_fat calls an API that starts with mount_volume.
EnterMount(o) ==
    /\ op' = o
    /\ pc' = MountFirst(fs[FatFs])

\* Mistakes one could make here, for the mutants of PROJECT.json.
NextPath_OffByOne ==
    IF i <= num_paths
    THEN i' = i + 1 /\ EnterMount("f_open")
    ELSE pc' = "unmount" /\ UNCHANGED <<i, op>>

NextPath_SamePath ==
    IF i < num_paths
    THEN UNCHANGED i /\ EnterMount("f_open")
    ELSE pc' = "unmount" /\ UNCHANGED <<i, op>>

MountFailed_AlwaysUnmount ==
    /\ op \in {"f_mount", "f_open", "f_open_cli"}
    /\ pc' = "unmount"
    /\ UNCHANGED <<res, op, i>>

\* The next path of the loop, or the end of the loop.
NextPath ==
    IF i < num_paths
    THEN i' = i + 1 /\ EnterMount("f_open")
    ELSE pc' = "unmount" /\ UNCHANGED <<i, op>>

\* mount_volume fails: f_mount gives up, f_getlabel's result is ignored, f_open
\* goes on to the next path, load_parse_cli returns to a load_fat that is done.
\* The volume is invalid in every case, so a next mount starts the device.
MountFailed ==
    \/ /\ op = "f_mount"
       /\ pc' = "idle"
       /\ res' = FALSE
       /\ UNCHANGED <<op, i>>
    \/ /\ op = "f_getlabel"
       /\ op' = "f_open"
       /\ pc' = "startup"
       /\ UNCHANGED <<res, i>>
    \/ /\ op = "f_open"
       /\ IF i < num_paths
          THEN i' = i + 1 /\ pc' = "startup"
          ELSE pc' = "unmount" /\ UNCHANGED i
       /\ UNCHANGED <<res, op>>
    \/ /\ op = "f_open_cli"
       /\ pc' = "unmount"
       /\ UNCHANGED <<res, op, i>>

\* mount_volume succeeds: the API goes on.  The volume is valid, so a next mount
\* asks for its status.
MountDone ==
    \/ /\ op = "f_mount"
       /\ op' = "f_getlabel"
       /\ pc' = "status"
    \/ /\ op = "f_getlabel"
       /\ op' = "f_open"
       /\ pc' = "status"
    \/ /\ op \in {"f_open", "f_open_cli"}
       /\ pc' = "entry"
       /\ UNCHANGED op

-----------------------------------------------------------------------------
(* Mistakes one could make in load_fat, for the mutants of PROJECT.json.    *)

LoadFat_KeepsIface ==
    /\ pc = "idle"
    /\ ~res
    /\ slot < NumSlots
    /\ slot' = slot + 1
    /\ iface' = IF iface = NULL THEN slot' ELSE iface
    /\ FatFs' = slot'
    /\ fs' = [s \in Slots |-> IF s \in {FatFs, slot'}
                              THEN [fs[s] EXCEPT !.mounted = FALSE]
                              ELSE fs[s]]
    /\ op' = "f_mount"
    /\ pc' = "startup"
    /\ i' = 1
    /\ UNCHANGED <<env, started, Fsid, memory, num_paths, file, res>>

LoadFat_KeepsIndex ==
    /\ pc = "idle"
    /\ ~res
    /\ slot < NumSlots
    /\ slot' = slot + 1
    /\ iface' = slot'
    /\ FatFs' = slot'
    /\ op' = "f_mount"
    /\ pc' = "startup"
    /\ UNCHANGED <<env, started, fs, Fsid, memory, num_paths, i, file, res>>

Status_KeepsVolume ==
    /\ pc = "status"
    /\ IF CardIn THEN MountDone ELSE pc' = "startup" /\ UNCHANGED op
    /\ UNCHANGED <<env, shim, volume, memory, slot, num_paths, i, file, res>>

CloseDol_NoResult ==
    /\ pc = "close"
    /\ ext' = [ext EXCEPT ![i] = "cli"]
    /\ EnterMount("f_open_cli")
    /\ UNCHANGED <<env, shim, volume, dol, image, args, slot, num_paths, i, file, res>>

Unmount_NoShutdown ==
    /\ pc = "unmount"
    /\ pc' = "idle"
    /\ iface' = NULL
    /\ UNCHANGED <<env, started, volume, memory, slot, num_paths, i, file, op, res>>

Unmount_NullCheck ==
    /\ pc = "unmount"
    /\ started' = [s \in Slots |-> started[s] /\ s # iface]
    /\ iface' = NULL
    /\ pc' = "idle"
    /\ UNCHANGED <<env, volume, memory, slot, num_paths, i, file, op, res>>

-----------------------------------------------------------------------------
(* load_fat                                                                *)

\* main calls load_fat for the next slot; f_mount unregisters the object of the
\* previous call, whose frame is gone, and registers the one of this call.
LoadFat ==
    /\ pc = "idle"
    /\ ~res
    /\ slot < NumSlots
    /\ slot' = slot + 1
    /\ iface' = slot'
    /\ FatFs' = slot'
    /\ fs' = [s \in Slots |-> IF s \in {FatFs, slot'}
                              THEN [fs[s] EXCEPT !.mounted = FALSE]
                              ELSE fs[s]]
    /\ op' = "f_mount"
    /\ pc' = "startup"
    /\ i' = 1
    /\ UNCHANGED <<env, started, Fsid, memory, num_paths, file, res>>

\* mount_volume on a valid volume: disk_status decides whether it still is.
Status ==
    /\ pc = "status"
    /\ IF CardIn
       THEN MountDone /\ UNCHANGED fs
       ELSE /\ fs' = [fs EXCEPT ![FatFs].mounted = FALSE]
            /\ pc' = "startup"
            /\ UNCHANGED op
    /\ UNCHANGED <<env, shim, FatFs, Fsid, memory, slot, num_paths, i, file, res>>

\* disk_initialize up to startup.  A device that fails to start is not started.
Startup ==
    /\ pc = "startup"
    /\ \/ /\ iface # NULL
          /\ started' = [started EXCEPT ![iface] = TRUE]
          /\ pc' = "probe"
          /\ UNCHANGED <<iface, op, i, res>>
       \/ /\ started' = [s \in Slots |-> started[s] /\ s # iface]
          /\ iface' = NULL
          /\ MountFailed
    /\ UNCHANGED <<env, volume, memory, slot, num_paths, file>>

\* disk_initialize after startup: without a card the device is shut down again.
Probe ==
    /\ pc = "probe"
    /\ IF CardIn
       THEN /\ pc' = "find"
            /\ UNCHANGED <<shim, op, i, res>>
       ELSE /\ started' = [started EXCEPT ![iface] = FALSE]
            /\ iface' = NULL
            /\ MountFailed
    /\ UNCHANGED <<env, volume, memory, slot, num_paths, file>>

\* find_volume and the rest of mount_volume: the volume gets valid, or there is
\* none that can be read.  A failure leaves the device started.
FindVolume ==
    /\ pc = "find"
    /\ \/ /\ CardIn
          /\ Fsid' = Fsid + 1
          /\ fs' = [fs EXCEPT ![FatFs] = [mounted |-> TRUE, id |-> Fsid',
                                          card |-> Card(iface)]]
          /\ MountDone
          /\ UNCHANGED <<i, res>>
       \/ /\ MountFailed
          /\ UNCHANGED <<fs, Fsid>>
    /\ UNCHANGED <<env, shim, FatFs, memory, slot, num_paths, file>>

\* f_open after mount_volume, then dol_alloc: there is no such file, or it cannot
\* be read, is empty or too large for the memory; or it is opened and *dol
\* allocated.
OpenDol ==
    /\ pc = "entry"
    /\ op = "f_open"
    /\ \/ /\ NextPath
          /\ UNCHANGED <<file, dol, image>>
       \/ /\ file' = [id |-> fs[FatFs].id, card |-> Card(iface)]
          /\ dol' = TRUE
          /\ image' = <<>>
          /\ pc' = "validate"
          /\ UNCHANGED <<i, op>>
    /\ UNCHANGED <<env, shim, volume, ext, args, slot, num_paths, res>>

FileValid == fs[FatFs].mounted /\ file.id = fs[FatFs].id /\ CardIn

\* validate at the start of f_read; load_fat ignores what f_read returns.
Validate ==
    /\ pc = "validate"
    /\ pc' = IF FileValid THEN "sector" ELSE "close"
    /\ UNCHANGED <<env, shim, volume, memory, slot, num_paths, i, file, op, res>>

\* One disk_read of f_read, whose failure ends f_read.
ReadSectors ==
    /\ pc = "sector"
    /\ \/ /\ CardIn
          /\ image' = Append(image, Card(iface))
          /\ pc' = IF Len(image') = Extents THEN "close" ELSE "sector"
       \/ /\ pc' = "close"
          /\ UNCHANGED image
    /\ UNCHANGED <<env, shim, volume, ext, dol, args, slot, num_paths, i, file,
                   op, res>>

\* f_close, then load_parse_cli turns the path into that of the CLI file, in place,
\* and opens it.  The load is a success by now, whatever follows.
CloseDol ==
    /\ pc = "close"
    /\ ext' = [ext EXCEPT ![i] = "cli"]
    /\ res' = TRUE
    /\ EnterMount("f_open_cli")
    /\ UNCHANGED <<env, shim, volume, dol, image, args, slot, num_paths, i, file>>

\* f_open of the CLI file: none, an empty one, no memory; or it is opened.
OpenCli ==
    /\ pc = "entry"
    /\ op = "f_open_cli"
    /\ \/ /\ pc' = "unmount"
          /\ UNCHANGED file
       \/ /\ pc' = "cli_read"
          /\ file' = [id |-> fs[FatFs].id, card |-> Card(iface)]
    /\ UNCHANGED <<env, shim, volume, memory, slot, num_paths, i, op, res>>

\* f_read of the CLI file and the parsing of what is then in the buffer.
ReadCli ==
    /\ pc = "cli_read"
    /\ \/ FileValid /\ args' = "file"
       \/ args' = "garbage"
    /\ pc' = "unmount"
    /\ UNCHANGED <<env, shim, volume, ext, dol, image, slot, num_paths, i, file,
                   op, res>>

\* The end of load_fat: shutdown through iface, which the shim may have cleared.
Unmount ==
    /\ pc = "unmount"
    /\ IF iface = NULL
       THEN pc' = "fault" /\ UNCHANGED shim
       ELSE /\ started' = [started EXCEPT ![iface] = FALSE]
            /\ iface' = NULL
            /\ pc' = "idle"
    /\ UNCHANGED <<env, volume, memory, slot, num_paths, i, file, op, res>>

-----------------------------------------------------------------------------
Program ==
    \/ LoadFat \/ Status \/ Startup \/ Probe \/ FindVolume
    \/ OpenDol \/ Validate \/ ReadSectors \/ CloseDol
    \/ OpenCli \/ ReadCli \/ Unmount

User == \E s \in Slots : Pull(s) \/ Insert(s)

Next == Program \/ User

Spec == Init /\ [][Next]_vars

\* The program runs alone on its processor, and the device calls return.
FairSpec == Spec /\ WF_vars(Program)

-----------------------------------------------------------------------------
(* Correctness.                                                            *)

InCall == pc \notin {"idle", "fault"}

\* Inside load_fat the registered filesystem object is the one of this call and
\* not one of a frame that is gone, and while it counts as mounted, the shim has
\* the device of this slot, started: fs_type and iface never disagree, however
\* the card comes and goes (mount_volume, disk_initialize).
VolumeBacked ==
    InCall => /\ FatFs = slot
              /\ fs[slot].mounted => iface = slot /\ started[slot]

\* load_fat calls shutdown through a null iface only if the card it mounted has
\* been pulled since: a device without card, or a failed mount, never leads there.
NullCallOnlyAfterRemoval ==
    pc = "fault" => fs[slot].id # 0 /\ fs[slot].card # Card(slot)

\* A device that was mounted is shut down when load_fat is left.  (One whose
\* mount failed after startup is not: load_fat jumps over the shutdown.)
DevicesShutDown ==
    pc = "idle" => \A s \in Slots : fs[s].id # 0 => ~started[s]

\* load_parse_cli overwrites the extension of a path that all the calls of
\* load_fat share; no call ever looks for a DOL under an overwritten path.
PathsUnspoiled ==
    InCall /\ op # "f_open_cli" => \A p \in 1..num_paths : ext[p] = "dol"

\* main acts on load_fat's result first and on dol afterwards: they agree.
ResultMatchesDol == pc = "idle" => (res <=> dol)

\* Every part of the DOL was read from the slot load_fat was called for, never
\* through the device of an earlier slot whose mount failed, and as long as the
\* mounted card stays in while the file is read, from that card.
ImageFromMountedCard ==
    \A k \in 1..Len(image) :
        /\ image[k][1] = slot
        /\ op = "f_open" /\ fs[slot].card = Card(slot) => image[k] = Card(slot)

\* Once *dol is allocated it is neither dropped nor allocated again nor
\* overwritten: no later path and no later device is read into it.
DolKept ==
    [][dol => dol' /\ Len(image) <= Len(image')
                   /\ \A k \in 1..Len(image) : image'[k] = image[k]]_vars

\* The paths are tried in order, and the result is that of the first that gives a
\* buffer: load_fat is a loader as main expects it.
CallState   == CASE pc = "idle"  -> "idle"
                 [] pc = "fault" -> "hung"
                 [] OTHER        -> "running"
CallResult  == pc = "idle" /\ res
Promise == INSTANCE LoaderPromise
               WITH st <- CallState, cand <- i, res <- CallResult
KeepsPromise == Promise!Spec

\* load_fat ends: back in main or at the null call, whatever the user does.
LoadEnds == InCall ~> ~InCall

\* A device lost after f_mount is lost for good: the shim never gets it back, not
\* even when the card returns, and the call ends at the null call.
LostDeviceFaults == (InCall /\ op # "f_mount" /\ iface = NULL) ~> pc = "fault"

\* README.md:37-38: a file that cannot be loaded makes gekkoboot fall back to the
\* next path or device.  The result of f_read in load_fat is ignored, though.
LoadedImageComplete == pc = "idle" /\ res => Len(image) = Extents

\* README.md:38: if no file of a device can be loaded, the next device is
\* searched, so load_fat must come back whatever happens to the card.
LoadFatReturns == pc # "fault"

-----------------------------------------------------------------------------
(* Why the invariants hold: an inductive invariant that implies them.      *)

\* Where in the code a volume is valid, and that the API call fits the place.
PlaceInv ==
    /\ FatFs = slot
    /\ pc # "idle" => slot \in Slots
    /\ pc \in {"status", "entry", "validate", "sector", "close", "cli_read"}
           => fs[slot].mounted
    /\ pc \in {"startup", "probe", "find"} => ~fs[slot].mounted
    /\ pc \in {"validate", "sector", "close"} => op = "f_open"
    /\ pc = "entry" => op \in {"f_open", "f_open_cli"}
    /\ pc = "cli_read" => op = "f_open_cli"
    /\ pc \in {"unmount", "fault", "status"} => op # "f_mount"

\* The device of the call is the one of the shim, and a valid volume has one.
DeviceInv ==
    /\ iface \in {NULL, slot}
    /\ pc \in {"probe", "find"} => iface = slot /\ started[slot]
    /\ InCall /\ fs[slot].mounted => iface = slot /\ started[slot]

\* A slot has a mount id from its first mount on, which ends the call to f_mount,
\* and a device that was mounted runs only during its own call.
MountInv ==
    /\ pc # "idle" => (fs[slot].id # 0 <=> op # "f_mount")
    /\ \A s \in Slots : s > slot => fs[s].id = 0
    /\ \A s \in Slots : fs[s].id # 0 /\ started[s] => s = slot /\ pc # "idle"

\* A volume describes a card of its own slot; if that card is still in the slot,
\* it can be seen, and a volume that got lost during a call described another.
CardInv ==
    /\ \A s \in Slots : fs[s].id # 0 =>
           fs[s].card[1] = s /\ fs[s].card[2] <= serial[s]
    /\ pc # "idle" /\ fs[slot].mounted /\ fs[slot].card = Card(slot) => inserted[slot]
    /\ pc # "idle" /\ op # "f_mount" /\ (~fs[slot].mounted \/ iface = NULL) =>
           fs[slot].card # Card(slot)
    /\ pc = "fault" => iface = NULL

\* The buffer exists from the opening of a DOL on, and the result is a success from
\* its closing on, which is also when a path is overwritten.
LoadInv ==
    /\ res <=> op = "f_open_cli"
    /\ pc \in {"validate", "sector", "close"} \/ res <=> dol
    /\ ~dol => image = <<>>
    /\ ~res => \A p \in 1..MaxPaths : ext[p] = "dol"

IInv ==
    /\ TypeOK /\ PlaceInv /\ DeviceInv /\ MountInv /\ CardInv /\ LoadInv
    /\ ImageFromMountedCard
=============================================================================
