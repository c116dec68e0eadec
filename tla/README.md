# gekkoboot in TLA+

This directory is a verification development of gekkoboot, the GameCube boot
program in this repository: TLA+ modules translated from its C sources, TLC
configurations that check them on small instances, and TLAPS proofs of the
theorems that hold for every size. It is written to be read next to the code;
`PROJECT.json` maps each definition to the lines it stands for.

    tlc -config SdLoad.cfg SdLoad        # check a run
    tlapm SdLoad_proofs.tla              # check the proofs of a module

## 1. The system

`main` (`source/main.c`) scans the pad once, chooses the paths to look for, and
asks its devices in order for a DOL: a PC behind a USB Gecko, then SD cards. The
first DOL that is loaded is handed, with the arguments read from a CLI file, to
`stub/stub.c`, which moves its sections into place and jumps to it. The program
itself is packed with XZ (`packer/`) and converted by build tools
(`buildtools/`).

| Component | State it keeps | Operations | Talks to |
|---|---|---|---|
| Boot sequence, `main`, `delay_exit` | `all_buttons_held`, `paths`, `num_paths`, `dol` | scan, choose, search, wait, start | loaders by calls and by the global `dol` |
| SD loader, `load_fat`, `load_parse_cli` | `dol`, `dol_argv`, the shared `paths`, `iface` | mount, label, open, read, CLI, shutdown | FatFs; the shim through `iface` |
| Device shim, `ffshim.c` | `iface` (a global that it also clears) | `disk_status`, `disk_initialize`, `disk_read` | libogc `DISC_INTERFACE` |
| FatFs volume layer, `ff.c` | `FatFs[0]`, `Fsid`, `fs->fs_type`, `fs->id`, `FIL.obj.id` | `mount_volume`, `validate`, `f_mount`, `f_open`, `f_read` | the shim |
| FatFs mount, `ff.c` | the geometry in `FATFS` | `find_volume`, `check_fs`, `test_gpt_header`, `mount_volume` | the card |
| FatFs directories and clusters, `ff.c` | `DIR`, `FIL`, window | `dir_find`, `dir_next`, `load_xdir`, `get_fat`, the loop of `f_read` | the volume |
| USB loader, `load_usb` | `dol`, `size`, `pointer`, `start_time` | handshake, size, chunks | a host program on the PC |
| CLI arguments | `cli`, `dol_argc`, `dol_argv`, `dol_argv_p` | allocate, read, split, pack | the stub through `ARGV_MAGIC` |
| Stub | memory | move, clear, pass arguments | its `memmove`, `memset` |
| Packer, `packer/main.c` | `xz_buf` | decode, enter the program | the decoder |
| XZ decoder: stream, filter, LZMA2 | `xz_dec`, `xz_dec_bcj`, `xz_dec_lzma2`, all static and zero | `xz_dec_run`, `xz_dec_bcj_run`, `xz_dec_lzma2_run` | each the next; `xz_buf` |
| Build tools | none at run time | scramble, convert, check | files |

What is hard about it:

* **A card can be pulled or exchanged between any two questions to the
  hardware.** The shim clears `iface` behind the back of `load_fat`, FatFs keeps
  a pointer to a `FATFS` object on the stack of the caller, and the mount id is
  what should tell an old file object from a new one.
* **Results are told twice**: `load_fat` and `load_usb` return an `int` *and* set
  `dol`. `main` looks at one and then at the other.
* **The handshake crosses.** Both sides of the USB link may speak first, each may
  miss a byte, bytes of an earlier session may still come in, one wait has a
  timeout and the following ones have none.
* **Buttons are sampled**, at a few places only, and change at any time.
* **The stub moves a DOL over itself**, with one direction decided for all
  sections.
* **What is on a card is not trustworthy**: chains may be circles, pieces of long
  names left over, sizes wrong, boot sectors whose fields do not fit together, and
  exFAT files larger than a `size_t`.
* **The decoder counts in four places at once**: position in the packed data,
  position in the output, bytes of a chunk still to come, bytes copied to a small
  buffer of its own. Its inner loop does not look at the end of its input, but at a
  limit set so that it need not.

The full list, each with its line and the properties meant to catch it, is
`hazards` in `PROJECT.json`.

## 2. The modules

```
                    BootPromise            what a user may rely on
                        ^ implements
                      Boot                 main, delay_exit
                        | uses
                  LoaderPromise            what main relies on
              implements ^    ^ implements
                  SdLoad        UsbLoad    load_fat + shim + volumes; load_usb
                     :
   FatVolume <- FatMount <- FatRead        what "find_volume finds" and "f_read reads" mean
   FatVolume <- FatOpen                    what "f_open finds" means
        CliParse                           arguments
        Memory <- MemMove <- Stub          the move of the DOL into place
        XzBuf <- Lzma2 <- Bcj <- XzDec     how the program itself is unpacked
                                           (A <- B: B extends A)
```

**`LoaderPromise`** is the interface between `main` and its loaders: paths are
tried in order, at most one buffer is allocated, the result of a call says
whether it was, and a call may also never return. `SdLoad` and `UsbLoad` are
shown to implement it (property `KeepsPromise` of each run, and by proof), and
`Boot` is built on it (its loader steps are those of `LoaderPromise`), so that what `Boot`
shows is not about a loader made up for it.

**`SdLoad`** is `load_fat` with everything under it that keeps state. `pc` names
the next question asked of the hardware: `status` (`disk_status`), `startup` and
`probe` (the two halves of `disk_initialize`), `find` (`find_volume`), `entry`
(the directory search of `f_open`), `validate` and `sector` (`f_read`), `close`,
`cli_read`, `unmount`. Between two such questions the program is one action:
`MountDone` and `MountFailed` are what the four callers of `mount_volume` do with
its result. `Pull` and `Insert` may come between any two. A slot number stands
for the device, for the `FATFS` object in the frame of that call of `load_fat`,
and 0 for the null pointer. `image` holds the *card* each part of the DOL was read
from, which is what the properties ask about. `fault` is the call through a null
`iface`.

**`UsbLoad`** is `load_usb`, one action per call of the USB Gecko library, and
`convert_int`. An element of a channel carries what its sender meant by it, which
the program never looks at (`Value` is what it sees); the properties compare the
two. The host is not in this repository. It is the mirror image of what
`load_usb` expects: it says it is ready, answers a ready console or takes an OK,
and sends size and file; it starts at any time, misses bytes, or goes away.

**`FatVolume`, `FatMount`, `FatOpen`, `FatRead`** model FatFs as `ffconf.h` configures
it (read only, long names, exFAT). A volume is read lazily: an entry of the FAT or
of a directory gets a value, *any* value, when it is first read, and keeps it. So
all volumes are considered, including damaged ones, without enumerating them.
`FatMount` is what `mount_volume` makes of a card: the search for a volume in sector
0, in an MBR or in a GPT, then the checks and sums over a boot sector whose fields
may hold anything of the sets `BootSectors` and `ExBootSectors`, in arithmetic of
`Word` values. `FatRead` goes on from a mounted volume with what `load_fat` does
with a file: the allocation of `f_size` bytes, cut to a `size_t`, and the loop of
`f_read`; a byte is the sector and offset it comes from. `FatOpen` walks a root
directory (`dir_sdi`, `dir_next`) and searches it (`dir_find`; on exFAT `dir_read`
and `load_xdir`); an entry is what the search asks of it. As in `FatMount`, the data of
an exFAT volume may begin at sector 0: the boot sector is then the first sector of
cluster 2, a root chain may lead there, and `LookAstray` is `dir_read` with a sector 0,
which it takes for the end of the directory.

**`Boot`** is `main` and `delay_exit`: the wait for the component cable
(`WaitVideo`), the one scan (`Scan`), the choice of paths, the search, the halt or
the start, and the exit loop with its scans and frames. `kept` records since when
the d-pad has been held without a break, for the two properties about it.
**`BootPromise`** is the behaviour the README describes: skip, boot the first DOL found,
or reboot to the IPL if all fails. All it adds is that a loader may hang.

**`CliParse`** begins where `load_parse_cli` has opened the file: the size, cut to a
`size_t`, the allocation, the read (whose result the code does not look at, so the
buffer then holds anything), the scan over characters that are `char`, `eol` or
`nul`, and the measuring and copying in `main`. The byte before the buffer, which
the code reads for `i = 0`, is part of the state and arbitrary. `touched` records the
offsets from the beginning of the buffer at which the program has read or written.

**`Memory`, `MemMove`, `Stub`** are the memory loops of the stub and `not_main`: the one
decision on the direction, the sections in that direction, each moved by a call of
`memmove` that runs byte by byte (`Moving`), the bss, the magic word and the
arguments. `Moved` of `Memory` says what a call of `memmove` means.

**`XzBuf`, `Lzma2`, `Bcj`, `XzDec`** are `main` of the packer and the XZ decoder as it is
compiled there. `XzDec` has the fields of the stream (one action per field, `Damaged`
and `CutOff` for all), the blocks and the index, and the end of `xz_dec_run`; `Bcj` the
filter and its four places between calls of the next filter; `Lzma2` the chunks
(`Control...`, sizes, properties), the rounds of `lzma2_lzma` over the decoder's own
buffer and the caller's (`TempFill`, `Direct`, `Save`), and `lzma_main` symbol by symbol.
The packed data is not known: a field has any value of a small set, a symbol is any
symbol and takes any number of bytes below `LZMA_IN_REQUIRED`. A byte of the output is
the pair of its number in the uncompressed data and the position at which the filter
took it, so that the run can tell a byte in the wrong place or filtered twice from
the right one. `caller` is the return address of `xz_dec_lzma2_run`.

Operators named `Action_Mistake` are not part of the model: each is a plausible
bug in that action and stands just before it or before its section. `PROJECT.json`
pairs each property with one that breaks it.

## 3. What the runs check

| Run | Distinct states | Shows |
|---|---|---|
| `sd` | 138k | `load_fat` while cards come and go |
| `usb` | 17k | the transfer from a PC |
| `boot` | 352k | `main` and its exit loop |
| `fat_open` | 1.5M | the search of a directory |
| `fat_read` | 348k | mounting a card and reading a file |
| `cli` | 16k | allocating, splitting and packing the arguments |
| `stub` | 712k | loading a DOL over itself or apart |
| `xz` | 1.6M | unpacking the program |
| `sd_fallback`, `sd_nextdevice`, `boot_messages`, `xz_toolong` | | findings, see below |

**`sd`** — `VolumeBacked`: while a volume counts as mounted, the shim has the
started device of this call behind it. `NullCallOnlyAfterRemoval`: the null call needs
a card pulled since its mount; no empty slot and no damaged card leads there.
`DevicesShutDown`: a device that was mounted does not stay on. `PathsUnspoiled`:
no call looks for a path whose extension `load_parse_cli` has overwritten.
`ImageFromMountedCard`: no part of a DOL comes from another slot, or, while the
mounted card stays in, from another card. `KeepsPromise`, `LoadEnds`: load_fat is a loader, and ends.
`LostDeviceFaults`: a device that is lost in mid-call always ends at the null
call, even if the card comes back: the weakness is not a matter of luck.

**`usb`** — `WithinBuffer`: size, pointer, limit and buffer agree through all
chunks. `SizeFramed`: the four bytes taken as the size are the size, unless a byte
of an earlier session passed for an answer or ready messages crossed, and then
exactly the first byte is wrong. `ImageIsFile`: a success filled the buffer, and
with the right size it holds the file, in order. `NoMutualWait`: the two sides
wait for each other only if the host missed *both* bytes or the answer was not
its own. `KeepsPromise`. `WaitsEnd`: the wait for an answer ends, and after the host's
own answer nothing but those cases, or the host going away, keeps `load_usb` from
returning. An observation from this model: when ready messages cross, the first byte taken as the
size is the host's answer, and the size is `256 * (file mod 2^24)` plus that byte. For a
small file that much can be allocated, and `load_usb` then waits for bytes that never
come; otherwise it is negative or too large for the console's memory, and the load fails.
In neither case does it succeed with a wrong image.

**`boot`** — `PriorityRespected` (README table), `HeldDownStays`, `KeepsPromise`
(the whole of `main` implements `BootPromise`, but for one step, named in the property:
`HaltsInstead`, where the README promises a reboot), `MainEnds`.

**`fat_open`** — `FindsFirst`: `f_open` finds the *first* object that has the name,
by a long name that is complete, in order and belongs to its entry, or by the
short one, and says there is none only if there is none. The exception it names,
`Astray`, is an exFAT volume whose data begin at sector 0 (see below). That the object
found is no directory, which `f_open` asks afterwards (ff.c:3865), is not part of it.
`WalkInBounds`: every entry it looks at is in the fixed table, or in the cluster to which
the root's chain leads after as many clusters as the entries before it fill; it ends even
on a circular chain, and it comes to sector 0 only in cluster 2 of such an exFAT volume.

**`fat_read`** — `ReadsTheFile`: what is in the buffer is the beginning of the file,
never more than was allocated, and all of it with `FR_OK`; and a file whose chain is
as long as the file is never given up but for an error of the card, or for a first cluster
that a boot sector of exFAT has put into sector 0.
`SectorsInVolume`: of every card that is mounted, the clusters lie within the volume, and
so do the bytes of every file. On FAT12/16/32 that is so whatever the boot sector says, and the
entry of every cluster lies within the FAT. On exFAT it has the premise `DataFits`: clusters
times cluster size (ff.c:3505) wraps in 32 bits before it is compared with a size of 64
bits, so that a data area far beyond the volume passes the check. That FATs, root directory and
clusters of FAT12/16/32 lie one after the other has the premise `FatsFit`, as nothing
guards `fasize * n_fats` (ff.c:3545). Both kinds of boot sector are in the run. Nothing is
claimed of where exFAT's FAT lies: the code does not check it.

**`cli`** — `ArgsParsed`: of a text file the arguments are its lines; at the limit the last
one takes in the rest; the read of `cli[-1]` does no more than repeat the first
argument. `PackFits`: nothing outside of a buffer is written, and the packed arguments fill
theirs exactly. One byte outside is read: `cli[-1]`, for `i = 0` (main.c:118), unless the
text begins with an end of line. And there is one size of file for which the buffer is too
small: 2^32 - 1 bytes (or that plus a multiple of 2^32, on exFAT), for which `size + 1`
wraps to 0 (main.c:87), `malloc(0)` hands out a buffer, and `f_read` is told to read
2^32 - 1 bytes into it.

**`stub`** — `Correct`: every call of `memmove` leaves the section as it was at the call
and nothing else changed. `LoadsDol`: the DOL is as its header says, if it lies apart
from where it goes, or if its sections are in order and all move one way (the stub
looks at the first section only: the property names what it relies on); the bss may
cover it.

**`xz`** — `WithinBuffers`: however many bytes a symbol takes, none is read beyond the
packed program or the decoder's own buffer, and none written beyond the dictionary.
`DistancesValid`: the distance that a literal after a match looks at is within what
has been written since the dictionary was reset. `ChunksExact`: a chunk that ends well
has used and yielded exactly what it declares, across all changes between the two
input buffers. `UnpackedIsExact`: when the program is entered, every byte of it is in
its place and filtered exactly once, and the index describes the blocks.
`UnpackReturns`: `main` ends, except in the case of the finding `xz_toolong`.

Each module also has one type invariant.

### Findings

Four runs are expected to end in a violation; each checks one sentence of the
repository against what the code does.

* `sd_fallback` (`LoadedImageComplete`): README.md:37-38 says that a file that
  cannot be loaded leads to the next; `load_fat` ignores what `f_read` returns.
* `sd_nextdevice` (`LoadFatReturns`): README.md:38 says that the next device is
  searched; a card pulled after `f_mount` leads to a call through a null `iface`
  (main.c:182).
* `boot_messages` (`MessagesRemain`): README.md:158-160 says that the messages stay
  while the d-pad is held down; `delay_exit` first looks at the scan made in `main`
  before the search, so a d-pad pressed since then is not seen.
* `xz_toolong` (`TooLongReported`): packer/xz/xz.h:106-108 says that too small an output
  buffer gives `XZ_BUF_ERROR`. `packer/main.c` takes a zeroed `struct xz_dec_bcj` in
  place of one from `xz_dec_bcj_create`, so the filter believes it is in multi-call
  mode; when the output is full and an instruction incomplete it decodes into its own
  buffer, to which the dictionary does not extend, and the loop of
  `xz_dec_lzma2_run` turns for ever. A packed program that fits its declared size does
  not get there.

Also met, and without a run of its own:

* README.md:39-40 says that gekkoboot reboots to the IPL if all fails; `main` halts
  (main.c:437-442). `BootPromise` has the reboot and no halt: without the exception
  `HaltsInstead`, the property `KeepsPromise` of `Boot` is violated.
* On an exFAT volume whose data begin at sector 0, a root chain that leads to cluster 2
  makes `dir_next` go to sector 0, and `dir_read` takes that for the end of the directory
  and returns `FR_OK` with nothing read (ff.c:2347); `dir_find` then compares what
  happens to be in the buffer for directory entries, memory of the stack (`Astray`).
* An error of the card at one entry of an MBR is forgotten if a later entry is empty
  (ff.c:3392-3399).
* The chain of an exFAT allocation bitmap is followed past the last cluster of the volume,
  and `fatbase`, `fsize` and the root cluster of exFAT are not checked (ff.c:3473-3527).

### Bounds, and why they are enough

* `sd`: two slots of the three (a call only ever meets its own slot and the one
  before), two paths (the most `main` has), two reads per file (a first and a
  next), each card pulled twice (once in the middle of a call, once more after it
  came back).
* `usb`: bytes of four values, so that a size has four digits and can look
  negative; a chunk of two bytes and sizes around one and two chunks, of zero, and too
  large; one stale byte of any value; two seconds; a FIFO of three bytes.
* `boot`: two of the six shortcuts (priority is a relation of two), the five
  device calls of `main`.
* `fat_open`: three clusters of two sectors with one entry each, so that sector
  and cluster limits differ; directories up to four entries, enough for a
  two-piece long name, its short entry and one entry in front of it that may belong to
  another set; a fixed table of three, a limit of four; data beginning at sector 0 or 1.
  (To come to sector 0 after a block of another name takes five entries; that is left to
  the theorem.)
* `fat_read`: sectors of four bytes in place of 512, so that FATs of one to three sectors
  are just large enough, or one entry short, for up to four clusters on each type of
  FAT; limits between the types at a few clusters; zero to two FATs; cluster sizes that
  are and are not powers of two; volumes with and without a sector to spare;
  fields whose product wraps. Files of nothing, of part of a sector, of whole clusters,
  and beyond the word.
* `cli`: all texts of up to five characters, a limit of four arguments instead of 1024, a
  `size_t` of few values with file sizes on both sides of its end.
* `stub`: twelve words, three sections instead of 18 (before, among and after the one
  that decides).
* `xz`: `LZMA_IN_REQUIRED` is 2 in place of 21, so that inputs reach both buffers and each
  of the limits in a few bytes; chunks of one or three bytes; an output of five bytes and
  a dictionary of two, so that chunks end before, at and after the end of both;
  instructions of two bytes, so that one can be cut in two; streams cut off in the
  header, in the first chunk, and long enough for two blocks and the index.

### Fairness

Only runs with liveness properties assume any. The program is alone on its
processor and libogc calls return: weak fairness of the program's next step as a
whole (never of a particular outcome of it). `xz` assumes just that (`WF_vars(Next)`). `usb` adds that time passes
(`Tick`, as `gettime` is a hardware counter), and that a host once started goes on
(`HostHear \/ HostSend`) — not that it ever starts, and `HostGone` may stop it
at any time. `boot` adds that a loader that does not
hang comes back (`SdLoad` shows `LoadEnds`, `UsbLoad` when `WaitsEnd` applies;
the other cases are `Hang`) and that a second passes (`VideoChange`). No fairness is assumed of
the user: `MainEnds` has as its premise that the buttons are let go in the end.

## 4. What is proved

All for every value of the constants, within the assumptions declared with them
(`...Assumption` in each module: sizes are natural numbers, answers are distinct
bytes, headers fit into memory, a boot sector has fields of the right width). Three of
them say more than that: the host's file has a size that four bytes can say
(`UsbLoad`), a root table of FAT12/16 fills whole sectors, or the volume would not have
been mounted (`FatOpen`, ff.c:3551), and twice the memory is less than a word (`FatRead`).
Every invariant and action property of the passing runs is a theorem.

* **`SdLoad_proofs`**: `Invariant`, and from it `Types`, `VolumesAreBacked`,
  `NullCallNeedsRemoval`, `DevicesAreShutDown`,
  `PathsStayUnspoiled`, `ResultsMatchDol`, `ImagesAreOfOneCard`, `BufferIsKept`. The
  safety properties are not inductive: that the null call needs a removal depends
  on what a volume *without* device says about the card it described, throughout
  the call. `IInv` (in `SdLoad`) has five parts: `PlaceInv`, where in the code a
  volume is valid and which API call is under way; `DeviceInv`, that `iface` is
  null or the slot's and a valid volume has a started device; `MountInv`, which
  slots have a mount id and which devices run; `CardInv`, that a volume describes a
  card of its own slot with a serial not beyond the present one, and that a volume
  lost during a call described another card than the one now in; `LoadInv`, how
  `dol`, `res`, `image` and the paths go together. One lemma per action, plus
  `MountFailedInv` and `MountDoneInv` for the ends of `mount_volume` that several
  actions share. `Refinement` is `Spec => KeepsPromise`: each action maps to
  one action of `LoaderPromise` or to a stutter; `LoadInv` gives that no path is
  rejected with a buffer in hand and that what `Unmount` returns is right.
* **`UsbLoad_proofs`**: `StoreInvariant` (`StoreInv`: before the allocation nothing is
  stored; between chunks the buffer is full up to the pointer; within a chunk its
  end is what the code will add to the pointer), `WritesWithinBuffer`, and
  `UsbRefinement`, `Spec => KeepsPromise`. `ChannelInvariant` is about both ends of the
  link at once: what was taken as the size, what lies in the buffer, what is on its way
  and what the host has sent, one after the other, are stale bytes, at most one ready
  message, at most one OK, then the size and the file (`Form`, `ChannelInv`); `WordInv`
  says how much of that each step of `load_usb` has taken, `HandInv` which of its own
  bytes the host has not heard, and why. From it `UsbTypes`, `SizeIsFramed`,
  `ImageIsTheFile` (four digits say every size below `Base^4`) and `EachByteIsEnough`.
* **`Boot_proofs`**: `BootInvariant`, and from it `BootTypes`, `HighestShortcutFirst`,
  `HeldDownNeverLeaves` and `BootRefinement` (with the same exception `HaltsInstead`).
  `KeptInv` ties the history of the d-pad to the one scan in `main`, `SearchInv` the
  place in `main` to `dol` and the device. The
  highest button held exists because the buttons of the table are numbered: it is
  the least of a set of numbers (`LeastExists`).
* **`FatOpen_proofs`**: `OpenInvariant`, and from it `OpenTypes`, `FirstIsFound` and
  `WalkStaysInBounds`. `SearchInv` relates `ord` and `sum`, or the block of exFAT, to the
  *sequence* of entries seen so far (`LfnInv`, `BlockInv`): a name half collected is
  one that the sequence would complete, and anything else has been let go. The lemmas
  are about sequences one entry longer. `WalkInv` says where the current entry lies: that the root's
  chain leads to its cluster after as many steps as clusters were passed (`Leads`).
* **`FatRead_proofs`**: `ReadInvariant`, `ReadTypes` and `SectorsAreInVolume`. `SectorsInVolume`
  speaks of areas; what the code has checked are sums and quotients. `MountInv` keeps
  those (`FatLayout`, `ExFatLayout`), `ReadInv` that the buffer gets bytes of clusters of a
  mounted volume only. The lemmas in between are arithmetic: the entry of the last
  cluster on each type of FAT lies within `fsize` sectors, a quotient times its divisor is
  not more than the dividend, and that modulo `Word` nothing changes where no product
  wraps (`DataFits`, `FatsFit`, or the checks of the code).
  `FileIsRead` says *which* bytes: by `FileInv`, the cluster `f_read` remembers is the one
  `Chain` has at the last byte read, and every call begins at a sector. `Chain` grows with
  the entries that have been read, and so does not change where it was known
  (`ChainGrows`). It is a recursive function; that it exists and unfolds is proved without
  an induction theorem: of functions on `0..n` that obey the recursion, the least `n`
  without one has a predecessor that has one, and any two agree wherever both are defined.
* **`CliParse_proofs`**: `CliInvariant`, and from it `CliTypes`, `BuffersFit` and
  `ArgumentsAreLines`. `TextInv` says how the buffer differs from the text, `ArgsInv`
  that the arguments found are exactly the sites passed, in order, `TouchInv` which
  offsets can have been touched; the theorem then is
  about the one increasing enumeration of a set. `PackInv` counts what is packed by
  `Total`, a recursive function, handled like `Chain`.
* **`Stub_proofs`**: `MemMoveInvariant` and `MemMoveCorrect`, for every memory and
  every pair of ranges: the invariant says which part is already right; that the
  rest is still *unread* follows from the direction. `StubInvariant`, `SectionsArrive`
  (`Correct` of all the calls that the stub makes) and `StubTypes`: the invariant of
  `MemMove` holds throughout, since a step of the stub either is one of `MemMove`, by its
  lemmas, or begins a call with ranges that `Fits` keeps within memory, or leaves no call
  under way. `DolLoaded` adds the order: `OrderInv`, that the direction is the first
  section's, and `PlacedInv`, that the sections behind are in place; it is kept since no
  section behind has landed on the source of one still to move, which is what the two
  cases of the premise of `LoadsDol` give.
* **`XzDec_proofs`**: `UnpackInvariant`, and from it `UnpackTypes`, `StaysWithinBuffers`,
  `DistancesStayValid` and `ChunksAreExact`. None of these is inductive: the decoder
  counts the same bytes several times (in the buffers, the dictionary, the chunk, the round,
  the block) and checks few of the counts against each other. `IInv` has a part for each
  relation: `CallInv` and `StreamInv`, who called whom and where in the container that
  can be; `DictInv` and `RoundInv`, that a round has room in its buffer and in the chunk;
  `TempInv` and `RcInv`, that a symbol begins only where `LZMA_IN_REQUIRED` bytes are left;
  `ChunkInv`, that what a chunk has left ends where its header says; and `NeedInv`, that
  a distance or a range decoder left over by an earlier chunk stands behind a reset
  or a flag that asks for one. A lemma per action, a step in it per group of parts; the
  lemmas named `...Core` have the arithmetic. A symbol is any symbol and takes any number
  of bytes below `LZMA_IN_REQUIRED`, so what is proved does not depend on the arithmetic
  of the range decoder. `DataInvariant` adds *which* bytes lie where, as long as nothing
  has gone wrong (`DataInv`), and from it `ProgramIsUnpacked`. `PositionInv` counts what
  has been decoded from the other side: the position in the output, what the dictionary has not
  flushed, and what the filter holds in its own buffer, of which the first bytes are an
  instruction cut in two by the end of the output and taken back from there. `OwnDictInv`:
  a dictionary that need not be reset is the block's own part of the output, so a
  repeat copies bytes of the program. `BytesInv`: a block lies unfiltered in the output until
  the filter takes all of its whole instructions at once; from then on, what is in the
  output has been filtered once, and what is in the filter's own buffer has not.
  `BlocksInv`: the blocks follow
  each other, and the hash that the index is compared with has their sizes.

What the proofs found out about the models: `ReadsTheFile` was too strong. The data area of
exFAT lies where the boot sector says, and with an offset of 0 on a card without a
partition table cluster 2 begins in sector 0, which `f_read` takes for "no cluster"
(ff.c:3503-3505 do not check it); the property now names the case and the run has such
boot sectors. `WalkInBounds` needs the check on the root table's size that `check_fs`
makes. `ImageIsFile` needs a size that four bytes can say.
For such a volume `WalkInBounds` and `FindsFirst` name the case too.

**Only model-checked**: everything about liveness (`LoadEnds`, `LostDeviceFaults`,
`WaitsEnd`, `MainEnds`, `UnpackReturns`) — fairness and `ENABLED` are out of the
prover's reach.

## 5. What is not modelled

* System start (`__SYS_PreInit`, video and console set-up, Qoob commands): register
  writes that the program does not read back. Logging.
* In FatFs: `create_name` and the code pages (a name is what comparing it says;
  `ffunicode.c`, more than half of all lines of C, is tables), sub-directories (no path
  of `main` has one), the bits of FAT12/16/32 entries, the volume label (`f_getlabel`'s
  result is only printed; its mount is in `SdLoad`), writing (not compiled). The example
  `diskio.c` is not compiled.
* In the XZ decoder: the arithmetic of the range decoder (a symbol is a choice), the bits
  of header fields, CRC32 itself; and what is not compiled: multi-call modes,
  concatenated streams, MicroLZMA, filters other than PowerPC, CRC64, SHA-256. The
  pre-boot copies of `__argv` and `__envp` come after the last decision.
* The stub's stack and memory map (the copy of the arguments on it has no bound,
  stub.c:68), cache maintenance, register set-up in `crt0`. The three words it writes for
  the arguments are one cell in `Stub`.
* Where the packed program lies: the linker script of the packer puts it behind the output,
  and that the output does not grow over what is still to be read is not modelled.
* Frames of the stack: the `FatFs[0]` of a failed mount that is written through later
  (ff.c:3706) is an object of a function that has returned.
* The build tools: sequential converters of build products, with no state between runs.

## 6. What could come next

* `StubMap`: where stub, stack, DOL and arguments lie, and what a long command line
  overwrites.
* `Scramble`: `dol2ipl.py`'s three shift registers against a reference definition.
