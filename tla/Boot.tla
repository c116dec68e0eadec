-------------------------------- MODULE Boot --------------------------------
(***************************************************************************)
(* main of source/main.c: the wait for the video output, the scan of the   *)
(* buttons, the search through the devices, and the way out through        *)
(* delay_exit.  The loaders are those of LoaderPromise; the user presses   *)
(* and releases buttons at any time, and the program sees them only when   *)
(* it samples them.                                                        *)
(***************************************************************************)
EXTENDS Naturals, Sequences

CONSTANTS
    Shortcuts,   \* the buttons of the table shortcuts, in its order
    Devices      \* what main tries, in order: "usb" or "sd"

ASSUME BootAssumption ==
    /\ Shortcuts \in Seq(STRING)
    /\ \A n \in 1..Len(Shortcuts) : Shortcuts[n] \notin {"LEFT", "DOWN"}
    /\ Devices \in Seq({"usb", "sd"})
    /\ Devices # <<>>

ShortcutButtons == {Shortcuts[n] : n \in 1..Len(Shortcuts)}
Buttons == ShortcutButtons \cup {"LEFT", "DOWN"}
MaxPaths == 2      \* char *paths[2]

VARIABLES
    held, reset,          \* what the user holds down
    all_buttons_held,     \* the buttons at the last PAD_ScanPads
    progressive,          \* SYS_GetProgressiveScan
    cable, late,          \* the component cable is seen; a second has passed
    pc,
    paths,                \* the buttons of the paths; "ipl" is the default path
    dev,                  \* the device tried last, an index of Devices
    skipped,              \* delay_exit returns to the IPL
    kept,                 \* since when DOWN is held without a break: "scan", "exit"
    st, num_paths, cand, res, dol      \* the loader, see LoaderPromise

user   == <<held, reset>>
video  == <<progressive, cable, late>>
loader == <<st, num_paths, cand, res, dol>>
vars   == <<user, all_buttons_held, video, pc, paths, dev, skipped, kept, loader>>

Loader == INSTANCE LoaderPromise

PCs == {"video", "scan", "paths", "search", "call", "load", "exit", "vsync",
        "boot", "ipl", "halt"}

TypeOK ==
    /\ held \subseteq Buttons /\ reset \in BOOLEAN
    /\ all_buttons_held \subseteq Buttons
    /\ {progressive, cable, late} \subseteq BOOLEAN
    /\ pc \in PCs
    /\ paths \in Seq(ShortcutButtons \cup {"ipl"})
    /\ dev \in 0..Len(Devices)
    /\ skipped \in BOOLEAN /\ kept \subseteq {"scan", "exit"}
    /\ st \in {"idle", "running", "hung"}
    /\ num_paths \in 1..MaxPaths /\ cand \in 1..MaxPaths
    /\ res \in BOOLEAN /\ dol \in BOOLEAN

Init ==
    /\ held \in SUBSET Buttons /\ reset \in BOOLEAN
    /\ all_buttons_held = {}
    /\ progressive \in BOOLEAN /\ cable \in BOOLEAN /\ late = FALSE
    /\ pc = "video"
    /\ paths = <<>>
    /\ dev = 0
    /\ skipped = FALSE /\ kept = {}
    /\ st = "idle" /\ num_paths = 1 /\ cand = 1 /\ res = FALSE /\ dol = FALSE

-----------------------------------------------------------------------------
(* Mistakes one could make in main, for the mutants of PROJECT.json.        *)

ChoosePaths_Last ==
    /\ pc = "paths"
    /\ LET pressed == {n \in 1..Len(Shortcuts) : Shortcuts[n] \in all_buttons_held}
           last    == CHOOSE n \in pressed : \A m \in pressed : n >= m
       IN  paths' = IF pressed = {} THEN <<"ipl">> ELSE <<Shortcuts[last], "ipl">>
    /\ num_paths' = Len(paths')
    /\ pc' = "search"
    /\ UNCHANGED <<user, all_buttons_held, video, dev, skipped, kept, st, cand,
                   res, dol>>

CallLoader_NoEnd ==
    /\ pc = "search"
    /\ IF res
       THEN pc' = "load" /\ UNCHANGED <<dev, loader>>
       ELSE dev' = dev + 1 /\ Loader!Call /\ pc' = "call"
    /\ UNCHANGED <<user, all_buttons_held, video, paths, skipped, kept>>

LoadDol_Unchecked ==
    /\ pc = "load"
    /\ pc' = "exit"
    /\ kept' = IF "DOWN" \in held THEN kept \cup {"exit"} ELSE {}
    /\ UNCHANGED <<user, all_buttons_held, video, paths, dev, skipped, loader>>

ExitTest_ResetOnly ==
    /\ pc = "exit"
    /\ pc' = IF reset THEN "vsync" ELSE IF skipped THEN "ipl" ELSE "boot"
    /\ UNCHANGED <<user, all_buttons_held, video, paths, dev, skipped, kept, loader>>

ExitScan_NoScan ==
    /\ pc = "vsync"
    /\ pc' = "exit"
    /\ UNCHANGED <<user, all_buttons_held, video, paths, dev, skipped, kept, loader>>

-----------------------------------------------------------------------------
(* main up to the search                                                   *)

\* Without a component cable progressive scan is given up after a second.
WaitVideo ==
    /\ pc = "video"
    /\ IF ~progressive \/ cable
       THEN pc' = "scan" /\ UNCHANGED progressive
       ELSE /\ late
            /\ progressive' = FALSE
            /\ pc' = "scan"
    /\ UNCHANGED <<user, all_buttons_held, cable, late, paths, dev, skipped,
                   kept, loader>>

\* PAD_ScanPads, then LEFT and the reset button.
Scan ==
    /\ pc = "scan"
    /\ all_buttons_held' = held
    /\ skipped' = ("LEFT" \in held \/ reset)
    /\ pc' = IF skipped' THEN "exit" ELSE "paths"
    /\ kept' = IF "DOWN" \notin held THEN {}
               ELSE IF skipped' THEN {"scan", "exit"} ELSE {"scan"}
    /\ UNCHANGED <<user, video, paths, dev, loader>>

\* The first shortcut of the table that is held, then the default path.
ChoosePaths ==
    /\ pc = "paths"
    /\ LET pressed == {n \in 1..Len(Shortcuts) : Shortcuts[n] \in all_buttons_held}
           first   == CHOOSE n \in pressed : \A m \in pressed : n <= m
       IN  paths' = IF pressed = {} THEN <<"ipl">> ELSE <<Shortcuts[first], "ipl">>
    /\ num_paths' = Len(paths')
    /\ pc' = "search"
    /\ UNCHANGED <<user, all_buttons_held, video, dev, skipped, kept, st, cand,
                   res, dol>>

-----------------------------------------------------------------------------
(* The search                                                              *)

\* The next loader is called unless the last one said it loaded something.
CallLoader ==
    /\ pc = "search"
    /\ IF res \/ dev = Len(Devices)
       THEN pc' = "load" /\ UNCHANGED <<dev, loader>>
       ELSE dev' = dev + 1 /\ Loader!Call /\ pc' = "call"
    /\ UNCHANGED <<user, all_buttons_held, video, paths, skipped, kept>>

\* Only load_fat has paths to go through.
LoaderStep ==
    /\ pc = "call"
    /\ \/ Loader!Load
       \/ Devices[dev] = "sd" /\ Loader!Reject
       \/ Loader!Hang
    /\ UNCHANGED <<user, all_buttons_held, video, pc, paths, dev, skipped, kept>>

LoaderReturn ==
    /\ pc = "call"
    /\ Loader!Return
    /\ pc' = "search"
    /\ UNCHANGED <<user, all_buttons_held, video, paths, dev, skipped, kept>>

\* main halts without a DOL, and leaves through delay_exit with one.
LoadDol ==
    /\ pc = "load"
    /\ IF dol
       THEN pc' = "exit" /\ kept' = IF "DOWN" \in held THEN kept \cup {"exit"} ELSE {}
       ELSE pc' = "halt" /\ UNCHANGED kept
    /\ UNCHANGED <<user, all_buttons_held, video, paths, dev, skipped, loader>>

-----------------------------------------------------------------------------
(* delay_exit                                                              *)

\* The loop condition: the buttons of the last scan, and the reset button now.
ExitTest ==
    /\ pc = "exit"
    /\ pc' = IF "DOWN" \in all_buttons_held \/ reset THEN "vsync"
             ELSE IF skipped THEN "ipl" ELSE "boot"
    /\ UNCHANGED <<user, all_buttons_held, video, paths, dev, skipped, kept, loader>>

\* VIDEO_WaitVSync and PAD_ScanPads.
ExitScan ==
    /\ pc = "vsync"
    /\ all_buttons_held' = held
    /\ pc' = "exit"
    /\ UNCHANGED <<user, video, paths, dev, skipped, kept, loader>>

-----------------------------------------------------------------------------
(* The user and the hardware                                               *)

Toggle(b) ==
    /\ held' = IF b \in held THEN held \ {b} ELSE held \cup {b}
    /\ kept' = IF "DOWN" \in held' THEN kept ELSE {}
    /\ UNCHANGED <<reset, all_buttons_held, video, pc, paths, dev, skipped, loader>>

ToggleReset ==
    /\ reset' = ~reset
    /\ UNCHANGED <<held, all_buttons_held, video, pc, paths, dev, skipped, kept,
                   loader>>

\* GCVideo has booted up, or a second has passed.
VideoChange ==
    /\ pc = "video"
    /\ \/ ~cable /\ cable' = TRUE /\ UNCHANGED late
       \/ ~late /\ late' = TRUE /\ UNCHANGED cable
    /\ UNCHANGED <<user, all_buttons_held, progressive, pc, paths, dev, skipped,
                   kept, loader>>

-----------------------------------------------------------------------------
Main == \/ WaitVideo \/ Scan \/ ChoosePaths \/ CallLoader
        \/ LoadDol \/ ExitTest \/ ExitScan
User == \/ \E b \in Buttons : Toggle(b)
        \/ ToggleReset
Next == Main \/ LoaderStep \/ LoaderReturn \/ User \/ VideoChange

Spec == Init /\ [][Next]_vars

\* The program runs and a second passes; a loader comes back unless it hangs.
FairSpec ==
    /\ Spec
    /\ WF_vars(Main)
    /\ WF_vars(LoaderReturn)
    /\ WF_vars(VideoChange)

-----------------------------------------------------------------------------
(* Correctness.                                                            *)

\* README.md:58: of several buttons held at the scan, the highest in the table
\* takes priority, and the default path is always the last one tried.
PriorityRespected ==
    pc \in {"search", "call", "load", "halt"} =>
        /\ num_paths = Len(paths)
        /\ paths[num_paths] = "ipl"
        /\ \A n \in 1..Len(Shortcuts) : Shortcuts[n] \in all_buttons_held =>
               \E m \in 1..n : paths[1] = Shortcuts[m]

\* A user who holds the d-pad down from the scan at the start on, and does not
\* let go, keeps the messages on screen: neither the DOL nor the IPL is started.
HeldDownStays == pc \in {"boot", "ipl"} => "scan" \notin kept

outcome ==
    IF pc = "ipl" \/ skipped THEN "ipl"
    ELSE IF st = "hung" THEN "hung"
    ELSE IF pc \in {"halt", "boot"} THEN pc
    ELSE IF dol THEN "loading"
    ELSE IF dev = 0 THEN "starting" ELSE "searching"

\* README.md:14-19 and 37-38: main goes through the devices, and through the paths
\* on each, in order, chooses the first DOL that can be loaded, and boots no other.
\* README.md:39-40 is not kept: with every device searched in vain main does not
\* reboot to the IPL but halts.  That is the only step outside of the promise.
Promise == INSTANCE BootPromise
               WITH NumDevices <- Len(Devices), path <- cand
HaltsInstead ==
    /\ outcome = "searching"
    /\ dev = Len(Devices)
    /\ outcome' = "halt"
    /\ UNCHANGED <<dev, cand>>
KeepsPromise == Promise!Init /\ [][Promise!Next \/ HaltsInstead]_(Promise!vars)

\* main comes to an end if the user lets go in the end, unless a loader hangs.
MainEnds ==
    <>[](~reset /\ "DOWN" \notin held) =>
        <>(pc \in {"boot", "ipl", "halt"} \/ st = "hung")

\* README.md:158-159: the messages remain on screen for as long as the down
\* direction is held, from whenever delay_exit begins.
MessagesRemain == pc \in {"boot", "ipl"} => "exit" \notin kept
=============================================================================
