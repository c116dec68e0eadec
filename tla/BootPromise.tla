----------------------------- MODULE BootPromise -----------------------------
(***************************************************************************)
(* What the README promises of gekkoboot (README.md:14-43), seen from      *)
(* outside: it is skipped, or it goes through the devices in order, and    *)
(* through the paths on each in order, boots the first DOL it can load,    *)
(* and reboots to the onboard IPL if all fails.  Only that it may hang on  *)
(* a device is not in the README.                                          *)
(***************************************************************************)
EXTENDS Naturals

CONSTANTS NumDevices, MaxPaths

VARIABLES
    dev,      \* the device searched, 0 before the first
    path,     \* the path tried on it
    outcome

vars == <<dev, path, outcome>>

Init == dev = 0 /\ path = 1 /\ outcome = "starting"

Skip ==
    /\ outcome = "starting"
    /\ outcome' = "ipl"
    /\ UNCHANGED <<dev, path>>

NextDevice ==
    /\ outcome \in {"starting", "searching"}
    /\ dev < NumDevices
    /\ dev' = dev + 1
    /\ path' = 1
    /\ outcome' = "searching"

NextPath ==
    /\ outcome = "searching"
    /\ path < MaxPaths
    /\ path' = path + 1
    /\ UNCHANGED <<dev, outcome>>

\* A candidate is chosen at the moment its file is there: no later one is tried.
Choose ==
    /\ outcome = "searching"
    /\ outcome' = "loading"
    /\ UNCHANGED <<dev, path>>

Boot ==
    /\ outcome = "loading"
    /\ outcome' = "boot"
    /\ UNCHANGED <<dev, path>>

\* README.md:39-40: if all fails, gekkoboot reboots to the onboard IPL.
Reboot ==
    /\ outcome = "searching"
    /\ dev = NumDevices
    /\ outcome' = "ipl"
    /\ UNCHANGED <<dev, path>>

Hang ==
    /\ outcome \in {"searching", "loading"}
    /\ outcome' = "hung"
    /\ UNCHANGED <<dev, path>>

Next == Skip \/ NextDevice \/ NextPath \/ Choose \/ Boot \/ Reboot \/ Hang
Spec == Init /\ [][Next]_vars
=============================================================================
