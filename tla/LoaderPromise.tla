---------------------------- MODULE LoaderPromise ----------------------------
(***************************************************************************)
(* What main relies on when it calls load_usb or load_fat (source/main.c): *)
(* the paths are tried in order, the first one that gives a buffer is the  *)
(* one that is loaded, and the result says whether dol points to one.  A   *)
(* call may also never come back.  SdLoad and UsbLoad implement this       *)
(* module, and Boot is built on it.                                        *)
(***************************************************************************)
EXTENDS Naturals

CONSTANT MaxPaths     \* most paths main ever passes

VARIABLES
    st,         \* "idle": main runs; "running": the loader does; "hung"
    num_paths,
    cand,       \* the path that is tried, or was loaded
    res,        \* what the last call returned
    dol         \* dol # NULL

vars == <<st, num_paths, cand, res, dol>>

Init ==
    /\ st = "idle"
    /\ num_paths \in 1..MaxPaths
    /\ cand = 1
    /\ res = FALSE
    /\ dol = FALSE

Call ==
    /\ st = "idle"
    /\ ~res
    /\ st' = "running"
    /\ cand' = 1
    /\ UNCHANGED <<num_paths, res, dol>>

Reject ==
    /\ st = "running"
    /\ ~dol
    /\ cand < num_paths
    /\ cand' = cand + 1
    /\ UNCHANGED <<st, num_paths, res, dol>>

Load ==
    /\ st = "running"
    /\ ~dol
    /\ dol' = TRUE
    /\ UNCHANGED <<st, num_paths, cand, res>>

Return ==
    /\ st = "running"
    /\ st' = "idle"
    /\ res' = dol
    /\ UNCHANGED <<num_paths, cand, dol>>

Hang ==
    /\ st = "running"
    /\ st' = "hung"
    /\ UNCHANGED <<num_paths, cand, res, dol>>

Next == Call \/ Reject \/ Load \/ Return \/ Hang
Spec == Init /\ [][Next]_vars
=============================================================================
