----------------------------- MODULE Boot_proofs -----------------------------
(***************************************************************************)
(* What main promises its user, for every table of shortcuts and every     *)
(* list of devices: the shortcut that is tried is the highest one held,    *)
(* the messages stay while DOWN does, and the search is the one that       *)
(* BootPromise describes.                                                  *)
(***************************************************************************)
EXTENDS Boot, WellFoundedInduction, TLAPS

\* The history of DOWN goes with what the user holds and with what was scanned.
KeptInv ==
    /\ kept # {} => "DOWN" \in held
    /\ pc \in {"video", "scan"} => kept = {}
    /\ "scan" \in kept => "DOWN" \in all_buttons_held

\* Where main is in its search, and what it has found by then.
SearchInv ==
    /\ pc \in {"video", "scan", "paths"} => ~skipped /\ dev = 0 /\ ~dol
    /\ skipped => pc \in {"exit", "vsync", "ipl"}
    /\ pc = "ipl" => skipped
    /\ pc # "call" => st = "idle" /\ (res <=> dol)
    /\ pc = "call" => st # "idle" /\ dev # 0 /\ ~res
    /\ pc \in {"exit", "vsync", "boot"} => skipped \/ dol
    /\ pc \in {"load", "halt"} /\ ~dol => dev = Len(Devices)
    /\ pc = "halt" => ~dol

IInv == TypeOK /\ PriorityRespected /\ KeptInv /\ SearchInv

-----------------------------------------------------------------------------
(* The table of shortcuts                                                  *)

\* A set of natural numbers that is not empty has a least element.
LEMMA LeastExists ==
    ASSUME NEW T \in SUBSET Nat, T # {}
    PROVE  \E n \in T : \A m \in T : n <= m
  <1> DEFINE R == OpToRel(<, Nat)
  <1>1. IsWellFoundedOn(R, Nat)
    BY NatLessThanWellFounded
  <1>2. \A x, y \in Nat : x < y => <<x, y>> \in R
    BY DEF OpToRel
  <1> HIDE DEF R
  <1>3. PICK n \in T : \A m \in T : <<m, n>> \notin R
    BY <1>1, WFMin, Zenon
  <1>4. ASSUME NEW m \in T PROVE n <= m
    <2>1. m \in Nat /\ n \in Nat
      OBVIOUS
    <2>2. ~(m < n)
      BY <1>2, <1>3, <2>1, Zenon
    <2> QED
      BY <2>1, <2>2
  <1> QED
    BY <1>4

LEMMA InitInv == Init => IInv
  <1> SUFFICES ASSUME Init PROVE IInv
    OBVIOUS
  <1> USE DEF Init
  <1>1. TypeOK
    <2>1. paths \in Seq(ShortcutButtons \cup {"ipl"})
      OBVIOUS
    <2>2. dev \in 0..Len(Devices)
      <3>1. Len(Devices) \in Nat
        BY BootAssumption
      <3> QED
        BY <3>1
    <2>3. /\ {progressive, cable, late} \subseteq BOOLEAN
          /\ skipped \in BOOLEAN /\ res \in BOOLEAN /\ dol \in BOOLEAN
      BY Zenon
    <2> QED
      BY <2>1, <2>2, <2>3 DEF TypeOK, PCs, MaxPaths
  <1>2. PriorityRespected
    BY DEF PriorityRespected
  <1>3. KeptInv /\ SearchInv
    BY DEF KeptInv, SearchInv
  <1> QED
    BY <1>1, <1>2, <1>3 DEF IInv

\* The first shortcut held comes before the default path.
LEMMA ChoosePathsInv == IInv /\ ChoosePaths => IInv'
  <1> SUFFICES ASSUME IInv, ChoosePaths PROVE IInv'
    OBVIOUS
  <1> DEFINE pressed == {n \in 1..Len(Shortcuts) : Shortcuts[n] \in all_buttons_held}
             first   == CHOOSE n \in pressed : \A m \in pressed : n <= m
  <1>1. /\ pc = "paths" /\ pc' = "search" /\ num_paths' = Len(paths')
        /\ paths' = IF pressed = {} THEN <<"ipl">> ELSE <<Shortcuts[first], "ipl">>
        /\ UNCHANGED <<user, all_buttons_held, video, dev, skipped, kept, st, cand,
                       res, dol>>
    BY DEF ChoosePaths
  <1>2. CASE pressed = {}
    <2>1. paths' = <<"ipl">> /\ num_paths' = 1
      BY <1>1, <1>2
    <2>2. paths' \in Seq(ShortcutButtons \cup {"ipl"}) /\ num_paths' \in 1..MaxPaths
      BY <2>1 DEF MaxPaths
    <2>3. PriorityRespected'
      BY <1>1, <1>2, <2>1 DEF PriorityRespected
    <2> QED
      BY <1>1, <2>2, <2>3
      DEF IInv, TypeOK, KeptInv, SearchInv, user, video, PCs
  <1>3. CASE pressed # {}
    <2>1. pressed \in SUBSET Nat
      OBVIOUS
    <2>2. \E n \in pressed : \A m \in pressed : n <= m
      BY <1>3, <2>1, LeastExists, Zenon
    <2>3. first \in pressed /\ \A m \in pressed : first <= m
      BY <2>2, Zenon
    <2> HIDE DEF first
    <2>4. first \in 1..Len(Shortcuts)
      BY <2>3
    <2>5. paths' = <<Shortcuts[first], "ipl">> /\ num_paths' = 2
      BY <1>1, <1>3
    <2>6. Shortcuts[first] \in ShortcutButtons
      BY <2>4 DEF ShortcutButtons
    <2>7. paths' \in Seq(ShortcutButtons \cup {"ipl"}) /\ num_paths' \in 1..MaxPaths
      BY <2>5, <2>6 DEF MaxPaths
    <2>8. PriorityRespected'
      <3>1. num_paths' = Len(paths') /\ paths'[num_paths'] = "ipl"
        BY <2>5
      <3>2. ASSUME NEW n \in 1..Len(Shortcuts), Shortcuts[n] \in all_buttons_held
            PROVE  \E m \in 1..n : paths'[1] = Shortcuts[m]
        <4>1. first <= n /\ first \in 1..n
          BY <2>3, <2>4, <3>2
        <4> QED
          BY <2>5, <4>1
      <3> QED
        BY <1>1, <3>1, <3>2 DEF PriorityRespected
    <2> QED
      BY <1>1, <2>7, <2>8
      DEF IInv, TypeOK, KeptInv, SearchInv, user, video, PCs
  <1> QED
    BY <1>2, <1>3

-----------------------------------------------------------------------------
(* The other steps                                                         *)

\* A step that leaves the paths alone, and the buttons too from the search on.
LEMMA PriorityKept ==
    ASSUME PriorityRespected, UNCHANGED <<paths, num_paths>>,
           pc' \in {"search", "call", "load", "halt"} =>
               pc \in {"search", "call", "load", "halt"} /\ UNCHANGED all_buttons_held
    PROVE  PriorityRespected'
  BY DEF PriorityRespected

LEMMA StartInv == IInv /\ (WaitVideo \/ Scan) => IInv'
  <1> SUFFICES ASSUME IInv, WaitVideo \/ Scan PROVE IInv'
    OBVIOUS
  <1> USE DEF IInv, user, video, loader
  <1>1. CASE WaitVideo
    <2>1. PriorityRespected'
      BY <1>1, PriorityKept DEF WaitVideo
    <2> QED
      BY <1>1, <2>1 DEF WaitVideo, TypeOK, KeptInv, SearchInv, PCs
  <1>2. CASE Scan
    <2>1. PriorityRespected'
      BY <1>2, PriorityKept DEF Scan
    <2>2. TypeOK'
      BY <1>2 DEF Scan, TypeOK, PCs
    <2>3. KeptInv' /\ SearchInv'
      BY <1>2 DEF Scan, KeptInv, SearchInv
    <2> QED
      BY <2>1, <2>2, <2>3
  <1> QED
    BY <1>1, <1>2

LEMMA CallLoaderInv == IInv /\ CallLoader => IInv'
  <1> SUFFICES ASSUME IInv, CallLoader PROVE IInv'
    OBVIOUS
  <1> USE DEF IInv, user, video, loader
  <1>1. PriorityRespected'
    BY PriorityKept DEF CallLoader, Loader!Call
  <1>2. TypeOK'
    BY BootAssumption DEF CallLoader, Loader!Call, TypeOK, PCs, MaxPaths
  <1>3. KeptInv' /\ SearchInv'
    BY BootAssumption DEF CallLoader, Loader!Call, TypeOK, KeptInv, SearchInv
  <1> QED
    BY <1>1, <1>2, <1>3

LEMMA InLoaderInv == IInv /\ (LoaderStep \/ LoaderReturn) => IInv'
  <1> SUFFICES ASSUME IInv, LoaderStep \/ LoaderReturn PROVE IInv'
    OBVIOUS
  <1> USE DEF IInv, user, video, LoaderStep, LoaderReturn,
              Loader!Load, Loader!Reject, Loader!Hang, Loader!Return
  <1>1. PriorityRespected'
    BY PriorityKept
  <1>2. TypeOK'
    <2>1. /\ st' \in {"idle", "running", "hung"} /\ num_paths' = num_paths
          /\ pc' \in {"call", "search"}
          /\ UNCHANGED <<user, all_buttons_held, video, paths, dev, skipped, kept>>
      BY DEF TypeOK
    <2>2. cand' \in 1..MaxPaths
      BY DEF TypeOK, MaxPaths
    <2>3. res' \in BOOLEAN /\ dol' \in BOOLEAN
      BY Zenon DEF TypeOK
    <2> QED
      BY <2>1, <2>2, <2>3 DEF TypeOK, PCs
  <1>3. KeptInv' /\ SearchInv'
    BY DEF TypeOK, KeptInv, SearchInv
  <1> QED
    BY <1>1, <1>2, <1>3

LEMMA LeaveInv == IInv /\ (LoadDol \/ ExitTest \/ ExitScan) => IInv'
  <1> SUFFICES ASSUME IInv, LoadDol \/ ExitTest \/ ExitScan PROVE IInv'
    OBVIOUS
  <1> USE DEF IInv, user, video, loader, LoadDol, ExitTest, ExitScan
  <1>1. PriorityRespected'
    BY PriorityKept
  <1>2. TypeOK'
    BY DEF TypeOK, PCs
  <1>3. KeptInv'
    BY DEF KeptInv
  <1>4. SearchInv'
    BY DEF SearchInv
  <1> QED
    BY <1>1, <1>2, <1>3, <1>4

LEMMA OutsideInv == IInv /\ (User \/ VideoChange) => IInv'
  <1> SUFFICES ASSUME IInv, User \/ VideoChange PROVE IInv'
    OBVIOUS
  <1> USE DEF IInv, user, video, loader
  <1>1. CASE VideoChange
    <2>1. PriorityRespected'
      BY <1>1, PriorityKept DEF VideoChange
    <2> QED
      BY <1>1, <2>1 DEF VideoChange, TypeOK, KeptInv, SearchInv
  <1>2. CASE ToggleReset
    <2>1. PriorityRespected'
      BY <1>2, PriorityKept DEF ToggleReset
    <2> QED
      BY <1>2, <2>1 DEF ToggleReset, TypeOK, KeptInv, SearchInv
  <1>3. ASSUME NEW b \in Buttons, Toggle(b) PROVE IInv'
    <2>1. PriorityRespected'
      BY <1>3, PriorityKept DEF Toggle
    <2>2. held' \subseteq Buttons /\ kept' \subseteq {"scan", "exit"}
      BY <1>3 DEF Toggle, TypeOK
    <2>3. KeptInv'
      BY <1>3 DEF Toggle, KeptInv
    <2> QED
      BY <1>3, <2>1, <2>2, <2>3 DEF Toggle, TypeOK, SearchInv
  <1> QED
    BY <1>1, <1>2, <1>3 DEF User

LEMMA NextInv == IInv /\ [Next]_vars => IInv'
  <1> SUFFICES ASSUME IInv, [Next]_vars PROVE IInv'
    OBVIOUS
  <1>1. CASE Main
    BY <1>1, StartInv, ChoosePathsInv, CallLoaderInv, LeaveInv DEF Main
  <1>2. CASE LoaderStep \/ LoaderReturn
    BY <1>2, InLoaderInv
  <1>3. CASE User \/ VideoChange
    BY <1>3, OutsideInv
  <1>4. CASE UNCHANGED vars
    BY <1>4 DEF vars, user, video, loader, IInv, TypeOK, PriorityRespected, KeptInv,
                SearchInv
  <1> QED
    BY <1>1, <1>2, <1>3, <1>4 DEF Next

\* The inductive invariant of main.
THEOREM BootInvariant == Spec => []IInv
  BY InitInv, NextInv, PTL DEF Spec

-----------------------------------------------------------------------------
(* What follows from it                                                    *)

\* Every variable keeps its type, for every table and every list of devices.
THEOREM BootTypes == Spec => []TypeOK
  <1>1. IInv => TypeOK
    BY DEF IInv
  <1> QED
    BY BootInvariant, <1>1, PTL

\* Of several shortcuts held at the scan the highest in the table is tried first, and
\* the default path last, whatever the table is.
THEOREM HighestShortcutFirst == Spec => []PriorityRespected
  <1>1. IInv => PriorityRespected
    BY DEF IInv
  <1> QED
    BY BootInvariant, <1>1, PTL

\* No state but a test of the buttons leads to the DOL or to the IPL, and the last scan
\* before it has seen DOWN if it was held ever since the first.
LEMMA HeldDownStep == IInv /\ HeldDownStays /\ [Next]_vars => HeldDownStays'
  <1> SUFFICES ASSUME IInv, HeldDownStays, [Next]_vars PROVE HeldDownStays'
    OBVIOUS
  <1> USE DEF HeldDownStays, user, video, loader
  <1>1. CASE WaitVideo \/ Scan \/ ChoosePaths \/ CallLoader
    BY <1>1 DEF WaitVideo, Scan, ChoosePaths, CallLoader
  <1>2. CASE LoadDol \/ ExitTest \/ ExitScan
    BY <1>2 DEF LoadDol, ExitTest, ExitScan, IInv, KeptInv
  <1>3. CASE LoaderStep \/ LoaderReturn
    BY <1>3 DEF LoaderStep, LoaderReturn
  <1>4. CASE User \/ VideoChange
    BY <1>4 DEF User, Toggle, ToggleReset, VideoChange
  <1>5. CASE UNCHANGED vars
    BY <1>5 DEF vars
  <1> QED
    BY <1>1, <1>2, <1>3, <1>4, <1>5 DEF Next, Main

\* A user who holds DOWN from the scan at the start on sees the messages for as long
\* as he does, whichever way main leaves.
THEOREM HeldDownNeverLeaves == Spec => []HeldDownStays
  <1>1. Init => HeldDownStays
    BY DEF Init, HeldDownStays
  <1> QED
    BY <1>1, BootInvariant, HeldDownStep, PTL DEF Spec

-----------------------------------------------------------------------------
(* main implements BootPromise                                             *)

LEMMA InitPromise == Init => Promise!Init
  BY DEF outcome, Init, Promise!Init

\* Up to the search nothing is seen but a skip.
LEMMA StartPromise ==
    ASSUME IInv, WaitVideo \/ Scan \/ ChoosePaths
    PROVE  Promise!Skip \/ UNCHANGED Promise!vars
  <1> USE DEF user, video, loader, IInv, SearchInv, Promise!vars
  <1>1. CASE WaitVideo
    BY <1>1 DEF outcome, WaitVideo
  <1>2. CASE Scan
    BY <1>2 DEF outcome, Scan, Promise!Skip
  <1>3. CASE ChoosePaths
    BY <1>3 DEF outcome, ChoosePaths
  <1> QED
    BY <1>1, <1>2, <1>3

\* A call goes to the next device, and there is none when one has a DOL.
LEMMA CallPromise ==
    ASSUME IInv, CallLoader
    PROVE  Promise!NextDevice \/ UNCHANGED Promise!vars
  <1> USE DEF CallLoader, IInv, SearchInv
  <1>1. CASE res \/ dev = Len(Devices)
    BY <1>1 DEF outcome, loader, Promise!vars
  <1>2. CASE ~(res \/ dev = Len(Devices))
    <2>1. /\ pc = "search" /\ pc' = "call" /\ dev' = dev + 1 /\ cand' = 1
          /\ st = "idle" /\ st' = "running" /\ ~dol /\ ~dol' /\ ~skipped /\ ~skipped'
      BY <1>2 DEF Loader!Call
    <2>2. dev < Len(Devices) /\ dev' # 0
      <3>1. Len(Devices) \in Nat /\ dev \in 0..Len(Devices)
        BY BootAssumption DEF TypeOK
      <3> QED
        BY <1>2, <2>1, <3>1
    <2>3. outcome \in {"starting", "searching"} /\ outcome' = "searching"
      BY <2>1, <2>2 DEF outcome
    <2> QED
      BY <2>1, <2>2, <2>3 DEF Promise!NextDevice
  <1> QED
    BY <1>1, <1>2

\* Within a call a path is given up, or chosen, or the device hangs.
LEMMA LoaderPromised ==
    ASSUME IInv, LoaderStep \/ LoaderReturn
    PROVE  \/ Promise!NextPath \/ Promise!Choose \/ Promise!Hang
           \/ UNCHANGED Promise!vars
  <1>1. pc = "call" /\ dev # 0 /\ ~skipped /\ UNCHANGED <<dev, skipped>> /\ st = "running"
    BY DEF IInv, SearchInv, LoaderStep, LoaderReturn, Loader!Load, Loader!Reject,
           Loader!Hang, Loader!Return
  <1>2. outcome = IF dol THEN "loading" ELSE "searching"
    BY <1>1 DEF outcome
  <1>3. CASE LoaderReturn
    BY <1>1, <1>2, <1>3 DEF outcome, LoaderReturn, Loader!Return, Promise!vars
  <1>4. CASE LoaderStep /\ Loader!Load
    BY <1>1, <1>2, <1>4 DEF outcome, LoaderStep, Loader!Load, Promise!Choose
  <1>5. CASE LoaderStep /\ Loader!Reject
    <2>1. /\ ~dol /\ ~dol' /\ cand < num_paths /\ cand' = cand + 1 /\ st' = "running"
          /\ pc' = "call"
      BY <1>5, <1>1 DEF LoaderStep, Loader!Reject
    <2>2. cand < MaxPaths
      BY <2>1 DEF IInv, TypeOK, MaxPaths
    <2>3. outcome = "searching" /\ outcome' = "searching"
      BY <1>1, <1>2, <2>1 DEF outcome
    <2> QED
      BY <1>1, <2>1, <2>2, <2>3 DEF Promise!NextPath
  <1>6. CASE LoaderStep /\ Loader!Hang
    BY <1>1, <1>2, <1>6 DEF outcome, LoaderStep, Loader!Hang, Promise!Hang
  <1> QED
    BY <1>3, <1>4, <1>5, <1>6 DEF LoaderStep

\* main halts when every device was searched in vain; it boots the DOL that was chosen.
LEMMA LeavePromise ==
    ASSUME IInv, LoadDol \/ ExitTest \/ ExitScan
    PROVE  HaltsInstead \/ Promise!Boot \/ UNCHANGED Promise!vars
  <1> USE DEF loader, IInv, SearchInv
  <1>1. CASE LoadDol
    <2>1. CASE dol
      BY <1>1, <2>1 DEF outcome, LoadDol, Promise!vars
    <2>2. CASE ~dol
      <3>1. dev = Len(Devices) /\ dev # 0
        <4>1. Len(Devices) # 0
          BY BootAssumption
        <4> QED
          BY <1>1, <2>2, <4>1 DEF LoadDol
      <3> QED
        BY <1>1, <2>2, <3>1 DEF outcome, LoadDol, HaltsInstead
    <2> QED
      BY <2>1, <2>2
  <1>2. CASE ExitTest
    BY <1>2 DEF outcome, ExitTest, Promise!Boot, Promise!vars
  <1>3. CASE ExitScan
    BY <1>3 DEF outcome, ExitScan, Promise!vars
  <1> QED
    BY <1>1, <1>2, <1>3

\* What the user and the hardware do, and a stutter, cannot be seen.
LEMMA OutsidePromise ==
    ASSUME User \/ VideoChange \/ UNCHANGED vars
    PROVE  UNCHANGED Promise!vars
  <1>1. UNCHANGED <<pc, skipped, loader, dev>>
    BY DEF User, Toggle, ToggleReset, VideoChange, vars
  <1> QED
    BY <1>1 DEF loader, outcome, Promise!vars

LEMMA StepPromise ==
    IInv /\ [Next]_vars => [Promise!Next \/ HaltsInstead]_(Promise!vars)
  BY StartPromise, CallPromise, LoaderPromised, LeavePromise, OutsidePromise
  DEF Next, Main, Promise!Next

\* main implements BootPromise but for one step: whatever the user and the devices do,
\* it goes through the devices, and through the paths on each, in order, chooses the
\* first DOL that can be loaded, and boots no other; but when all devices were searched
\* in vain, it halts where the promise is to reboot to the IPL.
THEOREM BootRefinement == Spec => KeepsPromise
  <1> QED
    BY InitPromise, BootInvariant, StepPromise, PTL DEF Spec, KeepsPromise
=============================================================================
