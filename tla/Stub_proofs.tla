----------------------------- MODULE Stub_proofs -----------------------------
(***************************************************************************)
(* memmove is correct for every size of memory and every overlap: MoveInv  *)
(* is an inductive invariant of MemMove.  Every call that not_main makes   *)
(* of it is one of those calls: MoveInv holds throughout the stub,         *)
(* whatever the header is, as long as its sections lie in memory.  And     *)
(* where the header is one that the order of the stub suits, all sections  *)
(* are in their places in the end, with nothing written over them.         *)
(***************************************************************************)
EXTENDS Stub, TLAPS

-----------------------------------------------------------------------------
(* One call of memmove.                                                    *)

\* At the entry of memmove no byte has moved yet.
LEMMA InitInv == MoveInit => MoveInv
  BY MemMoveAssumption DEF MoveInit, MoveInv, MoveTypeOK, Progress, Correct, Addr

\* The step that could overtake itself: the byte read lies in front of all
\* the bytes written so far.
LEMMA UpInv == MoveInv /\ CopyUp => MoveInv'
  <1> SUFFICES ASSUME MoveInv, CopyUp PROVE MoveInv'
    OBVIOUS
  <1> USE MemMoveAssumption DEF MoveInv, MoveTypeOK, Addr, call
  <1>1. CASE i < size
    <2>1. /\ mem' = [mem EXCEPT ![d + i] = mem[s + i]]
          /\ i' = i + 1 /\ pc = "up" /\ pc' = "up"
          /\ UNCHANGED <<d, s, size, old>>
      BY <1>1 DEF CopyUp
    <2>2. mem[s + i] = old[s + i]
      BY <1>1, <2>1 DEF Progress, Moved, Within
    <2>3. MoveTypeOK'
      BY <1>1, <2>1
    <2>4. mem' = Moved(old, d, s, i + 1)
      <3>1. ASSUME NEW x \in Addr
            PROVE  mem'[x] = IF Within(x, d, i + 1) THEN old[x - d + s] ELSE old[x]
        <4>1. mem[x] = IF Within(x, d, i) THEN old[x - d + s] ELSE old[x]
          BY <2>1 DEF Progress, Moved
        <4>2. mem'[x] = IF x = d + i THEN mem[s + i] ELSE mem[x]
          BY <1>1, <2>1
        <4> QED
          BY <4>1, <4>2, <2>2, <1>1 DEF Within
      <3> QED
        BY <2>3, <3>1 DEF Moved
    <2> QED
      BY <2>1, <2>3, <2>4 DEF Progress, Correct
  <1>2. CASE i >= size
    <2>1. UNCHANGED <<mem, i, d, s, size, old>> /\ pc = "up" /\ pc' = "done"
      BY <1>2 DEF CopyUp
    <2>2. i = size
      BY <1>2
    <2> QED
      BY <2>1, <2>2 DEF Progress, Correct, Moved
  <1> QED
    BY <1>1, <1>2

\* The same downwards: the byte read lies below all the bytes written.
LEMMA DownInv == MoveInv /\ CopyDown => MoveInv'
  <1> SUFFICES ASSUME MoveInv, CopyDown PROVE MoveInv'
    OBVIOUS
  <1> USE MemMoveAssumption DEF MoveInv, MoveTypeOK, Addr, call
  <1>1. CASE i > 0
    <2>1. /\ mem' = [mem EXCEPT ![d + (i - 1)] = mem[s + (i - 1)]]
          /\ i' = i - 1 /\ pc = "down" /\ pc' = "down"
          /\ UNCHANGED <<d, s, size, old>>
      BY <1>1 DEF CopyDown
    <2>2. mem[s + (i - 1)] = old[s + (i - 1)]
      BY <1>1, <2>1 DEF Progress, Moved, Within
    <2>3. MoveTypeOK'
      BY <1>1, <2>1
    <2>4. mem' = Moved(old, d + (i - 1), s + (i - 1), size - (i - 1))
      <3>1. ASSUME NEW x \in Addr
            PROVE  mem'[x] = IF Within(x, d + (i - 1), size - (i - 1))
                             THEN old[x - (d + (i - 1)) + (s + (i - 1))] ELSE old[x]
        <4>1. mem[x] = IF Within(x, d + i, size - i)
                       THEN old[x - (d + i) + (s + i)] ELSE old[x]
          BY <2>1 DEF Progress, Moved
        <4>2. mem'[x] = IF x = d + (i - 1) THEN mem[s + (i - 1)] ELSE mem[x]
          BY <1>1, <2>1
        <4>3. x - (d + i) + (s + i) = x - (d + (i - 1)) + (s + (i - 1))
          OBVIOUS
        <4> QED
          BY <4>1, <4>2, <4>3, <2>2, <1>1 DEF Within
      <3> QED
        BY <2>3, <3>1 DEF Moved
    <2> QED
      BY <2>1, <2>3, <2>4 DEF Progress, Correct
  <1>2. CASE i <= 0
    <2>1. UNCHANGED <<mem, i, d, s, size, old>> /\ pc = "down" /\ pc' = "done"
      BY <1>2 DEF CopyDown
    <2>2. i = 0
      BY <1>2
    <2>3. mem = Moved(old, d, s, size)
      BY <2>1, <2>2 DEF Progress, Moved, Within
    <2> QED
      BY <2>1, <2>3 DEF Progress, Correct, Moved
  <1> QED
    BY <1>1, <1>2

\* The choice of a direction moves nothing and starts i at the matching end.
LEMMA DirectionInv == MoveInv /\ Direction => MoveInv'
  <1> SUFFICES ASSUME MoveInv, Direction PROVE MoveInv'
    OBVIOUS
  <1> USE MemMoveAssumption DEF MoveInv, MoveTypeOK, Addr, call
  <1>1. mem = old /\ UNCHANGED <<mem, d, s, size, old>>
    BY DEF Direction, Progress
  <1>2. CASE d < s
    BY <1>1, <1>2 DEF Direction, Progress, Correct, Moved, Within
  <1>3. CASE d > s
    BY <1>1, <1>3 DEF Direction, Progress, Correct, Moved, Within
  <1>4. CASE d = s
    BY <1>1, <1>4 DEF Direction, Progress, Correct, Moved, Within
  <1> QED
    BY <1>2, <1>3, <1>4

\* At every moment of memmove the bytes done are right and those to be read are
\* untouched.
THEOREM MemMoveInvariant == MoveSpec => []MoveInv
  <1>1. MoveInv /\ UNCHANGED move_vars => MoveInv'
    BY DEF MoveInv, MoveTypeOK, Progress, Correct, move_vars, call
  <1>2. MoveInv /\ [MoveNext]_move_vars => MoveInv'
    BY <1>1, UpInv, DownInv, DirectionInv DEF MoveNext
  <1> QED
    BY InitInv, <1>2, PTL DEF MoveSpec

\* memmove leaves at the destination what was at the source when it was called,
\* for every overlap, and the rest of memory alone.
THEOREM MemMoveCorrect == MoveSpec => []Correct
  <1>1. MoveInv => Correct
    BY DEF MoveInv
  <1> QED
    BY MemMoveInvariant, <1>1, PTL

-----------------------------------------------------------------------------
(* The calls of the stub.                                                  *)

\* memmove runs while the sections are moved and at no other time.
StubInv == TypeOK /\ MoveInv /\ (stage # "sections" => pc = "done")

LEMMA StubInit == Init => StubInv
  BY MemMoveAssumption, StubAssumption
  DEF Init, StubInv, TypeOK, MoveInv, MoveTypeOK, Progress, Correct, Moved, Within, Addr

\* A header says where a section is from and where it goes, both within memory.
LEMMA SectionFits ==
    ASSUME TypeOK, NEW n \in Sections
    PROVE  /\ header.section[n] \in Nat /\ Source(n) \in Nat
           /\ header.section_size[n] \in Nat
           /\ Source(n) + header.section_size[n] <= MemSize
           /\ header.section[n] + header.section_size[n] <= MemSize
  BY MemMoveAssumption DEF TypeOK, Header, Fits, Source, Addr

LEMMA MoveSectionInv == StubInv /\ MoveSection => StubInv'
  <1> SUFFICES ASSUME StubInv, MoveSection PROVE StubInv'
    OBVIOUS
  <1> DEFINE n == IF forward THEN k ELSE NumSections - 1 - k
  <1>1. n \in Sections
    BY StubAssumption DEF StubInv, TypeOK, MoveSection, Sections
  <1>2. /\ d' = header.section[n] /\ s' = Source(n) /\ size' = header.section_size[n]
        /\ old' = mem /\ mem' = mem /\ i' = 0 /\ pc' = "start" /\ stage' = "sections"
        /\ k' = k + 1 /\ UNCHANGED <<header, arglen, forward>>
    BY DEF MoveSection, Called
  <1> HIDE DEF n
  <1>3. MoveTypeOK'
    BY <1>1, <1>2, SectionFits DEF StubInv, TypeOK, MoveTypeOK
  <1>4. MoveInv'
    BY <1>2, <1>3 DEF MoveInv, Progress, Correct
  <1>5. k' \in 0..NumSections
    BY <1>2, StubAssumption DEF StubInv, TypeOK, MoveSection
  <1> QED
    BY <1>2, <1>3, <1>4, <1>5 DEF StubInv, TypeOK

LEMMA MovingInv == StubInv /\ Moving => StubInv'
  <1> SUFFICES ASSUME StubInv, Moving PROVE StubInv'
    OBVIOUS
  <1>1. MoveInv'
    BY UpInv, DownInv, DirectionInv DEF StubInv, Moving, MoveNext
  <1>2. pc # "done"
    BY DEF Moving, MoveNext, Direction, CopyUp, CopyDown
  <1> QED
    BY <1>1, <1>2 DEF StubInv, TypeOK, Moving, MoveInv

\* A write of the stub itself: nothing is left of the last call.
LEMMA WriteInv ==
    ASSUME StubInv, stage # "sections", stage' \in {"entry", "done"},
           NEW m \in [Addr -> Value], Write(m)
    PROVE  StubInv'
  <1>1. MoveTypeOK'
    BY MemMoveAssumption DEF Write, StubInv, TypeOK, MoveTypeOK
  <1>2. MoveInv'
    BY <1>1 DEF Write, StubInv, MoveInv, Progress, Correct, Moved, Within, Addr
  <1> QED
    BY <1>1, <1>2 DEF Write, StubInv, TypeOK

LEMMA StubStep == StubInv /\ [Next]_vars => StubInv'
  <1> SUFFICES ASSUME StubInv, [Next]_vars PROVE StubInv'
    OBVIOUS
  <1>1. CASE SectionOrder
    BY <1>1 DEF SectionOrder, StubInv, TypeOK, MoveInv, MoveTypeOK, Progress, Correct,
                move_vars, call
  <1>2. CASE MoveSection
    BY <1>2, MoveSectionInv
  <1>3. CASE Moving
    BY <1>3, MovingInv
  <1>4. CASE SectionsDone
    BY <1>4 DEF SectionsDone, StubInv, TypeOK, MoveInv, MoveTypeOK, Progress, Correct,
                move_vars, call
  <1>5. CASE ClearBss
    <2>1. Zeroed(mem, header.bss, header.bss_size, ZERO) \in [Addr -> Value]
      BY StubAssumption DEF Zeroed, StubInv, TypeOK, MoveTypeOK
    <2> QED
      BY <1>5, <2>1, WriteInv DEF ClearBss
  <1>6. CASE GiveArgs
    <2>1. (IF Magic /\ arglen
           THEN [mem EXCEPT ![header.entrypoint + 2] = ARGS] ELSE mem) \in [Addr -> Value]
      BY StubAssumption DEF StubInv, TypeOK, MoveTypeOK
    <2> QED
      BY <1>6, <2>1, WriteInv DEF GiveArgs
  <1>7. CASE UNCHANGED vars
    BY <1>7 DEF vars, StubInv, TypeOK, MoveInv, MoveTypeOK, Progress, Correct,
                move_vars, call
  <1> QED
    BY <1>1, <1>2, <1>3, <1>4, <1>5, <1>6, <1>7 DEF Next

\* The inductive invariant of the stub.
THEOREM StubInvariant == Spec => []StubInv
  BY StubInit, StubStep, PTL DEF Spec

\* Each section, however its place overlaps the DOL, arrives as it was when its turn
\* came, for every memory, number of sections and header that fits in memory.
THEOREM SectionsArrive == Spec => []Correct
  <1>1. StubInv => Correct
    BY DEF StubInv, MoveInv
  <1> QED
    BY StubInvariant, <1>1, PTL

\* Every move reads and writes within memory.
THEOREM StubTypes == Spec => []TypeOK
  <1>1. StubInv => TypeOK
    BY DEF StubInv
  <1> QED
    BY StubInvariant, <1>1, PTL

-----------------------------------------------------------------------------
(* The whole DOL.                                                          *)

\* The sections memmove has been called for, and the last of them.
Behind  == {n \in Sections : IF forward THEN n < k ELSE n >= NumSections - k}
Current == IF forward THEN k - 1 ELSE NumSections - k

\* A section lies in m as it lay in the memory the stub began with.
Arrived(m, x, n) == InSection(x, n) => m[x] = x - header.section[n] + Source(n)

\* The memory m in which the sections of done have moved and nothing else has.
Placed(m, done) ==
    \A x \in Addr :
        /\ \A n \in done : Arrived(m, x, n)
        /\ (\A n \in done : ~InSection(x, n)) => m[x] = x

\* Like that, with the bss cleared.
Cleared(m) ==
    \A x \in Addr :
        /\ \A n \in Sections : Arrived(m, x, n)
        /\ (\A n \in Sections : ~InSection(x, n)) =>
               m[x] = IF InBss(x) THEN ZERO ELSE x

\* What LoadsDol asks of a header.
Sound == WellFormed /\ (Apart \/ SortedOneWay)

\* The direction is that of the first section.
OrderInv ==
    /\ stage = "direction" => mem = [x \in Addr |-> x] /\ k = 0
    /\ stage = "sections" => (forward <=> header.section[0] < Source(0))

\* The sections behind have arrived, all of them or all but the one under way.
PlacedInv ==
    Sound =>
        /\ stage = "sections" /\ pc = "done" => Placed(mem, Behind)
        /\ stage = "sections" /\ pc # "done" =>
               /\ Current \in Behind
               /\ d = header.section[Current] /\ s = Source(Current)
               /\ size = header.section_size[Current]
               /\ Placed(old, Behind \ {Current})
        /\ stage = "bss" => Placed(mem, Sections)
        /\ stage = "entry" => Cleared(mem)

DolInv == StubInv /\ OrderInv /\ PlacedInv /\ LoadsDol

\* Why the order of the moves is right: no section behind has landed on the source of
\* the one that moves now.
LEMMA SourceUntouched ==
    ASSUME StubInv, OrderInv, Sound, stage = "sections", Current \in Behind,
           NEW n \in Behind, n # Current, NEW x \in Addr,
           InSection(x, n), InSource(x, Current)
    PROVE  FALSE
  <1>1. n \in Sections /\ Current \in Sections
    BY DEF Behind
  <1>2. CASE Apart
    BY <1>1, <1>2 DEF Apart
  <1>3. CASE SortedOneWay
    <2>0. /\ x \in Int /\ k \in 0..NumSections /\ n \in Nat /\ Current \in Nat
          /\ NumSections \in Nat /\ Source(n) \in Nat /\ Source(Current) \in Nat
          /\ header.section[n] \in Nat /\ header.section_size[n] \in Nat
          /\ header.section_size[Current] \in Nat
          /\ 0 \in Sections /\ header.section[0] \in Nat /\ Source(0) \in Nat
          /\ header.section_size[0] \in Nat
      <3>1. 0 \in Sections /\ n \in Nat /\ Current \in Nat /\ NumSections \in Nat
        BY <1>1, StubAssumption DEF Sections
      <3>2. TypeOK /\ k \in 0..NumSections /\ x \in Int
        BY MemMoveAssumption DEF StubInv, TypeOK, Addr
      <3> QED
        BY <1>1, <3>1, <3>2, SectionFits
    <2>1. n \in Used /\ Current \in Used /\ 0 \in Used
      BY <1>1, <2>0 DEF Used, InSection, InSource, Within, Sound, WellFormed
    <2>2. \/ \A m \in Used : header.section[m] < Source(m)
          \/ \A m \in Used : header.section[m] >= Source(m)
      BY <1>3 DEF SortedOneWay
    <2>3. /\ header.section[n] <= x /\ x < header.section[n] + header.section_size[n]
          /\ Source(Current) <= x /\ x < Source(Current) + header.section_size[Current]
      BY DEF InSection, InSource, Within
    <2>4. CASE forward
      <3>1. header.section[n] < Source(n)
        BY <2>0, <2>1, <2>2, <2>4 DEF OrderInv
      <3>2. n < Current
        BY <2>0, <2>4 DEF Behind, Current
      <3>3. Source(n) + header.section_size[n] <= Source(Current)
        BY <1>3, <2>1, <3>2 DEF SortedOneWay
      <3> QED
        BY <2>0, <2>3, <3>1, <3>3
    <2>5. CASE ~forward
      <3>1. header.section[n] >= Source(n)
        BY <2>0, <2>1, <2>2, <2>5 DEF OrderInv
      <3>2. Current < n
        BY <2>0, <2>5 DEF Behind, Current
      <3>3. Source(Current) + header.section_size[Current] <= Source(n)
        BY <1>3, <2>1, <3>2 DEF SortedOneWay
      <3> QED
        BY <2>0, <2>3, <3>1, <3>3
    <2> QED
      BY <2>4, <2>5
  <1> QED
    BY <1>2, <1>3 DEF Sound

\* A call of memmove brings one more section to its place.
LEMMA OneMorePlaced ==
    ASSUME StubInv, OrderInv, Sound, stage = "sections", Current \in Behind,
           Placed(old, Behind \ {Current}), NEW m,
           m = Moved(old, header.section[Current], Source(Current),
                     header.section_size[Current])
    PROVE  Placed(m, Behind)
  <1> SUFFICES ASSUME NEW x \in Addr
               PROVE  /\ \A n \in Behind : Arrived(m, x, n)
                      /\ (\A n \in Behind : ~InSection(x, n)) => m[x] = x
    BY DEF Placed
  <1>0. /\ Current \in Sections /\ DOMAIN old = Addr /\ x \in Int
        /\ \A n \in Behind : n \in Sections
    BY MemMoveAssumption DEF Behind, StubInv, TypeOK, MoveTypeOK, Addr
  <1>1. /\ header.section[Current] \in Nat /\ Source(Current) \in Nat
        /\ header.section_size[Current] \in Nat
        /\ Source(Current) + header.section_size[Current] <= MemSize
    BY <1>0, SectionFits DEF StubInv
  <1>2. m[x] = IF InSection(x, Current)
               THEN old[x - header.section[Current] + Source(Current)] ELSE old[x]
    BY <1>0 DEF Moved, InSection
  <1>3. CASE InSection(x, Current)
    <2> DEFINE y == x - header.section[Current] + Source(Current)
    <2>1. y \in Addr /\ InSource(y, Current)
      BY <1>0, <1>1, <1>3, MemMoveAssumption, SMTT(20) DEF InSection, InSource, Within, Addr
    <2> HIDE DEF y
    <2>2. \A n \in Behind \ {Current} : ~InSection(y, n)
      BY <2>1, SourceUntouched
    <2>3. old[y] = y
      BY <2>1, <2>2 DEF Placed
    <2>4. m[x] = x - header.section[Current] + Source(Current)
      BY <1>2, <1>3, <2>3 DEF y
    <2>5. \A n \in Behind : InSection(x, n) => n = Current
      BY <1>0, <1>3 DEF Sound, WellFormed
    <2> QED
      BY <1>3, <2>4, <2>5 DEF Arrived
  <1>4. CASE ~InSection(x, Current)
    <2>1. m[x] = old[x]
      BY <1>2, <1>4
    <2>2. \A n \in Behind \ {Current} : Arrived(old, x, n)
      BY DEF Placed
    <2>3. (\A n \in Behind \ {Current} : ~InSection(x, n)) => old[x] = x
      BY DEF Placed
    <2> QED
      BY <1>4, <2>1, <2>2, <2>3 DEF Arrived
  <1> QED
    BY <1>3, <1>4

\* The header is never written, and with it nothing changes that is said about it.
LEMMA HeaderKept ==
    ASSUME UNCHANGED header
    PROVE  /\ Sound' <=> Sound
           /\ \A m, done : Placed(m, done)' <=> Placed(m, done)
           /\ \A m : Cleared(m)' <=> Cleared(m)
  <1>1. Sound' <=> Sound
    BY DEF Sound, WellFormed, Apart, SortedOneWay, Used, InSection, InSource, InBss,
           Source, Within
  <1>2. \A m, done : Placed(m, done)' <=> Placed(m, done)
    BY DEF Placed, Arrived, InSection, Source, Within
  <1>3. \A m : Cleared(m)' <=> Cleared(m)
    BY DEF Cleared, Arrived, InSection, InBss, Source, Within
  <1> QED
    BY <1>1, <1>2, <1>3

LEMMA SectionOrderPlaces == DolInv /\ SectionOrder => DolInv'
  <1> SUFFICES ASSUME DolInv, SectionOrder PROVE DolInv'
    OBVIOUS
  <1> USE DEF DolInv
  <1>1. StubInv'
    BY StubStep DEF Next
  <1>2. /\ stage = "direction" /\ stage' = "sections" /\ pc = "done"
        /\ mem = [x \in Addr |-> x] /\ k = 0
        /\ (forward' <=> header.section[0] < Source(0))
        /\ UNCHANGED <<mem, old, pc, k, header>>
    BY DEF SectionOrder, StubInv, OrderInv, move_vars, call
  <1>3. OrderInv'
    BY <1>2 DEF OrderInv, Source
  <1>4. PlacedInv'
    <2>1. \A n \in Sections : ~(IF forward' THEN n < k' ELSE n >= NumSections - k')
      BY <1>2, StubAssumption DEF Sections
    <2>2. Behind' = {}
      BY <2>1 DEF Behind
    <2>3. Placed(mem, {})
      BY <1>2 DEF Placed
    <2>4. Placed(mem', Behind')
      BY <1>2, <2>2, <2>3
    <2>5. Placed(mem, Behind)'
      BY <1>2, <2>4, HeaderKept
    <2> QED
      BY <1>2, <2>5 DEF PlacedInv
  <1>5. LoadsDol'
    BY <1>2 DEF LoadsDol
  <1> QED
    BY <1>1, <1>3, <1>4, <1>5

LEMMA MoveSectionPlaces == DolInv /\ MoveSection => DolInv'
  <1> SUFFICES ASSUME DolInv, MoveSection PROVE DolInv'
    OBVIOUS
  <1> USE DEF DolInv
  <1> DEFINE n == IF forward THEN k ELSE NumSections - 1 - k
  <1>0. k \in 0..NumSections /\ k < NumSections /\ NumSections \in Nat
    BY StubAssumption DEF StubInv, TypeOK, MoveSection
  <1>1. StubInv'
    BY StubStep DEF Next
  <1>2. /\ d' = header.section[n] /\ s' = Source(n) /\ size' = header.section_size[n]
        /\ old' = mem /\ pc' = "start" /\ stage = "sections" /\ stage' = "sections"
        /\ pc = "done" /\ k' = k + 1 /\ UNCHANGED <<header, forward>>
    BY DEF MoveSection, Called
  <1>3. Current' = n
    BY <1>0, <1>2 DEF Current
  <1>4. n \in Sections /\ n \notin Behind
    BY <1>0 DEF Sections, Behind
  <1>5. Behind' = Behind \cup {n}
    <2>1. ASSUME NEW m \in Sections
          PROVE  (IF forward' THEN m < k' ELSE m >= NumSections - k') <=>
                     (m = n \/ IF forward THEN m < k ELSE m >= NumSections - k)
      BY <1>0, <1>2 DEF Sections
    <2> QED
      BY <2>1, <1>4 DEF Behind
  <1> HIDE DEF n
  <1>6. OrderInv'
    BY <1>2 DEF OrderInv, Source
  <1>7. PlacedInv'
    <2> SUFFICES ASSUME Sound'
                 PROVE  /\ Current' \in Behind'
                        /\ d' = header'.section[Current'] /\ s' = Source(Current)'
                        /\ size' = header'.section_size[Current']
                        /\ Placed(old, Behind \ {Current})'
      BY <1>2 DEF PlacedInv
    <2>1. Placed(mem, Behind)
      BY <1>2, HeaderKept DEF PlacedInv
    <2>2. Behind' \ {Current'} = Behind
      BY <1>3, <1>4, <1>5
    <2>3. Placed(old', Behind' \ {Current'})
      BY <1>2, <2>1, <2>2
    <2>4. Placed(old, Behind \ {Current})'
      BY <1>2, <2>3, HeaderKept
    <2>5. s' = Source(Current)'
      BY <1>2, <1>3 DEF Source
    <2> QED
      BY <1>2, <1>3, <1>5, <2>4, <2>5
  <1>8. LoadsDol'
    BY <1>2 DEF LoadsDol
  <1> QED
    BY <1>1, <1>6, <1>7, <1>8

LEMMA MovingPlaces == DolInv /\ Moving => DolInv'
  <1> SUFFICES ASSUME DolInv, Moving PROVE DolInv'
    OBVIOUS
  <1> USE DEF DolInv
  <1>1. StubInv'
    BY StubStep DEF Next
  <1>2. pc # "done" /\ UNCHANGED <<d, s, size, old, header, k, forward, stage>>
    BY DEF Moving, MoveNext, Direction, CopyUp, CopyDown, call
  <1>3. stage = "sections"
    BY <1>2 DEF StubInv
  <1>4. UNCHANGED <<Behind, Current>>
    BY <1>2 DEF Behind, Current
  <1>5. OrderInv'
    BY <1>2, <1>3 DEF OrderInv, Source
  <1>6. PlacedInv'
    <2> SUFFICES ASSUME Sound
                 PROVE  /\ pc' = "done" => Placed(mem, Behind)'
                        /\ pc' # "done" =>
                               /\ Current' \in Behind'
                               /\ d' = header'.section[Current'] /\ s' = Source(Current)'
                               /\ size' = header'.section_size[Current']
                               /\ Placed(old, Behind \ {Current})'
      BY <1>2, <1>3, HeaderKept DEF PlacedInv
    <2>1. /\ Current \in Behind
          /\ d = header.section[Current] /\ s = Source(Current)
          /\ size = header.section_size[Current]
          /\ Placed(old, Behind \ {Current})
      BY <1>2, <1>3 DEF PlacedInv
    <2>2. CASE pc' = "done"
      <3>1. mem' = Moved(old', d', s', size')
        BY <1>1, <2>2 DEF StubInv, MoveInv, Correct
      <3>2. mem' = Moved(old, header.section[Current], Source(Current),
                         header.section_size[Current])
        BY <1>2, <2>1, <3>1
      <3>3. Placed(mem', Behind)
        BY <1>3, <2>1, <3>2, OneMorePlaced
      <3>4. Placed(mem, Behind)'
        BY <1>2, <1>4, <3>3, HeaderKept
      <3> QED
        BY <2>2, <3>4
    <2>3. CASE pc' # "done"
      <3>1. Placed(old', Behind' \ {Current'})
        BY <1>2, <1>4, <2>1
      <3>2. Placed(old, Behind \ {Current})'
        BY <1>2, <3>1, HeaderKept
      <3>3. Source(Current)' = Source(Current)
        BY <1>2, <1>4 DEF Source
      <3> QED
        BY <1>2, <1>4, <2>1, <2>3, <3>2, <3>3
    <2> QED
      BY <2>2, <2>3
  <1>7. LoadsDol'
    BY <1>2, <1>3 DEF LoadsDol
  <1> QED
    BY <1>1, <1>5, <1>6, <1>7

LEMMA SectionsDonePlaces == DolInv /\ SectionsDone => DolInv'
  <1> SUFFICES ASSUME DolInv, SectionsDone PROVE DolInv'
    OBVIOUS
  <1> USE DEF DolInv
  <1>1. StubInv'
    BY StubStep DEF Next
  <1>2. /\ stage = "sections" /\ stage' = "bss" /\ pc = "done" /\ k = NumSections
        /\ UNCHANGED <<mem, header>>
    BY DEF SectionsDone, move_vars
  <1>3. Behind = Sections
    BY <1>2, StubAssumption DEF Behind, Sections
  <1>4. PlacedInv'
    <2> SUFFICES ASSUME Sound PROVE Placed(mem, Sections)'
      BY <1>2, HeaderKept DEF PlacedInv
    <2>1. Placed(mem', Sections)
      BY <1>2, <1>3 DEF PlacedInv
    <2> QED
      BY <1>2, <2>1, HeaderKept
  <1> QED
    BY <1>1, <1>2, <1>4 DEF OrderInv, LoadsDol

\* The bss is cleared where no section is.
LEMMA ClearBssPlaces == DolInv /\ ClearBss => DolInv'
  <1> SUFFICES ASSUME DolInv, ClearBss PROVE DolInv'
    OBVIOUS
  <1> USE DEF DolInv
  <1>1. StubInv'
    BY StubStep DEF Next
  <1>2. /\ stage = "bss" /\ stage' = "entry" /\ pc' = pc /\ UNCHANGED header
        /\ mem' = Zeroed(mem, header.bss, header.bss_size, ZERO)
    BY DEF ClearBss, Write
  <1>3. PlacedInv'
    <2> SUFFICES ASSUME Sound PROVE Cleared(mem')
      BY <1>2, HeaderKept DEF PlacedInv
    <2> SUFFICES ASSUME NEW x \in Addr
                 PROVE  /\ \A n \in Sections : Arrived(mem', x, n)
                        /\ (\A n \in Sections : ~InSection(x, n)) =>
                               mem'[x] = IF InBss(x) THEN ZERO ELSE x
      BY DEF Cleared
    <2>1. mem'[x] = IF InBss(x) THEN ZERO ELSE mem[x]
      BY <1>2 DEF Zeroed, InBss, StubInv, TypeOK, MoveTypeOK
    <2>2. /\ \A n \in Sections : Arrived(mem, x, n)
          /\ (\A n \in Sections : ~InSection(x, n)) => mem[x] = x
      BY <1>2 DEF PlacedInv, Placed
    <2>3. InBss(x) => \A n \in Sections : ~InSection(x, n)
      BY DEF Sound, WellFormed
    <2> QED
      BY <2>1, <2>2, <2>3 DEF Arrived
  <1> QED
    BY <1>1, <1>2, <1>3 DEF OrderInv, LoadsDol

\* The word that asks for arguments has arrived with the first section.
LEMMA GiveArgsLoads == DolInv /\ GiveArgs => DolInv'
  <1> SUFFICES ASSUME DolInv, GiveArgs PROVE DolInv'
    OBVIOUS
  <1> USE DEF DolInv
  <1>1. StubInv'
    BY StubStep DEF Next
  <1>2. /\ stage = "entry" /\ stage' = "done" /\ UNCHANGED <<header, arglen>>
        /\ mem' = IF Magic /\ arglen
                  THEN [mem EXCEPT ![header.entrypoint + 2] = ARGS] ELSE mem
    BY DEF GiveArgs, Write
  <1>3. LoadsDol'
    <2> SUFFICES ASSUME Sound PROVE mem' = Loaded([x \in Addr |-> x])'
      BY <1>2, HeaderKept DEF LoadsDol, Sound
    <2>1. Cleared(mem)
      BY <1>2 DEF PlacedInv
    <2> DEFINE e == header.entrypoint
    <2>2. /\ 0 \in Sections /\ e = header.section[0] /\ e \in Nat
          /\ header.section_size[0] \in Nat /\ header.section_size[0] > 2
          /\ e + header.section_size[0] <= MemSize /\ Source(0) \in Nat
      <3>1. 0 \in Sections
        BY StubAssumption DEF Sections
      <3> QED
        BY <3>1, SectionFits DEF StubInv, Sound, WellFormed
    <2>3. e + 1 \in Addr /\ e + 2 \in Addr
      BY <2>2, MemMoveAssumption DEF Addr
    <2>4. InSection(e + 1, 0)
      BY <2>2 DEF InSection, Within
    <2>5. mem[e + 1] = Source(0) + 1
      <3>1. mem[e + 1] = (e + 1) - header.section[0] + Source(0)
        BY <2>1, <2>2, <2>3, <2>4 DEF Cleared, Arrived
      <3> QED
        BY <2>2, <3>1
    <2>6. Magic <=> header.asks
      BY <2>5 DEF Magic
    <2>7. mem \in [Addr -> Value]
      BY DEF StubInv, TypeOK, MoveTypeOK
    <2>8. ASSUME NEW x \in Addr
          PROVE  mem'[x] = IF x = e + 2 /\ header.asks /\ arglen THEN ARGS ELSE mem[x]
      BY <1>2, <2>6, <2>7
    <2>9. InSection(e + 2, 0)
      BY <2>2 DEF InSection, Within
    <2>10. ASSUME NEW x \in Addr
           PROVE  mem'[x] = Loaded([y \in Addr |-> y])[x]
      <3>1. CASE \E n \in Sections : InSection(x, n)
        <4> DEFINE n == CHOOSE n \in Sections : InSection(x, n)
        <4>1. n \in Sections /\ InSection(x, n)
          BY <3>1
        <4> HIDE DEF n
        <4>2. /\ header.section[n] \in Nat /\ Source(n) \in Nat
              /\ header.section_size[n] \in Nat
              /\ Source(n) + header.section_size[n] <= MemSize
          BY <4>1, SectionFits DEF StubInv
        <4>3. x - header.section[n] + Source(n) \in Addr
          BY <4>1, <4>2, MemMoveAssumption DEF Addr, InSection, Within
        <4>4. mem[x] = x - header.section[n] + Source(n)
          BY <2>1, <4>1 DEF Cleared, Arrived
        <4>5. Loaded([y \in Addr |-> y])[x] =
                  IF x = header.entrypoint + 2 /\ header.asks /\ arglen THEN ARGS
                  ELSE x - header.section[n] + Source(n)
          BY <3>1, <4>3 DEF Loaded, n
        <4> QED
          BY <2>8, <4>4, <4>5
      <3>2. CASE ~\E n \in Sections : InSection(x, n)
        <4>1. Loaded([y \in Addr |-> y])[x] = IF InBss(x) THEN ZERO ELSE x
          BY <3>2 DEF Loaded
        <4>2. mem[x] = IF InBss(x) THEN ZERO ELSE x
          BY <2>1, <3>2 DEF Cleared
        <4>3. x # e + 2
          BY <3>2, <2>2, <2>9
        <4> QED
          BY <2>8, <4>1, <4>2, <4>3
      <3> QED
        BY <3>1, <3>2
    <2>11. mem' \in [Addr -> Value]
      BY <1>1 DEF StubInv, TypeOK, MoveTypeOK
    <2>12. mem' = Loaded([x \in Addr |-> x])
      BY <2>10, <2>11 DEF Loaded
    <2>13. Loaded([x \in Addr |-> x])' = Loaded([x \in Addr |-> x])
      BY <1>2 DEF Loaded, InSection, InBss, Source, Within
    <2> QED
      BY <2>12, <2>13
  <1> QED
    BY <1>1, <1>2, <1>3 DEF OrderInv, PlacedInv

\* The inductive invariant of the whole stub.
LEMMA DolStep == DolInv /\ [Next]_vars => DolInv'
  <1> SUFFICES ASSUME DolInv, [Next]_vars PROVE DolInv'
    OBVIOUS
  <1>1. CASE UNCHANGED vars
    <2>1. StubInv'
      BY <1>1, StubStep DEF DolInv
    <2>2. /\ UNCHANGED <<mem, old, d, s, size, pc, header, arglen, k, forward, stage>>
          /\ UNCHANGED <<Behind, Current>> /\ (Sound' <=> Sound)
      BY <1>1, HeaderKept DEF vars, move_vars, call, Behind, Current
    <2>3. OrderInv'
      BY <2>2 DEF DolInv, OrderInv, Source
    <2>4. /\ Placed(mem, Behind)' <=> Placed(mem, Behind)
          /\ Placed(old, Behind \ {Current})' <=> Placed(old, Behind \ {Current})
          /\ Placed(mem, Sections)' <=> Placed(mem, Sections)
          /\ Cleared(mem)' <=> Cleared(mem)
          /\ UNCHANGED Source(Current)
      BY <2>2, HeaderKept DEF Source
    <2>5. PlacedInv'
      BY <2>2, <2>4 DEF DolInv, PlacedInv
    <2>6. UNCHANGED Loaded([x \in Addr |-> x])
      BY <2>2 DEF Loaded, InSection, InBss, Source, Within
    <2>7. LoadsDol'
      <3> SUFFICES ASSUME Sound, stage = "done"
                   PROVE  mem' = Loaded([x \in Addr |-> x])'
        BY <2>2 DEF LoadsDol, Sound
      <3>1. mem = Loaded([x \in Addr |-> x])
        BY DEF DolInv, LoadsDol, Sound
      <3> QED
        BY <2>2, <2>6, <3>1
    <2> QED
      BY <2>1, <2>3, <2>5, <2>7 DEF DolInv
  <1> QED
    BY <1>1, SectionOrderPlaces, MoveSectionPlaces, MovingPlaces, SectionsDonePlaces,
       ClearBssPlaces, GiveArgsLoads DEF Next

\* A well-formed DOL is loaded as its header says, for every memory, number of sections
\* and header, where its sections land apart from it or all move one way: the order
\* chosen by looking at the first section is right for all the others.
THEOREM DolLoaded == Spec => []LoadsDol
  <1>1. Init => DolInv
    BY StubInit DEF Init, DolInv, OrderInv, PlacedInv, LoadsDol
  <1>2. DolInv => LoadsDol
    BY DEF DolInv
  <1> QED
    BY <1>1, DolStep, <1>2, PTL DEF Spec
=============================================================================
