-------------------------------- MODULE Stub --------------------------------
(***************************************************************************)
(* not_main of stub/stub.c: the sections of the DOL in buf are moved to    *)
(* where they belong, which may overlap buf, the bss is cleared, and the   *)
(* arguments are given to a DOL that asks for them.                        *)
(*                                                                         *)
(* A word of memory holds the address it came from, so that every word of  *)
(* the DOL can be told from every other.  The stub and its stack, with the *)
(* copies of the header and of the arguments, lie outside this memory.     *)
(***************************************************************************)
EXTENDS MemMove

CONSTANTS
    NumSections,   \* 18 in the code
    HeaderSize,    \* words of a DOL before its first section
    Headers        \* the DOL headers considered, see Header

Sections == 0..(NumSections - 1)

\* Words that do not come from memory.
ZERO == -1
ARGS == -2

\* The header, where the DOL lies, and whether it asks for arguments.
Header ==
    [buf : Addr,
     offset : [Sections -> Nat], section : [Sections -> Nat],
     section_size : [Sections -> Nat],
     bss : Nat, bss_size : Nat,
     entrypoint : Addr, asks : BOOLEAN]

\* The sections lie in memory, where they come from and where they go to.
Fits(h) ==
    \A n \in Sections :
        /\ h.buf + h.offset[n] + h.section_size[n] <= MemSize
        /\ h.section[n] + h.section_size[n] <= MemSize

ASSUME StubAssumption ==
    /\ NumSections \in Nat \ {0}
    /\ HeaderSize \in Nat
    /\ Headers \subseteq Header
    /\ \A h \in Headers : Fits(h)
    /\ Value = Addr \cup {ZERO, ARGS}

VARIABLES
    header,     \* the copy on the stack
    arglen,     \* there are arguments
    k,          \* sections that memmove has been called for
    forward,    \* the direction taken
    stage

vars == <<move_vars, header, arglen, k, forward, stage>>

TypeOK ==
    /\ MoveTypeOK
    /\ header \in Header /\ Fits(header)
    /\ arglen \in BOOLEAN
    /\ k \in 0..NumSections
    /\ forward \in BOOLEAN
    /\ stage \in {"direction", "sections", "bss", "entry", "done"}

Init ==
    /\ mem = [x \in Addr |-> x] /\ old = mem
    /\ d = 0 /\ s = 0 /\ size = 0 /\ i = 0 /\ pc = "done"
    /\ header \in Headers
    /\ arglen \in BOOLEAN
    /\ k = 0
    /\ forward = TRUE
    /\ stage = "direction"

Source(n) == header.buf + header.offset[n]

\* Mistakes one could make here, for the mutants of PROJECT.json.
SectionOrder_Reversed ==
    /\ stage = "direction"
    /\ forward' = (header.section[0] >= Source(0))
    /\ stage' = "sections"
    /\ UNCHANGED <<move_vars, header, arglen, k>>

Called_EverySecond == k' = k + 2

\* The first section alone decides in which order all are moved.
SectionOrder ==
    /\ stage = "direction"
    /\ forward' = (header.section[0] < Source(0))
    /\ stage' = "sections"
    /\ UNCHANGED <<move_vars, header, arglen, k>>

Called == k' = k + 1

\* The next section, from either end: memmove is called ...
MoveSection ==
    /\ stage = "sections" /\ pc = "done"
    /\ k < NumSections
    /\ LET n == IF forward THEN k ELSE NumSections - 1 - k
       IN  d' = header.section[n] /\ s' = Source(n) /\ size' = header.section_size[n]
    /\ old' = mem /\ i' = 0 /\ pc' = "start"
    /\ Called
    /\ UNCHANGED <<mem, header, arglen, forward, stage>>

\* ... and runs.
Moving == MoveNext /\ UNCHANGED <<header, arglen, k, forward, stage>>

SectionsDone ==
    /\ stage = "sections" /\ pc = "done"
    /\ k = NumSections
    /\ stage' = "bss"
    /\ UNCHANGED <<move_vars, header, arglen, k, forward>>

\* From here on the last call of memmove is forgotten.
Write(m) ==
    /\ mem' = m /\ old' = m
    /\ d' = 0 /\ s' = 0 /\ size' = 0 /\ i' = 0
    /\ UNCHANGED <<pc, header, arglen, k, forward>>

ClearBss ==
    /\ stage = "bss"
    /\ stage' = "entry"
    /\ Write(Zeroed(mem, header.bss, header.bss_size, ZERO))

\* The word behind the entry point, as it now is in memory, asks for arguments;
\* the words behind that take them.
Magic == header.asks /\ mem[header.entrypoint + 1] = Source(0) + 1

GiveArgs ==
    /\ stage = "entry"
    /\ stage' = "done"
    /\ Write(IF Magic /\ arglen
             THEN [mem EXCEPT ![header.entrypoint + 2] = ARGS] ELSE mem)

Next == SectionOrder \/ MoveSection \/ Moving \/ SectionsDone \/ ClearBss \/ GiveArgs
Spec == Init /\ [][Next]_vars

-----------------------------------------------------------------------------
(* Correctness.                                                            *)

InSection(x, n) == Within(x, header.section[n], header.section_size[n])
InSource(x, n)  == Within(x, Source(n), header.section_size[n])
InBss(x)        == Within(x, header.bss, header.bss_size)

\* The DOL as its header describes it, in a memory that held m.
Loaded(m) ==
    [x \in Addr |->
        IF \E n \in Sections : InSection(x, n)
        THEN LET n == CHOOSE n \in Sections : InSection(x, n)
             IN  IF x = header.entrypoint + 2 /\ header.asks /\ arglen
                 THEN ARGS
                 ELSE m[x - header.section[n] + Source(n)]
        ELSE IF InBss(x) THEN ZERO ELSE m[x]]

\* A DOL one can make sense of: no word belongs to two sections or to a section
\* and the bss, and the code at the entry point is in the first section.
WellFormed ==
    /\ \A x \in Addr : \A n, m \in Sections :
           InSection(x, n) /\ InSection(x, m) => n = m
    /\ \A x \in Addr : InBss(x) => \A n \in Sections : ~InSection(x, n)
    /\ header.entrypoint = header.section[0]
    /\ header.section_size[0] > 2

\* No section lands on the DOL in memory.
Apart ==
    \A n, m \in Sections : \A x \in Addr : ~(InSection(x, n) /\ InSource(x, m))

Used == {n \in Sections : header.section_size[n] # 0}

\* The sections in use lie in the same order in the DOL and in memory, and all move the
\* same way as the first one.
SortedOneWay ==
    /\ \A n, m \in Used : n < m =>
           /\ Source(n) + header.section_size[n] <= Source(m)
           /\ header.section[n] + header.section_size[n] <= header.section[m]
    /\ \/ \A n \in Used : header.section[n] < Source(n)
       \/ \A n \in Used : header.section[n] >= Source(n)

\* The DOL is loaded as its header says where it lies apart from where it goes,
\* whatever the order of its sections, and even where it moves over itself, provided
\* that its sections are in order and all move one way: the stub looks at the first
\* section only.  The bss may well cover the DOL, for it is cleared last.
LoadsDol ==
    stage = "done" /\ WellFormed /\ (Apart \/ SortedOneWay) =>
        mem = Loaded([x \in Addr |-> x])
=============================================================================
