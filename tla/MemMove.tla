------------------------------ MODULE MemMove ------------------------------
(***************************************************************************)
(* memmove of stub/stub.c, byte by byte, on a memory in which the two      *)
(* ranges may overlap.  The stub must bring its own: it runs alone.  The   *)
(* memmove of packer/main.c is the same loop.  MoveSpec is one call of it; *)
(* Stub makes many.                                                        *)
(***************************************************************************)
EXTENDS Integers, Memory

CONSTANTS
    MemSize,     \* addresses are 0..MemSize-1
    Value        \* what a byte of memory can hold

Addr == 0..(MemSize - 1)

ASSUME MemMoveAssumption == MemSize \in Nat

VARIABLES
    mem, d, s, size, i, pc,
    old                      \* the memory at the call

call      == <<d, s, size, old>>
move_vars == <<mem, call, i, pc>>

MoveTypeOK ==
    /\ mem \in [Addr -> Value] /\ old \in [Addr -> Value]
    /\ d \in Nat /\ s \in Nat /\ size \in Nat
    /\ d + size <= MemSize /\ s + size <= MemSize
    /\ i \in 0..size
    /\ pc \in {"start", "up", "down", "done"}

MoveInit ==
    /\ mem \in [Addr -> Value]
    /\ old = mem
    /\ d \in 0..MemSize /\ s \in 0..MemSize /\ size \in 0..MemSize
    /\ d + size <= MemSize /\ s + size <= MemSize
    /\ i = 0
    /\ pc = "start"

\* Mistakes one could make here, for the mutants of PROJECT.json.
Direction_Swapped ==
    /\ pc = "start"
    /\ \/ d > s /\ pc' = "up" /\ i' = 0
       \/ d < s /\ pc' = "down" /\ i' = size
       \/ d = s /\ pc' = "done" /\ i' = i
    /\ UNCHANGED <<mem, call>>

\* The direction of the copy depends on which range begins first.
Direction ==
    /\ pc = "start"
    /\ \/ d < s /\ pc' = "up" /\ i' = 0
       \/ d > s /\ pc' = "down" /\ i' = size
       \/ d = s /\ pc' = "done" /\ i' = i
    /\ UNCHANGED <<mem, call>>

CopyUp ==
    /\ pc = "up"
    /\ \/ /\ i < size
          /\ mem' = [mem EXCEPT ![d + i] = mem[s + i]]
          /\ i' = i + 1
          /\ UNCHANGED pc
       \/ /\ i >= size
          /\ pc' = "done"
          /\ UNCHANGED <<mem, i>>
    /\ UNCHANGED call

CopyDown ==
    /\ pc = "down"
    /\ \/ /\ i > 0
          /\ i' = i - 1
          /\ mem' = [mem EXCEPT ![d + (i - 1)] = mem[s + (i - 1)]]
          /\ UNCHANGED pc
       \/ /\ i <= 0
          /\ pc' = "done"
          /\ UNCHANGED <<mem, i>>
    /\ UNCHANGED call

MoveNext == Direction \/ CopyUp \/ CopyDown
MoveSpec == MoveInit /\ [][MoveNext]_move_vars

-----------------------------------------------------------------------------
\* However the ranges overlap, memmove leaves at the destination what was at the
\* source when it was called, and the rest of memory as it was.
Correct == pc = "done" => mem = Moved(old, d, s, size)

\* While the copy runs, the bytes done are right and the bytes still to be read
\* are as they were: the copy never overtakes itself.
Progress ==
    /\ pc = "start" => mem = old
    /\ pc = "up" => d < s /\ mem = Moved(old, d, s, i)
    /\ pc = "down" => d > s /\ mem = Moved(old, d + i, s + i, size - i)

MoveInv == MoveTypeOK /\ Progress /\ Correct
=============================================================================
