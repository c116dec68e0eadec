------------------------------- MODULE Memory -------------------------------
(***************************************************************************)
(* What memmove and memzero of stub/stub.c do to a memory, as a whole.     *)
(* MemMove shows that the byte loop of memmove does just that.             *)
(***************************************************************************)
EXTENDS Integers

\* x is one of the n bytes from address a.
Within(x, a, n) == a <= x /\ x < a + n

\* The memory m after a move of n bytes from address b to address a.
Moved(m, a, b, n) ==
    [x \in DOMAIN m |-> IF Within(x, a, n) THEN m[x - a + b] ELSE m[x]]

\* The memory m after n bytes from address a are set to zero.
Zeroed(m, a, n, zero) ==
    [x \in DOMAIN m |-> IF Within(x, a, n) THEN zero ELSE m[x]]
=============================================================================
