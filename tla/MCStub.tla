------------------------------- MODULE MCStub -------------------------------
(* Stub with three sections in a memory of 12 words.  The DOL lies at one  *)
(* of a few places, its sections behind its header in order, so that they  *)
(* move down, up, apart from each other, and over the DOL in every way.    *)
EXTENDS Stub

MCValue == Addr \cup {ZERO, ARGS}

Sizes == {<<3, a, b>> : a \in {0, 2}, b \in {1, 2}}

MCHeaders ==
    {h \in
        {[buf |-> b,
          offset |-> [n \in Sections |->
                         HeaderSize + (IF n > 0 THEN z[1] ELSE 0)
                                    + (IF n > 1 THEN z[2] ELSE 0)],
          section |-> [n \in Sections |-> <<p, q, r>>[n + 1]],
          section_size |-> [n \in Sections |-> z[n + 1]],
          bss |-> c, bss_size |-> 2,
          entrypoint |-> p, asks |-> TRUE] :
            b \in {2, 4}, z \in Sizes, c \in {0, 5, 10},
            p \in 0..9, q \in 0..10, r \in 0..10} :
        /\ Fits(h)
        /\ h.section[0] + 3 <= h.section[1] \/ h.section[1] + 2 <= h.section[0]}
=============================================================================
