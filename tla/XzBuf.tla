-------------------------------- MODULE XzBuf --------------------------------
(***************************************************************************)
(* struct xz_buf of packer/xz/xz.h, and the memory that it points to.      *)
(*                                                                         *)
(* A byte of the output is <<n, p>>: it is the n-th byte of the            *)
(* uncompressed data (or a copy of that one; 0 is a byte not written yet), *)
(* and the BCJ filter has taken it at its position p - 1 (0 if it has not, *)
(* -1 if it has twice).                                                    *)
(***************************************************************************)
EXTENDS Integers, Sequences, Memory

CONSTANTS
    InSizes,       \* sizes of the packed program that are considered
    OutSizes,      \* sizes of the program it is packed from
    TempSize       \* bytes of the BCJ filter's own buffer, 16 in the code

ASSUME XzBufAssumption ==
    /\ InSizes \subseteq Nat
    /\ OutSizes \subseteq Nat \ {0}
    /\ TempSize \in Nat \ {0}

VARIABLES
    in_pos, in_size,
    b_out,             \* what b->out points to: "out" or the filter's "temp"
    out_pos, out_size,
    mem                \* the contents of both

b      == <<in_pos, in_size, b_out, out_pos, out_size>>
input  == <<in_pos, in_size>>
output == <<b_out, out_pos, out_size>>

in_avail  == in_size - in_pos
out_avail == out_size - out_pos

Least(x, y) == IF x < y THEN x ELSE y

Byte == Nat \X Int

XzBufTypeOK ==
    /\ in_size \in InSizes /\ in_pos \in 0..in_size
    /\ b_out \in {"out", "temp"}
    /\ out_size \in Nat /\ out_pos \in 0..out_size
    /\ DOMAIN mem = {"out", "temp"}
    /\ \E n \in OutSizes : mem["out"] \in [0..(n - 1) -> Byte]
    /\ mem["temp"] \in [0..(TempSize - 1) -> Byte]
=============================================================================
