--------------------------------- MODULE Bcj ---------------------------------
(***************************************************************************)
(* The BCJ filter of packer/xz/xz_dec_bcj.c, for PowerPC alone as it is    *)
(* built, around the LZMA2 decoder.                                        *)
(*                                                                         *)
(* Each block resets the filter and runs it once, so its buffer is empty   *)
(* when xz_dec_bcj_run begins: what that function does first with an       *)
(* earlier call's data never happens.  packer/main.c does not create the   *)
(* filter but takes a static, zeroed struct xz_dec_bcj.                    *)
(***************************************************************************)
EXTENDS Lzma2

CONSTANT InstrSize    \* bytes of an instruction: 4 on PowerPC

ASSUME BcjAssumption == InstrSize \in Nat \ {0} /\ InstrSize <= TempSize

VARIABLES
    bcj_pos,            \* s->pos
    bcj_start,          \* out_start
    filtered, bcj_size, \* s->temp.filtered, s->temp.size
    saved_pos, saved_size

bcj_vars == <<bcj_pos, bcj_start, filtered, bcj_size, saved_pos, saved_size>>

BcjTypeOK ==
    /\ bcj_pos \in Nat /\ bcj_start \in Nat
    /\ filtered \in 0..TempSize /\ bcj_size \in 0..TempSize
    /\ saved_pos \in Nat /\ saved_size \in Nat

BcjInit ==
    /\ bcj_pos = 0 /\ bcj_start = 0
    /\ filtered = 0 /\ bcj_size = 0
    /\ saved_pos = 0 /\ saved_size = 0

\* Set by xz_dec_bcj_create only, which is not called.
single_call == FALSE

\* xz_dec_bcj_reset for the one filter there is.
BcjReset ==
    /\ bcj_pos' = 0
    /\ filtered' = 0 /\ bcj_size' = 0
    /\ UNCHANGED <<bcj_start, saved_pos, saved_size>>

\* Bytes in whole instructions of n bytes.
Whole(n) == n - (n % InstrSize)

\* bcj_powerpc on n bytes of f from at, whose position is p.
Converted(f, at, n, p) ==
    [x \in DOMAIN f |->
        IF Within(x, at, n)
        THEN <<f[x][1], IF f[x][2] = 0 THEN p + (x - at) + 1 ELSE -1>>
        ELSE f[x]]

\* The next filter decodes into the output buffer.
BcjOut ==
    /\ pc = "bcj"
    /\ bcj_start' = out_pos
    /\ caller' = "bcj_filter" /\ pc' = "lzma2"
    /\ UNCHANGED <<b, ret, lzma2_vars, bcj_pos, filtered, bcj_size,
                   saved_pos, saved_size>>

\* A mistake one could make in BcjFilter, for the mutants of PROJECT.json.
WholeOut_All(n) == n

WholeOut(n) == Whole(n)

\* bcj_apply on what has been decoded.  The bytes of an instruction that is not
\* complete wait in the filter's buffer, unless no more will come.
BcjFilter ==
    /\ pc = "bcj_filter"
    /\ IF ret # "XZ_STREAM_END" /\ (ret # "XZ_OK" \/ single_call)
       THEN /\ Goto("block")
            /\ UNCHANGED <<b, mem, bcj_pos, bcj_size>>
       ELSE LET n    == WholeOut(out_pos - bcj_start)
                rest == out_pos - bcj_start - n
                out  == Converted(mem["out"], bcj_start, n, bcj_pos)
            IN  /\ bcj_pos' = bcj_pos + n
                /\ IF ret = "XZ_STREAM_END"
                   THEN /\ mem' = [mem EXCEPT !["out"] = out]
                        /\ Goto("block")
                        /\ UNCHANGED <<b, bcj_size>>
                   ELSE /\ bcj_size' = rest
                        /\ out_pos' = out_pos - rest
                        /\ mem' = [out |-> out,
                                   temp |-> [x \in DOMAIN mem["temp"] |->
                                                IF x < rest THEN out[out_pos' + x]
                                                ELSE mem["temp"][x]]]
                        /\ IF out_pos < out_size \/ rest = 0
                           THEN Goto("block") ELSE Goto("bcj_temp")
                        /\ UNCHANGED <<input, b_out, out_size>>
    /\ UNCHANGED <<place, dict_start, dict_pos, dict_full, dict_limit, plain, lzma2,
                   lzma, rc, rc_init, temp, bcj_start, filtered, saved_pos, saved_size>>

\* The next filter decodes into the filter's buffer, behind those bytes.
BcjTemp ==
    /\ pc = "bcj_temp"
    /\ saved_pos' = out_pos /\ saved_size' = out_size
    /\ b_out' = "temp" /\ out_pos' = bcj_size /\ out_size' = TempSize
    /\ caller' = "bcj_restore" /\ pc' = "lzma2"
    /\ UNCHANGED <<input, ret, lzma2_vars, bcj_pos, bcj_start, filtered, bcj_size>>

\* bcj_apply on that buffer, and bcj_flush of what is filtered or need not be.
BcjRestore ==
    /\ pc = "bcj_restore"
    /\ b_out' = "out" /\ out_size' = saved_size
    /\ IF ret \notin {"XZ_OK", "XZ_STREAM_END"}
       THEN /\ out_pos' = saved_pos
            /\ bcj_size' = out_pos
            /\ UNCHANGED <<ret, mem, bcj_pos, filtered>>
       ELSE LET n    == Whole(out_pos)
                done == IF ret = "XZ_STREAM_END" THEN out_pos ELSE n
                copy == Least(done, saved_size - saved_pos)
                t    == Converted(mem["temp"], 0, n, bcj_pos)
            IN  /\ bcj_pos' = bcj_pos + n
                /\ filtered' = done - copy
                /\ bcj_size' = out_pos - copy
                /\ out_pos' = saved_pos + copy
                /\ mem' = [out |-> [x \in DOMAIN mem["out"] |->
                                       IF Within(x, saved_pos, copy)
                                       THEN t[x - saved_pos] ELSE mem["out"][x]],
                           temp |-> [x \in DOMAIN t |->
                                       IF x + copy \in DOMAIN t
                                       THEN t[x + copy] ELSE t[x]]]
                /\ ret' = IF filtered' > 0 THEN "XZ_OK" ELSE ret
    /\ pc' = "block"
    /\ UNCHANGED <<input, caller, place, dict_start, dict_pos, dict_full, dict_limit,
                   plain, lzma2, lzma, rc, rc_init, temp, bcj_start, saved_pos,
                   saved_size>>

BcjNext == BcjOut \/ BcjFilter \/ BcjTemp \/ BcjRestore
=============================================================================
