-------------------------------- MODULE Lzma2 --------------------------------
(***************************************************************************)
(* The LZMA2 decoder of packer/xz/xz_dec_lzma2.c as it is built here, in   *)
(* single-call mode: its dictionary is the output buffer.                  *)
(*                                                                         *)
(* The packed data is not known: a field that is read has any value, and a *)
(* symbol that the range decoder yields is any symbol and takes any number *)
(* of bytes that it may take.  What the decoder counts, it counts exactly. *)
(***************************************************************************)
EXTENDS XzBuf

CONSTANTS
    LZMA_IN_REQUIRED,    \* 21 in the code
    RC_INIT_BYTES,       \* 5 in the code
    DictSizes,           \* bound: sizes of the dictionary
    Uncompressed,        \* bound: sizes of a chunk, up to 2^21 in the format
    Compressed,          \* bound: the same, compressed, up to 2^16
    Distances, Lengths   \* bound: distances and lengths of matches

ASSUME Lzma2Assumption ==
    /\ LZMA_IN_REQUIRED \in Nat \ {0} /\ RC_INIT_BYTES \in Nat \ {0}
    /\ DictSizes \subseteq Nat \ {0}
    /\ Uncompressed \subseteq Nat \ {0} /\ Compressed \subseteq Nat \ {0}
    /\ Distances \subseteq Nat /\ Lengths \subseteq Nat \ {0}

VARIABLES
    pc, ret,               \* where the decoders are, and the last result
    caller,                \* who called xz_dec_lzma2_run
    dict_buf, dict_base,   \* the buffer and the place in it that dict->buf is
    dict_start, dict_pos, dict_full, dict_limit, dict_end, dict_size,
    lzma2_seq, next_seq, uncompressed, compressed,
    need_dict_reset, need_props,
    rep0, len,
    rc_init, rc_in, rc_pos, rc_limit,
    rc_normal,             \* range >= RC_TOP_VALUE is certain
    temp_size, tmp,        \* s->temp.size, and tmp of lzma2_lzma
    plain,                 \* the uncompressed data so far
    chunk                  \* sizes of the chunk, and where its data began

ctl    == <<pc, ret, caller>>
place  == <<dict_buf, dict_base, dict_end, dict_size>>
write  == <<dict_pos, dict_full, mem, plain>>
dict   == <<place, write, dict_start, dict_limit>>
sizes  == <<uncompressed, compressed>>
needs  == <<need_dict_reset, need_props>>
lzma2  == <<lzma2_seq, next_seq, sizes, needs, chunk>>
lzma   == <<rep0, len>>
rc     == <<rc_in, rc_pos, rc_limit, rc_normal>>
temp   == <<temp_size, tmp>>
lzma2_vars == <<dict, lzma2, lzma, rc, rc_init, temp>>

Lzma2TypeOK ==
    /\ dict_buf \in {"out", "temp"} /\ dict_base \in Nat
    /\ dict_start \in Nat /\ dict_pos \in Nat /\ dict_full \in Nat
    /\ dict_limit \in Nat /\ dict_end \in Nat /\ dict_size \in Nat
    /\ lzma2_seq \in {"control", "uncompressed", "compressed", "properties",
                      "lzma_prepare", "lzma_run", "copy"}
    /\ next_seq \in {"properties", "lzma_prepare", "copy"}
    /\ uncompressed \in Nat /\ compressed \in Nat
    /\ need_dict_reset \in BOOLEAN /\ need_props \in BOOLEAN
    /\ rep0 \in Nat /\ len \in Nat
    /\ rc_init \in 0..RC_INIT_BYTES
    /\ rc_in \in {"in", "temp"} /\ rc_pos \in Nat /\ rc_limit \in Nat
    /\ rc_normal \in BOOLEAN
    /\ temp_size \in Nat /\ tmp \in Nat
    /\ plain \in Seq(Nat)
    /\ chunk \in [csize : Nat, usize : Nat, in : Nat, out : Nat]

NoChunk == [csize |-> 0, usize |-> 0, in |-> 0, out |-> 0]

\* The static struct xz_dec_lzma2, before any reset.
Lzma2Init ==
    /\ dict_buf = "out" /\ dict_base = 0
    /\ dict_start = 0 /\ dict_pos = 0 /\ dict_full = 0
    /\ dict_limit = 0 /\ dict_end = 0 /\ dict_size = 0
    /\ lzma2_seq = "control" /\ next_seq = "copy"
    /\ uncompressed = 0 /\ compressed = 0
    /\ need_dict_reset = FALSE /\ need_props = FALSE
    /\ rep0 = 0 /\ len = 0
    /\ rc_init = 0 /\ rc_in = "in" /\ rc_pos = 0 /\ rc_limit = 0
    /\ rc_normal = FALSE
    /\ temp_size = 0 /\ tmp = 0
    /\ plain = <<>>
    /\ chunk = NoChunk

Goto(l) == pc' = l /\ UNCHANGED <<ret, caller>>

\* xz_dec_lzma2_run returns r to whom it was called by.
Return(r) == pc' = caller /\ ret' = r /\ UNCHANGED caller

\* xz_dec_lzma2_reset, for a block whose dictionary has size n.
Lzma2Reset(n) ==
    /\ dict_size' = n
    /\ lzma2_seq' = "control"
    /\ need_dict_reset' = TRUE
    /\ temp_size' = 0
    /\ chunk' = NoChunk

rc_reset == rc_init' = RC_INIT_BYTES /\ rc_normal' = TRUE

lzma_reset == rep0' = 0 /\ len' = 0 /\ rc_reset

-----------------------------------------------------------------------------
(* Dictionary                                                              *)

dict_reset ==
    /\ dict_buf' = b_out /\ dict_base' = out_pos /\ dict_end' = out_avail
    /\ dict_start' = 0 /\ dict_pos' = 0 /\ dict_limit' = 0 /\ dict_full' = 0

dict_has_space == dict_pos < dict_limit

\* Mistakes one could make in the next two, for the mutants of PROJECT.json.
LimitFor_Full(out_max) == dict_end

LimitFor(out_max) ==
    IF dict_end - dict_pos <= out_max THEN dict_end ELSE dict_pos + out_max

\* n bytes are put at dict_pos: those with the numbers v[0], v[1], ...
DictPut(v, n) ==
    LET at == dict_base + dict_pos
    IN  /\ mem' = [mem EXCEPT ![dict_buf] =
                      [x \in DOMAIN mem[dict_buf] |->
                          IF Within(x, at, n) THEN v[x - at] ELSE mem[dict_buf][x]]]
        /\ dict_pos' = dict_pos + n
        /\ dict_full' = IF dict_full < dict_pos' THEN dict_pos' ELSE dict_full

NewBytes(n) == [j \in 0..(n - 1) |-> <<Len(plain) + 1 + j, 0>>]

\* Bytes that the packed data holds as they are.
DictPutNew(n) ==
    /\ DictPut(NewBytes(n), n)
    /\ plain' = plain \o [j \in 1..n |-> Len(plain) + j]

DistanceOk(dist) == dist < dict_full /\ dist < dict_size

\* dict_repeat with a distance that is valid.  The bytes that are repeated may
\* overlap those that are written.
DictRepeat(dist, left) ==
    LET back == dict_pos - dist - 1
        from(j) == dict_base + back + (j % (dist + 1))
        old(j)  == Len(plain) - dist + ((j - 1) % (dist + 1))
    IN  /\ DictPut([j \in 0..(left - 1) |-> mem[dict_buf][from(j)]], left)
        /\ plain' = plain \o [j \in 1..left |-> plain[old(j)]]

\* As much of a match as there is space for.
Repeat(dist, n) ==
    LET left == Least(dict_limit - dict_pos, n)
    IN  DictRepeat(dist, left) /\ len' = n - left

-----------------------------------------------------------------------------
(* xz_dec_lzma2_run: the control layer                                     *)

In(s) == pc = "lzma2" /\ lzma2_seq = s
Runs(s) == In(s) /\ in_avail > 0

\* The loop ends with the input, but not within a chunk of LZMA.
LoopEnd ==
    /\ pc = "lzma2" /\ in_avail = 0 /\ lzma2_seq # "lzma_run"
    /\ Return("XZ_OK")
    /\ UNCHANGED <<b, lzma2_vars>>

\* A byte of each kind, in the order of the comment in the code.
ControlBytes == {0, 1, 2, 3, 128, 160, 192, 224}

ResetsDict(c) == c >= 224 \/ c = 1

ControlEnd ==
    /\ Runs("control")
    /\ in_pos' = in_pos + 1
    /\ Return("XZ_STREAM_END")
    /\ UNCHANGED <<in_size, output, lzma2_vars>>

\* What must not come: anything but a dictionary reset at first, LZMA without
\* properties, and bytes without a meaning.
Rejected(c) ==
    \/ ~ResetsDict(c) /\ need_dict_reset
    \/ c \in 128..191 /\ need_props
    \/ c \in 3..127

ControlRejected ==
    /\ Runs("control")
    /\ \E c \in ControlBytes \ {0} : Rejected(c)
    /\ in_pos' = in_pos + 1
    /\ Return("XZ_DATA_ERROR")
    /\ UNCHANGED <<in_size, output, lzma2_vars>>

\* Mistakes one could make here, for the mutants of PROJECT.json.
NeedProps_Kept(c) == IF c >= 192 THEN FALSE ELSE need_props

NeedProps(c) ==
    IF c >= 192 THEN FALSE ELSE IF ResetsDict(c) THEN TRUE ELSE need_props

ControlChunk ==
    /\ Runs("control")
    /\ in_pos' = in_pos + 1
    /\ \E c \in ControlBytes \ {0} :
        /\ ~Rejected(c)
        /\ need_dict_reset' = FALSE
        /\ need_props' = NeedProps(c)
        /\ lzma2_seq' = IF c >= 128 THEN "uncompressed" ELSE "compressed"
        /\ next_seq' = IF c >= 192 THEN "properties"
                       ELSE IF c >= 128 THEN "lzma_prepare" ELSE "copy"
        /\ IF ResetsDict(c) THEN dict_reset
           ELSE UNCHANGED <<dict_buf, dict_base, dict_end, dict_start, dict_pos,
                            dict_limit, dict_full>>
        /\ IF c \in 160..191 THEN lzma_reset ELSE UNCHANGED <<lzma, rc_init, rc_normal>>
    /\ UNCHANGED <<in_size, output, ctl, mem, plain, dict_size, sizes, chunk,
                   rc_in, rc_pos, rc_limit, temp>>

\* A size field of two bytes is cut off by the end of the input.
SizeCutOff ==
    /\ Runs("uncompressed") \/ Runs("compressed")
    /\ in_avail < 2
    /\ in_pos' = in_size
    /\ UNCHANGED <<in_size, output, ctl, lzma2_vars>>

UncompressedSize ==
    /\ Runs("uncompressed")
    /\ in_avail >= 2
    /\ in_pos' = in_pos + 2
    /\ uncompressed' \in Uncompressed
    /\ lzma2_seq' = "compressed"
    /\ UNCHANGED <<in_size, output, ctl, dict, next_seq, compressed, needs, chunk,
                   lzma, rc, rc_init, temp>>

CompressedSize ==
    /\ Runs("compressed")
    /\ in_avail >= 2
    /\ in_pos' = in_pos + 2
    /\ compressed' \in Compressed
    /\ lzma2_seq' = next_seq
    /\ chunk' = [csize |-> compressed',
                 usize |-> IF next_seq = "copy" THEN compressed' ELSE uncompressed,
                 in |-> in_pos' + (IF next_seq = "properties" THEN 1 ELSE 0),
                 out |-> Len(plain)]
    /\ UNCHANGED <<in_size, output, ctl, dict, next_seq, uncompressed, needs,
                   lzma, rc, rc_init, temp>>

PropertiesBad ==
    /\ Runs("properties")
    /\ in_pos' = in_pos + 1
    /\ Return("XZ_DATA_ERROR")
    /\ UNCHANGED <<in_size, output, lzma2_vars>>

\* lzma_props; the next case follows even at the end of the input.
Properties ==
    /\ Runs("properties")
    /\ in_pos' = in_pos + 1
    /\ lzma_reset
    /\ lzma2_seq' = "lzma_prepare"
    /\ Goto("prepare")
    /\ UNCHANGED <<in_size, output, dict, next_seq, sizes, needs, chunk, rc_in,
                   rc_pos, rc_limit, temp>>

Prepare ==
    /\ pc = "prepare" \/ Runs("lzma_prepare")
    /\ \/ /\ compressed < RC_INIT_BYTES
          /\ Return("XZ_DATA_ERROR")
          /\ UNCHANGED <<input, compressed, lzma2_seq, rc_init>>
       \/ /\ compressed >= RC_INIT_BYTES /\ in_avail < rc_init
          /\ in_pos' = in_size
          /\ rc_init' = rc_init - in_avail
          /\ Return("XZ_OK")
          /\ UNCHANGED <<in_size, compressed, lzma2_seq>>
       \/ /\ compressed >= RC_INIT_BYTES /\ in_avail >= rc_init
          /\ in_pos' = in_pos + rc_init
          /\ rc_init' = 0
          /\ compressed' = compressed - RC_INIT_BYTES
          /\ lzma2_seq' = "lzma_run"
          /\ Goto("lzma2")
          /\ UNCHANGED in_size
    /\ UNCHANGED <<output, dict, next_seq, uncompressed, needs, chunk, lzma, rc, temp>>

\* dict_limit for the next round of lzma2_lzma.
RunLimit ==
    /\ In("lzma_run")
    /\ dict_limit' = LimitFor(Least(out_avail, uncompressed))
    /\ Goto("temp")
    /\ UNCHANGED <<b, place, write, dict_start, lzma2, lzma, rc, rc_init, temp>>

\* Mistakes one could make here, for the mutants of PROJECT.json.
ChunkSound_NoLength == compressed = 0
Starved_Never == FALSE

\* There is no more input, and what is left does not complete the chunk.
Starved == in_avail = 0 /\ temp_size < compressed

\* What has been written is flushed: in single-call mode it is there already.
ChunkSound == compressed = 0 /\ len = 0

Flush ==
    /\ pc = "flush"
    /\ LET n == dict_pos - dict_start
       IN  /\ uncompressed' = uncompressed - n
           /\ out_pos' = out_pos + n
    /\ dict_start' = dict_pos
    /\ \/ /\ uncompressed' = 0
          /\ \/ Return("XZ_DATA_ERROR") /\ UNCHANGED <<lzma2_seq, rc_init, rc_normal>>
             \/ ChunkSound /\ rc_reset /\ lzma2_seq' = "control" /\ Goto("lzma2")
       \/ /\ uncompressed' # 0
          /\ IF out_pos' = out_size \/ Starved
             THEN Return("XZ_OK") ELSE Goto("lzma2")
          /\ UNCHANGED <<lzma2_seq, rc_init, rc_normal>>
    /\ UNCHANGED <<input, b_out, out_size, place, write, dict_limit, next_seq,
                   compressed, needs, chunk, lzma, rc_in, rc_pos, rc_limit, temp>>

CopyBegin ==
    /\ Runs("copy")
    /\ Goto("copy")
    /\ UNCHANGED <<b, lzma2_vars>>

CopySome ==
    /\ pc = "copy" /\ compressed > 0 /\ in_avail > 0 /\ out_avail > 0
    /\ LET n == Least(Least(in_avail, out_avail), Least(dict_end - dict_pos, compressed))
       IN  /\ DictPutNew(n)
           /\ compressed' = compressed - n
           /\ in_pos' = in_pos + n
           /\ out_pos' = out_pos + n
    /\ dict_start' = dict_pos'
    /\ UNCHANGED <<in_size, b_out, out_size, ctl, place, dict_limit, lzma2_seq,
                   next_seq, uncompressed, needs, chunk, lzma, rc, rc_init, temp>>

CopyEnd ==
    /\ pc = "copy"
    /\ \/ /\ compressed = 0
          /\ lzma2_seq' = "control"
          /\ Goto("lzma2")
       \/ /\ compressed > 0
          /\ in_avail = 0 \/ out_avail = 0
          /\ Return("XZ_OK")
          /\ UNCHANGED lzma2_seq
    /\ UNCHANGED <<b, dict, next_seq, sizes, needs, chunk, lzma, rc, rc_init, temp>>

Control == \/ LoopEnd \/ ControlEnd \/ ControlRejected \/ ControlChunk
           \/ SizeCutOff \/ UncompressedSize \/ CompressedSize
           \/ PropertiesBad \/ Properties \/ Prepare \/ RunLimit \/ Flush
           \/ CopyBegin \/ CopySome \/ CopyEnd

-----------------------------------------------------------------------------
(* lzma2_lzma: where lzma_main reads from, so that it need not look for    *)
(* the end of its input with each byte                                     *)

\* Nothing is left in the decoder's own buffer.
TempSkip ==
    /\ pc = "temp"
    /\ temp_size = 0 /\ compressed # 0
    /\ Goto("direct")
    /\ UNCHANGED <<b, lzma2_vars>>

TempFill ==
    /\ pc = "temp"
    /\ temp_size > 0 \/ compressed = 0
    /\ LET t == Least(Least(2 * LZMA_IN_REQUIRED - temp_size, compressed - temp_size),
                      in_avail)
           have == temp_size + t
       IN  IF have # compressed /\ have < LZMA_IN_REQUIRED
           THEN /\ temp_size' = have
                /\ in_pos' = in_pos + t
                /\ Goto("flush")
                /\ UNCHANGED <<rc, tmp>>
           ELSE /\ rc_limit' = IF have = compressed THEN have
                               ELSE have - LZMA_IN_REQUIRED
                /\ rc_in' = "temp" /\ rc_pos' = 0
                /\ tmp' = t
                /\ Goto("lzma_main")
                /\ UNCHANGED <<in_pos, temp_size, rc_normal>>
    /\ UNCHANGED <<in_size, output, dict, lzma2, lzma, rc_init>>

\* Mistakes one could make here, for the mutants of PROJECT.json.
DirectLimit_ToTheEnd ==
    IF in_avail >= compressed + LZMA_IN_REQUIRED THEN in_pos + compressed
    ELSE in_size - 1

\* The last place in the caller's buffer where a symbol may begin.
DirectLimit ==
    IF in_avail >= compressed + LZMA_IN_REQUIRED THEN in_pos + compressed
    ELSE in_size - LZMA_IN_REQUIRED

Direct ==
    /\ pc = "direct"
    /\ IF in_avail >= LZMA_IN_REQUIRED
       THEN /\ rc_in' = "in" /\ rc_pos' = in_pos
            /\ rc_limit' = DirectLimit
            /\ Goto("lzma_main")
       ELSE Goto("save") /\ UNCHANGED <<rc_in, rc_pos, rc_limit>>
    /\ UNCHANGED <<b, dict, lzma2, lzma, rc_normal, rc_init, temp>>

\* The last bytes of the input wait in the decoder's own buffer.
Save ==
    /\ pc = "save"
    /\ IF in_avail < LZMA_IN_REQUIRED
       THEN /\ temp_size' = Least(in_avail, compressed)
            /\ in_pos' = in_pos + temp_size'
       ELSE UNCHANGED <<temp_size, in_pos>>
    /\ Goto("flush")
    /\ UNCHANGED <<in_size, output, dict, lzma2, lzma, rc, rc_init, tmp>>

-----------------------------------------------------------------------------
(* lzma_main                                                               *)

\* The rest of a match for which there was no space.
Pending ==
    /\ pc = "lzma_main"
    /\ IF dict_has_space /\ len > 0 /\ DistanceOk(rep0)
       THEN Repeat(rep0, len) ELSE UNCHANGED <<write, len>>
    /\ Goto("symbols")
    /\ UNCHANGED <<b, place, dict_start, dict_limit, lzma2, rep0, rc, rc_init, temp>>

MoreSymbols == dict_has_space /\ rc_pos <= rc_limit

\* A symbol takes all the bits it needs out of less than LZMA_IN_REQUIRED bytes.
Symbol ==
    /\ pc = "symbols"
    /\ MoreSymbols
    /\ \E n \in 0..(LZMA_IN_REQUIRED - 1) : rc_pos' = rc_pos + n
    /\ rc_normal' = FALSE
    /\ UNCHANGED <<b, place, dict_start, dict_limit, lzma2, rc_in, rc_limit,
                   rc_init, temp>>

Literal ==
    /\ Symbol
    /\ DictPutNew(1)
    /\ UNCHANGED <<ctl, lzma>>

\* A match, or a repeated one: its distance is new, or that of an earlier match.
Match ==
    /\ Symbol
    /\ \E dist \in Distances, n \in Lengths :
        /\ rep0' = dist
        /\ IF DistanceOk(dist)
           THEN Repeat(dist, n) /\ UNCHANGED ctl
           ELSE len' = n /\ Return("XZ_DATA_ERROR") /\ UNCHANGED write

\* lzma_main normalizes the range decoder and returns to lzma2_lzma, which looks at
\* what has been read.
MainEnd ==
    /\ pc = "symbols"
    /\ ~MoreSymbols
    /\ \E n \in IF rc_normal THEN {0} ELSE {0, 1} :
        /\ rc_pos' = rc_pos + n
        /\ LET used == IF rc_in = "temp" THEN rc_pos' ELSE rc_pos' - in_pos
               have == IF rc_in = "temp" THEN temp_size + tmp ELSE compressed
           IN  \/ /\ used > have
                  /\ Return("XZ_DATA_ERROR")
                  /\ UNCHANGED <<in_pos, compressed, temp_size>>
               \/ /\ used <= have
                  /\ compressed' = compressed - used
                  /\ IF rc_in = "temp" /\ used < temp_size
                     THEN /\ temp_size' = temp_size - used
                          /\ Goto("flush")
                          /\ UNCHANGED in_pos
                     ELSE /\ in_pos' = in_pos + used
                                       - (IF rc_in = "temp" THEN temp_size ELSE 0)
                          /\ temp_size' = 0
                          /\ Goto(IF rc_in = "temp" THEN "direct" ELSE "save")
    /\ rc_normal' = TRUE
    /\ UNCHANGED <<in_size, output, dict, uncompressed, lzma2_seq, next_seq, needs,
                   chunk, lzma, rc_in, rc_limit, rc_init, tmp>>

Lzma == TempSkip \/ TempFill \/ Direct \/ Save
        \/ Pending \/ Literal \/ Match \/ MainEnd

\* The steps of xz_dec_lzma2_run.
Lzma2Next == Control \/ Lzma
=============================================================================
