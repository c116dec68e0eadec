-------------------------------- MODULE XzDec --------------------------------
(***************************************************************************)
(* How the packed program unpacks itself: main of packer/main.c and the    *)
(* .xz stream decoder of packer/xz/xz_dec_stream.c in single-call mode,    *)
(* with CRC32 as the only check, around the filters of a block.            *)
(*                                                                         *)
(* A CRC is right or it is not; the hash of the sizes of all blocks is     *)
(* the sequence of these sizes.                                            *)
(***************************************************************************)
EXTENDS Bcj

CONSTANTS
    HeaderSizes,     \* bound: sizes of a block header
    VliSizes,        \* bound: bytes of a variable-length integer
    Declared         \* bound: sizes that a block header declares

ASSUME XzDecAssumption ==
    /\ \A n \in HeaderSizes : n \in Nat /\ n >= 8 /\ n % 4 = 0
    /\ VliSizes \subseteq 1..9
    /\ Declared \subseteq Nat

VARIABLES
    sequence,
    check_size,          \* 4 if check_type is CRC32, 0 if there is none
    header,              \* block_header: size, compressed, uncompressed
    bcj_active,
    in_start, out_start,
    block_compressed, block_uncompressed,
    block_hash,          \* what block.hash is made from, and block.count
    index_seq, index_count, index_size,
    index_hash, index_unpadded,
    blocks               \* the blocks as they really were

stream_vars == <<sequence, check_size, header, bcj_active, in_start, out_start,
                 block_compressed, block_uncompressed, block_hash, index_seq,
                 index_count, index_size, index_hash, index_unpadded, blocks>>
filter_vars == <<lzma2_vars, bcj_vars>>
vars == <<b, ctl, mem, filter_vars, stream_vars>>

UNKNOWN == -1    \* VLI_UNKNOWN, greater than every size

Ends == {"entrypoint", "return"}

StreamTypeOK ==
    /\ sequence \in {"stream_header", "block_start", "block_header", "block",
                     "block_padding", "block_check", "index", "index_padding",
                     "index_crc32", "stream_footer"}
    /\ check_size \in {0, 4}
    /\ header \in [size : Nat, compressed : Declared \cup {UNKNOWN},
                   uncompressed : Declared \cup {UNKNOWN}]
    /\ bcj_active \in BOOLEAN
    /\ in_start \in Nat /\ out_start \in Nat
    /\ block_compressed \in Nat /\ block_uncompressed \in Nat
    /\ block_hash \in Seq(Nat \X Nat) /\ index_hash \in Seq(Nat \X Nat)
    /\ index_seq \in {"count", "unpadded", "uncompressed"}
    /\ index_count \in Nat /\ index_size \in Nat /\ index_unpadded \in Nat

TypeOK ==
    /\ XzBufTypeOK /\ Lzma2TypeOK /\ BcjTypeOK /\ StreamTypeOK
    /\ pc \in {"stream", "block", "run", "bcj", "bcj_filter", "bcj_temp",
               "bcj_restore", "lzma2", "prepare", "temp", "lzma_main", "symbols",
               "direct", "save", "flush", "copy"} \cup Ends

Init ==
    /\ in_size \in InSizes /\ in_pos = 0
    /\ out_size \in OutSizes /\ out_pos = 0 /\ b_out = "out"
    /\ mem = [out |-> [x \in 0..(out_size - 1) |-> <<0, 0>>],
              temp |-> [x \in 0..(TempSize - 1) |-> <<0, 0>>]]
    /\ pc = "stream" /\ ret = "XZ_OK" /\ caller = "block"
    /\ Lzma2Init /\ BcjInit
    /\ sequence = "stream_header"
    /\ check_size = 0
    /\ header = [size |-> 0, compressed |-> UNKNOWN, uncompressed |-> UNKNOWN]
    /\ bcj_active = FALSE
    /\ in_start = 0 /\ out_start = 0
    /\ block_compressed = 0 /\ block_uncompressed = 0
    /\ block_hash = <<>>
    /\ index_seq = "count" /\ index_count = 0 /\ index_size = 0
    /\ index_hash = <<>> /\ index_unpadded = 0
    /\ blocks = <<>>

-----------------------------------------------------------------------------
(* dec_main                                                                *)

At(s) == pc = "stream" /\ sequence = s

Result(r) == pc' = "run" /\ ret' = r /\ UNCHANGED caller

\* dec_main ends with r after it has read n bytes.  What else it has changed by
\* then is not looked at again.
Fails(r, n) ==
    /\ in_pos' = in_pos + n
    /\ Result(r)
    /\ UNCHANGED <<in_size, output, mem, filter_vars, stream_vars>>

\* The bytes that a field has: none before a block or the index, a whole block
\* padding, 9 of a variable-length integer that goes on and on, and a CRC32.
FieldSize ==
    CASE sequence \in {"stream_header", "stream_footer"} -> 12
      [] sequence = "block_start"   -> 1
      [] sequence = "block_header"  -> header.size
      [] sequence = "block_padding" -> (-block_compressed) % 4
      [] sequence = "block_check"   -> check_size
      [] sequence = "index"         -> 9
      [] sequence = "index_padding" -> (-(index_size + in_pos - in_start)) % 4
      [] OTHER                      -> 4

\* The input ends before the field does.
CutOff ==
    /\ pc = "stream" /\ sequence # "block"
    /\ in_avail < FieldSize
    /\ Fails("XZ_OK", in_avail)

\* What a field holds is not what it may be.
Damaged ==
    /\ pc = "stream" /\ sequence \notin {"block", "block_start"}
    /\ in_avail > 0
    /\ in_avail >= FieldSize \/ sequence = "index"
    /\ FieldSize > 0
    /\ \E r \in CASE sequence = "stream_header" ->
                        {"XZ_FORMAT_ERROR", "XZ_DATA_ERROR", "XZ_OPTIONS_ERROR"}
                  [] sequence = "block_header" ->
                        {"XZ_DATA_ERROR", "XZ_OPTIONS_ERROR"}
                  [] OTHER -> {"XZ_DATA_ERROR"} :
          Fails(r, IF sequence = "index" THEN Least(in_avail, 9) ELSE FieldSize)

StreamHeader ==
    /\ At("stream_header")
    /\ in_avail >= 12
    /\ in_pos' = in_pos + 12
    /\ check_size' \in {0, 4}
    /\ sequence' = "block_start"
    /\ UNCHANGED <<in_size, output, ctl, mem, filter_vars, header, bcj_active,
                   in_start, out_start, block_compressed, block_uncompressed,
                   block_hash, index_seq, index_count, index_size, index_hash,
                   index_unpadded, blocks>>

\* A zero is the beginning of the index ...
IndexStart ==
    /\ At("block_start")
    /\ in_avail > 0
    /\ in_start' = in_pos
    /\ in_pos' = in_pos + 1
    /\ sequence' = "index"
    /\ UNCHANGED <<in_size, output, ctl, mem, filter_vars, check_size, header,
                   bcj_active, out_start, block_compressed, block_uncompressed,
                   block_hash, index_seq, index_count, index_size, index_hash,
                   index_unpadded, blocks>>

\* ... and anything else the size of a block header, of which it is a part.
BlockStart ==
    /\ At("block_start")
    /\ in_avail > 0
    /\ \E n \in HeaderSizes : header' = [header EXCEPT !.size = n]
    /\ sequence' = "block_header"
    /\ UNCHANGED <<b, ctl, mem, filter_vars, check_size, bcj_active, in_start,
                   out_start, block_compressed, block_uncompressed, block_hash,
                   index_seq, index_count, index_size, index_hash, index_unpadded,
                   blocks>>

\* Bytes of a block header with the fields it says it has.
HeaderFields(c, u, bcj) ==
    2 + (IF c = UNKNOWN THEN 0 ELSE 1) + (IF u = UNKNOWN THEN 0 ELSE 1)
      + (IF bcj THEN 2 ELSE 0) + 3 + 4

BlockHeader ==
    /\ At("block_header")
    /\ in_avail >= header.size
    /\ in_pos' = in_pos + header.size
    /\ \E c, u \in Declared \cup {UNKNOWN}, bcj \in BOOLEAN :
        /\ HeaderFields(c, u, bcj) <= header.size
        /\ header' = [size |-> header.size, compressed |-> c, uncompressed |-> u]
        /\ bcj_active' = bcj
        /\ IF bcj THEN BcjReset ELSE UNCHANGED bcj_vars
    /\ \E n \in DictSizes : Lzma2Reset(n)
    /\ block_compressed' = 0 /\ block_uncompressed' = 0
    /\ sequence' = "block"
    /\ UNCHANGED <<in_size, output, ctl, mem, dict_buf, dict_base, dict_end, dict_start,
                   dict_pos, dict_full, dict_limit, plain, next_seq, sizes, need_props,
                   lzma, rc, rc_init, tmp, check_size, in_start, out_start,
                   block_hash, index_seq, index_count, index_size, index_hash,
                   index_unpadded, blocks>>

\* dec_block calls the first filter.
Block ==
    /\ At("block")
    /\ in_start' = in_pos /\ out_start' = out_pos
    /\ caller' = "block"
    /\ pc' = IF bcj_active THEN "bcj" ELSE "lzma2"
    /\ UNCHANGED <<b, ret, mem, filter_vars, sequence, check_size, header,
                   bcj_active, block_compressed, block_uncompressed, block_hash,
                   index_seq, index_count, index_size, index_hash, index_unpadded,
                   blocks>>

Exceeds(n, declared) == declared # UNKNOWN /\ n > declared
Differs(n, declared) == declared # UNKNOWN /\ n # declared

\* What the index must say of a block with n bytes of compressed data.
Unpadded(n) == header.size + n + check_size

BlockEnd ==
    /\ pc = "block"
    /\ block_compressed' = block_compressed + (in_pos - in_start)
    /\ block_uncompressed' = block_uncompressed + (out_pos - out_start)
    /\ \/ /\ \/ Exceeds(block_compressed', header.compressed)
             \/ Exceeds(block_uncompressed', header.uncompressed)
             \/ /\ ret = "XZ_STREAM_END"
                /\ \/ Differs(block_compressed', header.compressed)
                   \/ Differs(block_uncompressed', header.uncompressed)
          /\ Result("XZ_DATA_ERROR")
          /\ UNCHANGED <<sequence, block_hash>>
       \/ /\ ~Exceeds(block_compressed', header.compressed)
          /\ ~Exceeds(block_uncompressed', header.uncompressed)
          /\ ret # "XZ_STREAM_END"
          /\ Result(ret)
          /\ UNCHANGED <<sequence, block_hash>>
       \/ /\ ~Differs(block_compressed', header.compressed)
          /\ ~Differs(block_uncompressed', header.uncompressed)
          /\ ret = "XZ_STREAM_END"
          /\ block_hash' = Append(block_hash,
                                  <<Unpadded(block_compressed'), block_uncompressed'>>)
          /\ sequence' = "block_padding"
          /\ Goto("stream")
    /\ UNCHANGED <<b, mem, filter_vars, check_size, header, bcj_active, in_start,
                   out_start, index_seq, index_count, index_size, index_hash,
                   index_unpadded, blocks>>

BlockPadding ==
    /\ At("block_padding")
    /\ in_avail >= FieldSize
    /\ in_pos' = in_pos + FieldSize
    /\ block_compressed' = block_compressed + FieldSize
    /\ sequence' = "block_check"
    /\ UNCHANGED <<in_size, output, ctl, mem, filter_vars, check_size, header,
                   bcj_active, in_start, out_start, block_uncompressed, block_hash,
                   index_seq, index_count, index_size, index_hash, index_unpadded,
                   blocks>>

\* The check is right, or there is none.
BlockCheck ==
    /\ At("block_check")
    /\ in_avail >= check_size
    /\ in_pos' = in_pos + check_size
    /\ sequence' = "block_start"
    /\ blocks' = Append(blocks,
          [begin |-> in_start - header.size, end |-> in_pos', out |-> out_start,
           size |-> out_pos - out_start, bcj |-> bcj_active])
    /\ UNCHANGED <<in_size, output, ctl, mem, filter_vars, check_size, header,
                   bcj_active, in_start, out_start, block_compressed,
                   block_uncompressed, block_hash, index_seq, index_count, index_size,
                   index_hash, index_unpadded>>

-----------------------------------------------------------------------------
(* dec_index                                                               *)

\* The numbers considered for the next field of the index.
IndexNumbers ==
    CASE index_seq = "count" -> {Len(block_hash), Len(block_hash) + 1}
      [] index_seq = "unpadded" ->
            {block_hash[Len(index_hash) + 1][1], block_hash[Len(index_hash) + 1][1] + 4}
      [] OTHER ->
            {block_hash[Len(index_hash) + 1][2], block_hash[Len(index_hash) + 1][2] + 1}

IndexField ==
    /\ At("index")
    /\ \E n \in VliSizes, v \in IndexNumbers :
        /\ n <= in_avail
        /\ in_pos' = in_pos + n
        /\ \/ /\ index_seq = "count"
              /\ index_count' = v
              /\ index_seq' = "unpadded"
              /\ IF v # Len(block_hash)
                 THEN Result("XZ_DATA_ERROR") ELSE UNCHANGED ctl
              /\ UNCHANGED <<index_unpadded, index_hash>>
           \/ /\ index_seq = "unpadded"
              /\ index_unpadded' = v
              /\ index_seq' = "uncompressed"
              /\ UNCHANGED <<ctl, index_count, index_hash>>
           \/ /\ index_seq = "uncompressed"
              /\ index_hash' = Append(index_hash, <<index_unpadded, v>>)
              /\ index_count' = index_count - 1
              /\ index_seq' = "unpadded"
              /\ UNCHANGED <<ctl, index_unpadded>>
    /\ sequence' = IF index_count' = 0 /\ index_seq' = "unpadded"
                   THEN "index_padding" ELSE "index"
    /\ UNCHANGED <<in_size, output, mem, filter_vars, check_size, header, bcj_active,
                   in_start, out_start, block_compressed, block_uncompressed,
                   block_hash, index_size, blocks>>

\* After the padding, the index must describe the blocks that have been decoded.
IndexPadding ==
    /\ At("index_padding")
    /\ in_avail >= FieldSize
    /\ in_pos' = in_pos + FieldSize
    /\ index_size' = index_size + (in_pos' - in_start)
    /\ IF index_hash = block_hash
       THEN sequence' = "index_crc32" /\ UNCHANGED ctl
       ELSE Result("XZ_DATA_ERROR") /\ UNCHANGED sequence
    /\ UNCHANGED <<in_size, output, mem, filter_vars, check_size, header, bcj_active,
                   in_start, out_start, block_compressed, block_uncompressed,
                   block_hash, index_seq, index_count, index_hash, index_unpadded,
                   blocks>>

IndexCrc32 ==
    /\ At("index_crc32")
    /\ in_avail >= 4
    /\ in_pos' = in_pos + 4
    /\ sequence' = "stream_footer"
    /\ UNCHANGED <<in_size, output, ctl, mem, filter_vars, check_size, header,
                   bcj_active, in_start, out_start, block_compressed,
                   block_uncompressed, block_hash, index_seq, index_count, index_size,
                   index_hash, index_unpadded, blocks>>

\* The footer repeats the size of the index and the type of the check.
StreamFooter ==
    /\ At("stream_footer")
    /\ in_avail >= 12
    /\ in_pos' = in_pos + 12
    /\ Result("XZ_STREAM_END")
    /\ UNCHANGED <<in_size, output, mem, filter_vars, stream_vars>>

StreamNext == \/ CutOff \/ Damaged \/ StreamHeader \/ IndexStart \/ BlockStart
              \/ BlockHeader \/ Block \/ BlockEnd \/ BlockPadding \/ BlockCheck
              \/ IndexField \/ IndexPadding \/ IndexCrc32 \/ StreamFooter

-----------------------------------------------------------------------------
(* xz_dec_run and main                                                     *)

\* In single-call mode there is no going on.
RunResult ==
    IF ret = "XZ_OK" THEN IF in_avail = 0 THEN "XZ_DATA_ERROR" ELSE "XZ_BUF_ERROR"
    ELSE ret

RunEnd ==
    /\ pc = "run"
    /\ ret' = RunResult
    /\ IF ret' = "XZ_STREAM_END"
       THEN pc' = "entrypoint" /\ UNCHANGED <<in_pos, out_pos>>
       ELSE pc' = "return" /\ in_pos' = 0 /\ out_pos' = 0
    /\ UNCHANGED <<in_size, b_out, out_size, caller, mem, filter_vars, stream_vars>>

Next ==
    \/ StreamNext
    \/ BcjNext /\ UNCHANGED stream_vars
    \/ Lzma2Next /\ UNCHANGED <<bcj_vars, stream_vars>>
    \/ RunEnd

Spec == Init /\ [][Next]_vars

\* The program runs alone.
FairSpec == Spec /\ WF_vars(Next)

-----------------------------------------------------------------------------
(* Correctness                                                             *)

\* Nothing is read beyond the packed program or the 3 * LZMA_IN_REQUIRED bytes of
\* s->temp.buf, whatever a symbol takes, and nothing is written beyond the buffer
\* that the dictionary is in: what the comment at lzma2_lzma calls "making the
\* LZMA decoder's assumption safe".
WithinBuffers ==
    /\ rc_pos <= (IF rc_in = "in" THEN in_size ELSE 3 * LZMA_IN_REQUIRED)
    /\ temp_size <= compressed \/ lzma2_seq # "lzma_run"
    /\ dict_pos <= dict_end
    /\ \A x \in dict_base .. (dict_base + dict_end - 1) : x \in DOMAIN mem[dict_buf]

\* When a symbol is decoded, the last distance is that of a byte written since the
\* dictionary was reset: a literal after a match takes it as it is (dict_get).
\* Nothing a later chunk does, with or without a reset of the dictionary, of the
\* properties or of the state, leaves a distance of before.
DistancesValid ==
    pc = "symbols" /\ MoreSymbols => rep0 = 0 \/ rep0 < dict_full

\* A chunk that ends well has taken exactly the bytes it says it has and yielded
\* exactly the bytes it says it does, and no match goes on into the next chunk.
ChunksExact ==
    pc = "lzma2" /\ lzma2_seq = "control" /\ chunk # NoChunk =>
        /\ in_pos = chunk.in + chunk.csize
        /\ Len(plain) = chunk.out + chunk.usize
        /\ len = 0 /\ temp_size = 0

\* The byte x of a block k after the filter: each byte of a whole instruction has
\* been taken once, at its place in the block.
Filtered(k, x) ==
    IF k.bcj /\ x < Whole(k.size) THEN x + 1 ELSE 0

\* The program that is entered is the one that was packed: every byte of it is
\* there, in its place, filtered once where its block is filtered; the blocks make
\* it up, and the index describes them as they are.
UnpackedIsExact ==
    pc = "entrypoint" =>
        /\ out_pos = Len(plain)
        /\ \A i \in DOMAIN blocks :
              LET k == blocks[i]
              IN  /\ k.out = IF i = 1 THEN 0 ELSE blocks[i - 1].out + blocks[i - 1].size
                  /\ \A x \in 0..(k.size - 1) :
                        mem["out"][k.out + x] = <<plain[k.out + x + 1], Filtered(k, x)>>
                  /\ k.end - k.begin \in index_hash[i][1] .. (index_hash[i][1] + 3)
                  /\ k.size = index_hash[i][2]
        /\ Len(index_hash) = Len(blocks)
        /\ out_pos = IF blocks = <<>> THEN 0
                     ELSE blocks[Len(blocks)].out + blocks[Len(blocks)].size

\* main ends: it enters the program or returns, whatever the packed data is and
\* wherever it is cut off, except while the filter decodes into its own buffer.
UnpackReturns == <>(pc \in Ends) \/ <>[](b_out = "temp")

\* What xz.h says of the single-call mode: too small an output buffer is reported,
\* so that main ends then as well.
TooLongReported == <>(pc \in Ends)
=============================================================================
