---------------------------- MODULE XzDec_proofs ----------------------------
(***************************************************************************)
(* What holds of the XZ decoder for every packed program, whatever its     *)
(* symbols, chunks, blocks and index are, wherever it is cut off, and for  *)
(* every size of the output and of the buffers: it stays within them, no   *)
(* distance of before a reset is used, the chunks are exact, and the       *)
(* program that main enters is the one that was packed.                    *)
(*                                                                         *)
(* The code has one number for each thing it counts and seldom checks that *)
(* they agree; IInv says how they do.  Its proof has a lemma for each      *)
(* action, with a step for each group of conjuncts; the lemmas named       *)
(* ...Core prove the groups that need arithmetic or sequences.             *)
(*                                                                         *)
(* DataInv says where each byte is while a program may still be entered,   *)
(* IInv being known; the lemmas named ...Data prove it.                    *)
(***************************************************************************)
EXTENDS XzDec, SequenceTheorems, TLAPS

\* A round of lzma2_lzma, all that is within xz_dec_lzma2_run, and what is around it.
Round       == {"temp", "lzma_main", "symbols", "direct", "save", "flush"}
Lzma2Places == {"lzma2", "prepare", "copy"} \cup Round
Callers     == {"block", "bcj_filter", "bcj_restore"}
Over        == {"run"} \cup Ends

\* The decoding has failed, or is over: nothing is decoded after it.
Failed == pc \in Over \/ (pc \in Callers /\ ret = "XZ_DATA_ERROR")

\* The bytes of the chunk are being taken, or have been without an error.
Live == \/ pc \in Lzma2Places \cup {"bcj_temp"}
        \/ pc \in {"bcj_filter", "bcj_restore"} /\ ret = "XZ_OK"

\* The output buffer of main, which b->out may be turned away from for a while
\* (xz_dec_bcj_run), the bytes decoded, and the place reached in the output.
OutSize == IF b_out = "out" THEN out_size ELSE saved_size
Written == Len(plain)
OutPos == IF b_out = "out" THEN out_pos ELSE saved_pos

\* The parts of the invariant.
PcInv ==
    pc \in {"stream", "block", "run", "bcj", "bcj_filter", "bcj_temp",
            "bcj_restore", "lzma2", "prepare", "temp", "lzma_main", "symbols",
            "direct", "save", "flush", "copy", "entrypoint", "return"}

BufInv ==
    /\ in_size \in InSizes
    /\ in_size \in Nat /\ in_pos \in Nat /\ in_pos <= in_size
    /\ b_out \in {"out", "temp"}
    /\ out_size \in Nat /\ out_pos \in Nat /\ out_pos <= out_size

MemInv ==
    /\ OutSize \in OutSizes
    /\ DOMAIN mem = {"out", "temp"}
    /\ mem["out"] \in [0..(OutSize - 1) -> Byte]
    /\ mem["temp"] \in [0..(TempSize - 1) -> Byte]

\* Who called xz_dec_lzma2_run, and what it keeps: the filter turns b->out to its own
\* buffer and back, and what it began to filter at lies behind what is decoded.
CallInv ==
    /\ caller \in Callers
    /\ b_out = "temp" <=>
          pc = "bcj_restore" \/ (pc \in Lzma2Places /\ caller = "bcj_restore")
    /\ b_out = "temp" => out_size = TempSize /\ saved_pos <= saved_size
    /\ pc = "bcj_filter" \/ (pc \in Lzma2Places /\ caller = "bcj_filter") =>
          out_start <= bcj_start /\ bcj_start <= out_pos
    /\ pc # "return" => in_start <= in_pos /\ out_start <= OutPos

\* Where the container stands: a block is decoded in one call, from the control byte of
\* a chunk, and the index is compared with the blocks it counts.
StreamInv ==
    /\ pc \notin {"stream"} \cup Over => sequence = "block"
    /\ pc = "stream" => lzma2_seq = "control"
    /\ pc = "bcj" \/ (pc = "stream" /\ sequence = "block") =>
          lzma2_seq = "control" /\ chunk = NoChunk
    /\ pc \in Callers /\ ret = "XZ_STREAM_END" => lzma2_seq = "control"
    /\ sequence \in {"stream_header", "block_start", "block_header", "block",
                     "block_padding", "block_check"} => index_seq = "count"
    /\ index_seq = "count" => index_hash = <<>>
    /\ pc = "stream" /\ sequence = "index" /\ index_seq # "count" =>
          index_count > 0 /\ Len(index_hash) + index_count = Len(block_hash)

\* The dictionary lies in its buffer, and holds only what has been decoded.
DictInv ==
    /\ dict_full = dict_pos
    /\ dict_pos <= dict_end
    /\ dict_start <= dict_pos
    /\ dict_base + dict_end <= (IF dict_buf = "out" THEN OutSize ELSE TempSize)
    /\ dict_full <= Written

\* What xz_dec_lzma2_run is at, and the state it would go on with.
PlaceInv ==
    /\ pc \in Round => lzma2_seq = "lzma_run"
    /\ pc = "prepare" => lzma2_seq = "lzma_prepare"
    /\ pc = "copy" => lzma2_seq = "copy"

\* The chunk has properties, and so a reset that is still to come.
ResetComing ==
    next_seq = "properties" /\ lzma2_seq \in {"uncompressed", "compressed", "properties"}

\* ... or it has passed the check of need_props.
PropsKnown ==
    \/ lzma2_seq \in {"uncompressed", "properties", "lzma_prepare", "lzma_run"}
    \/ lzma2_seq = "compressed" /\ next_seq # "copy"

\* The flags keep what is left of earlier chunks from being used: the last distance
\* is within the dictionary, and the range decoder has its bytes to read, unless a
\* reset or the flag that asks for one stands before.
NeedInv ==
    /\ lzma2_seq # "control" => ~need_dict_reset
    /\ PropsKnown => ~need_props
    /\ lzma2_seq = "uncompressed" => next_seq # "copy"
    /\ \/ rep0 = 0 \/ rep0 < dict_full
       \/ need_dict_reset \/ need_props \/ ResetComing \/ Failed
    /\ \/ rc_init = RC_INIT_BYTES
       \/ need_dict_reset \/ need_props \/ ResetComing
       \/ lzma2_seq \in {"lzma_prepare", "lzma_run"}
       \/ sequence # "block"

\* A round of lzma2_lzma writes what there is room for, and no more than the chunk
\* has left; the dictionary is flushed between the rounds.
RoundInv ==
    /\ pc \in Round \/ dict_start = dict_pos \/ Failed
    /\ pc \in Round =>
          /\ dict_pos <= dict_limit /\ dict_limit <= dict_end
          /\ dict_limit - dict_start <= out_avail
          /\ dict_limit - dict_start <= uncompressed

\* The bytes in s->temp are of the chunk.
TempInv ==
    /\ temp_size < LZMA_IN_REQUIRED
    /\ lzma2_seq = "lzma_run" => temp_size <= compressed
    /\ lzma2_seq # "lzma_run" => temp_size = 0 /\ len = 0
    /\ pc \in {"direct", "save"} => temp_size = 0

\* lzma_main begins a symbol only where the LZMA_IN_REQUIRED bytes it may take are.
RcInv ==
    /\ rc_pos <= (IF rc_in = "in" THEN in_size ELSE 3 * LZMA_IN_REQUIRED)
    /\ pc \in {"lzma_main", "symbols"} /\ rc_in = "temp" =>
          /\ tmp <= in_avail /\ temp_size + tmp <= compressed
          /\ rc_limit <= 2 * LZMA_IN_REQUIRED
          /\ rc_pos < 3 * LZMA_IN_REQUIRED
    /\ pc \in {"lzma_main", "symbols"} /\ rc_in = "in" =>
          /\ rc_limit <= in_size - LZMA_IN_REQUIRED
          /\ in_pos <= rc_pos /\ rc_pos < in_size
          /\ temp_size = 0

\* Where the chunk must end.
InEnd == chunk.in + chunk.csize
OutEnd == chunk.out + chunk.usize

\* The bytes a chunk has left are those to where it must end.
ChunkInv ==
    Live =>
    /\ lzma2_seq = "control" /\ chunk # NoChunk => in_pos = InEnd /\ Written = OutEnd
    /\ lzma2_seq = "copy" => in_pos + compressed = InEnd /\ Written + compressed = OutEnd
    /\ lzma2_seq = "properties" => in_pos + 1 + compressed = InEnd
    /\ lzma2_seq = "lzma_prepare" =>
          in_pos + compressed + rc_init = InEnd + RC_INIT_BYTES
    /\ lzma2_seq = "lzma_run" => in_pos + compressed = InEnd + temp_size
    /\ lzma2_seq \in {"properties", "lzma_prepare", "lzma_run"} =>
          Written + uncompressed + dict_start = OutEnd + dict_pos

\* The inductive invariant.
IInv ==
    /\ PcInv /\ BufInv /\ MemInv /\ Lzma2TypeOK /\ BcjTypeOK /\ StreamTypeOK
    /\ CallInv /\ StreamInv /\ DictInv /\ PlaceInv /\ NeedInv /\ RoundInv
    /\ TempInv /\ RcInv /\ ChunkInv

USE DEF b, input, output, in_avail, out_avail, ctl, place, write, dict, sizes, needs,
        lzma2, lzma, rc, temp, lzma2_vars, bcj_vars, stream_vars, filter_vars

-----------------------------------------------------------------------------
(* What the operators yield.                                               *)

LEMMA LeastNat ==
    ASSUME NEW x \in Nat, NEW y \in Nat
    PROVE  Least(x, y) \in Nat /\ Least(x, y) <= x /\ Least(x, y) <= y
  BY DEF Least

LEMMA WholeNat ==
    ASSUME NEW n \in Nat
    PROVE  Whole(n) \in Nat /\ Whole(n) <= n /\ n - Whole(n) < InstrSize
  <1>1. n % InstrSize \in Nat /\ n % InstrSize < InstrSize /\ n % InstrSize <= n
    BY BcjAssumption
  <1> QED
    BY <1>1, BcjAssumption DEF Whole

LEMMA Padding ==
    ASSUME NEW x \in Int
    PROVE  (-x) % 4 \in Nat
  OBVIOUS

LEMMA FieldSizeNat ==
    ASSUME IInv
    PROVE  FieldSize \in Nat
  <1>1. /\ check_size \in Nat /\ header.size \in Nat
        /\ block_compressed \in Int /\ index_size + in_pos - in_start \in Int
    BY DEF IInv, BufInv, StreamTypeOK
  <1>2. (-block_compressed) % 4 \in Nat /\ (-(index_size + in_pos - in_start)) % 4 \in Nat
    BY <1>1, Padding
  <1> QED
    BY <1>1, <1>2 DEF FieldSize

\* DictPut keeps both buffers, if what it puts there are bytes.
LEMMA DictPutMem ==
    ASSUME NEW v, NEW n \in Nat, NEW k \in Nat, DictPut(v, n),
           v \in [0..(n - 1) -> Byte],
           dict_buf \in {"out", "temp"}, dict_base \in Nat, dict_pos \in Nat,
           DOMAIN mem = {"out", "temp"},
           mem["out"] \in [0..(k - 1) -> Byte],
           mem["temp"] \in [0..(TempSize - 1) -> Byte]
    PROVE  /\ DOMAIN mem' = {"out", "temp"}
           /\ mem'["out"] \in [0..(k - 1) -> Byte]
           /\ mem'["temp"] \in [0..(TempSize - 1) -> Byte]
  <1> DEFINE at == dict_base + dict_pos
             new == [x \in DOMAIN mem[dict_buf] |->
                        IF Within(x, at, n) THEN v[x - at] ELSE mem[dict_buf][x]]
  <1>1. mem' = [mem EXCEPT ![dict_buf] = new]
    BY DEF DictPut
  <1>2. ASSUME NEW d \in Nat, mem[dict_buf] \in [0..(d - 1) -> Byte]
        PROVE  new \in [0..(d - 1) -> Byte]
    <2>1. ASSUME NEW x \in 0..(d - 1), Within(x, at, n) PROVE x - at \in 0..(n - 1)
      BY <2>1 DEF Within
    <2>2. ASSUME NEW x \in 0..(d - 1)
          PROVE  (IF Within(x, at, n) THEN v[x - at] ELSE mem[dict_buf][x]) \in Byte
      BY <1>2, <2>1, <2>2
    <2>3. DOMAIN mem[dict_buf] = 0..(d - 1)
      BY <1>2
    <2> QED
      BY <2>2, <2>3
  <1>3. TempSize \in Nat
    BY XzBufAssumption
  <1> HIDE DEF new
  <1>4. CASE dict_buf = "out"
    BY <1>1, <1>2, <1>4
  <1>5. CASE dict_buf = "temp"
    BY <1>1, <1>2, <1>3, <1>5
  <1> QED
    BY <1>4, <1>5

-----------------------------------------------------------------------------
(* The numbers of a state.                                                 *)

Numbers ==
    /\ in_size \in Nat /\ in_pos \in Nat /\ in_pos <= in_size
    /\ out_size \in Nat /\ out_pos \in Nat /\ out_pos <= out_size
    /\ TempSize \in Nat /\ OutSize \in Nat
    /\ LZMA_IN_REQUIRED \in Nat /\ LZMA_IN_REQUIRED > 0
    /\ RC_INIT_BYTES \in Nat /\ RC_INIT_BYTES > 0
    /\ dict_base \in Nat /\ dict_start \in Nat /\ dict_pos \in Nat
    /\ dict_full \in Nat /\ dict_limit \in Nat /\ dict_end \in Nat
    /\ uncompressed \in Nat /\ compressed \in Nat
    /\ rc_init \in Nat /\ rc_init <= RC_INIT_BYTES
    /\ rc_pos \in Nat /\ rc_limit \in Nat
    /\ temp_size \in Nat /\ tmp \in Nat /\ rep0 \in Nat /\ len \in Nat
    /\ saved_pos \in Nat /\ saved_size \in Nat /\ bcj_start \in Nat
    /\ in_start \in Nat /\ out_start \in Nat
    /\ InEnd \in Nat /\ OutEnd \in Nat /\ Written \in Nat

LEMMA NumbersKnown == IInv => Numbers
  <1> SUFFICES ASSUME IInv PROVE Numbers
    OBVIOUS
  <1>1. plain \in Seq(Nat)
    BY DEF IInv, Lzma2TypeOK
  <1>2. Len(plain) \in Nat
    BY <1>1, LenProperties
  <1> QED
    BY <1>2, XzBufAssumption, Lzma2Assumption, SMTT(20)
       DEF IInv, BufInv, MemInv, Lzma2TypeOK, BcjTypeOK, StreamTypeOK, Numbers, Written, InEnd, OutEnd

-----------------------------------------------------------------------------
(* What is written.                                                        *)

\* n bytes have been added to the dictionary and to the data.
Put(n) ==
    /\ DOMAIN mem' = {"out", "temp"}
    /\ mem'["out"] \in [0..(OutSize - 1) -> Byte]
    /\ mem'["temp"] \in [0..(TempSize - 1) -> Byte]
    /\ dict_pos' = dict_pos + n /\ dict_full' = dict_pos'
    /\ plain' \in Seq(Nat) /\ Written' = Written + n

LEMMA PutKnown ==
    ASSUME IInv, NEW n \in Nat, NEW v \in [0..(n - 1) -> Byte], DictPut(v, n),
           NEW more \in Seq(Nat), Len(more) = n, plain' = plain \o more
    PROVE  Put(n)
  <1>0. Numbers
    BY NumbersKnown
  <1>1. /\ dict_buf \in {"out", "temp"} /\ DOMAIN mem = {"out", "temp"}
        /\ mem["out"] \in [0..(OutSize - 1) -> Byte]
        /\ mem["temp"] \in [0..(TempSize - 1) -> Byte]
        /\ plain \in Seq(Nat) /\ dict_full = dict_pos
    BY DEF IInv, MemInv, Lzma2TypeOK, DictInv
  <1>2. OutSize \in Nat /\ dict_base \in Nat /\ dict_pos \in Nat
    BY <1>0 DEF Numbers
  <1>3. /\ DOMAIN mem' = {"out", "temp"}
        /\ mem'["out"] \in [0..(OutSize - 1) -> Byte]
        /\ mem'["temp"] \in [0..(TempSize - 1) -> Byte]
    BY <1>1, <1>2, DictPutMem
  <1>4. dict_pos' = dict_pos + n /\ dict_full' = dict_pos'
    BY <1>1, <1>2 DEF DictPut
  <1>5. plain' \in Seq(Nat) /\ Len(plain') = Len(plain) + n
    BY <1>1, ConcatProperties
  <1> QED
    BY <1>3, <1>4, <1>5 DEF Put, Written

LEMMA PutNew ==
    ASSUME IInv, NEW n \in Nat, DictPutNew(n)
    PROVE  Put(n)
  <1> DEFINE new == [j \in 1..n |-> Len(plain) + j]
  <1>1. Len(plain) \in Nat
    BY NumbersKnown DEF Numbers, Written
  <1>2. NewBytes(n) \in [0..(n - 1) -> Byte]
    BY <1>1 DEF NewBytes, Byte
  <1>3. new \in Seq(Nat) /\ Len(new) = n
    BY <1>1
  <1>4. DictPut(NewBytes(n), n) /\ plain' = plain \o new
    BY DEF DictPutNew
  <1> HIDE DEF new
  <1> QED
    BY <1>2, <1>3, <1>4, PutKnown

\* A match repeats bytes that are there.
LEMMA PutOld ==
    ASSUME IInv, NEW dist \in Nat, NEW n \in Nat, DictRepeat(dist, n), dist < dict_full
    PROVE  Put(n)
  <1> DEFINE back == dict_pos - dist - 1
             from(j) == dict_base + back + (j % (dist + 1))
             old(j) == Len(plain) - dist + ((j - 1) % (dist + 1))
             v == [j \in 0..(n - 1) |-> mem[dict_buf][from(j)]]
             more == [j \in 1..n |-> plain[old(j)]]
  <1>0. Numbers
    BY NumbersKnown
  <1>1. /\ Len(plain) \in Nat /\ dict_pos \in Nat /\ dict_base \in Nat /\ dict_end \in Nat
        /\ dist + 1 \in Nat \ {0} /\ dist < dict_pos /\ dict_pos <= Len(plain)
        /\ dict_pos <= dict_end /\ TempSize \in Nat /\ OutSize \in Nat
        /\ dict_buf = "out" => dict_base + dict_end <= OutSize
        /\ dict_buf = "temp" => dict_base + dict_end <= TempSize
        /\ dict_buf \in {"out", "temp"}
    BY <1>0 DEF Numbers, IInv, Lzma2TypeOK, DictInv, Written
  <1>2. ASSUME NEW x \in Nat, NEW d \in Nat \ {0} PROVE x % d \in Nat /\ x % d < d
    OBVIOUS
  <1>3. ASSUME NEW j \in 0..(n - 1) PROVE mem[dict_buf][from(j)] \in Byte
    <2>1. j % (dist + 1) \in Nat /\ j % (dist + 1) < dist + 1
      BY <1>1, <1>2
    <2>2. from(j) \in Nat /\ from(j) < dict_base + dict_end
      BY <1>1, <2>1
    <2>3. CASE dict_buf = "out"
      BY <1>1, <2>2, <2>3 DEF IInv, MemInv
    <2>4. CASE dict_buf = "temp"
      BY <1>1, <2>2, <2>4 DEF IInv, MemInv
    <2> QED
      BY <1>1, <2>3, <2>4
  <1>4. ASSUME NEW j \in 1..n PROVE plain[old(j)] \in Nat
    <2>1. j - 1 \in Nat
      OBVIOUS
    <2>2. (j - 1) % (dist + 1) \in Nat /\ (j - 1) % (dist + 1) < dist + 1
      BY <1>1, <1>2, <2>1
    <2>3. old(j) \in 1..Len(plain)
      BY <1>1, <2>2
    <2> QED
      BY <2>3, ElementOfSeq DEF IInv, Lzma2TypeOK
  <1>5. v \in [0..(n - 1) -> Byte]
    BY <1>3
  <1>6. more \in Seq(Nat) /\ Len(more) = n
    BY <1>4
  <1>7. DictPut(v, n) /\ plain' = plain \o more
    BY DEF DictRepeat
  <1> HIDE DEF more, v
  <1> QED
    BY <1>5, <1>6, <1>7, PutKnown

LEMMA RepeatKnown ==
    ASSUME IInv, NEW dist \in Nat, NEW n \in Nat, Repeat(dist, n), dist < dict_full,
           dict_pos <= dict_limit
    PROVE  \E left \in Nat : /\ Put(left) /\ left <= dict_limit - dict_pos
                             /\ len' \in Nat
  <1> DEFINE left == Least(dict_limit - dict_pos, n)
  <1>0. dict_limit - dict_pos \in Nat
    BY NumbersKnown DEF Numbers
  <1>1. left \in Nat /\ left <= dict_limit - dict_pos /\ left <= n
    BY <1>0, LeastNat
  <1>2. DictRepeat(dist, left) /\ len' = n - left
    BY DEF Repeat
  <1> HIDE DEF left
  <1>3. Put(left)
    BY <1>1, <1>2, PutOld
  <1>4. len' \in Nat
    BY <1>1, <1>2
  <1> QED
    BY <1>1, <1>3, <1>4

-----------------------------------------------------------------------------
(* The invariant holds before the first call.                              *)

LEMMA InitInv == Init => IInv
  <1> SUFFICES ASSUME Init PROVE IInv
    OBVIOUS
  <1>1. /\ in_size \in InSizes /\ in_pos = 0 /\ out_size \in OutSizes /\ out_pos = 0
        /\ b_out = "out" /\ pc = "stream" /\ caller = "block"
        /\ mem = [out |-> [x \in 0..(out_size - 1) |-> <<0, 0>>],
                  temp |-> [x \in 0..(TempSize - 1) |-> <<0, 0>>]]
        /\ Lzma2Init /\ BcjInit /\ sequence = "stream_header" /\ index_seq = "count"
        /\ index_hash = <<>>
    BY DEF Init
  <1>2. PcInv /\ BufInv
    BY <1>1, XzBufAssumption DEF PcInv, BufInv
  <1>3. MemInv
    <2>1. <<0, 0>> \in Byte
      BY DEF Byte
    <2>2. OutSize = out_size
      BY <1>1 DEF OutSize
    <2> QED
      BY <1>1, <2>1, <2>2 DEF MemInv
  <1>4. Lzma2TypeOK
    <2>1. plain \in Seq(Nat)
      <3>1. plain = <<>>
        BY <1>1 DEF Lzma2Init
      <3> QED
        BY <3>1
    <2>2. chunk \in [csize : Nat, usize : Nat, in : Nat, out : Nat]
      BY <1>1 DEF Lzma2Init, NoChunk
    <2>3. rc_init = 0 /\ rc_init \in 0..RC_INIT_BYTES
      BY <1>1, Lzma2Assumption DEF Lzma2Init
    <2>4. /\ dict_buf \in {"out", "temp"} /\ dict_base \in Nat
          /\ dict_start \in Nat /\ dict_pos \in Nat /\ dict_full \in Nat
          /\ dict_limit \in Nat /\ dict_end \in Nat /\ dict_size \in Nat
          /\ lzma2_seq = "control" /\ next_seq = "copy"
          /\ uncompressed \in Nat /\ compressed \in Nat
          /\ need_dict_reset \in BOOLEAN /\ need_props \in BOOLEAN
          /\ rep0 \in Nat /\ len \in Nat /\ rc_in \in {"in", "temp"} /\ rc_pos \in Nat
          /\ rc_limit \in Nat /\ rc_normal \in BOOLEAN /\ temp_size \in Nat /\ tmp \in Nat
      BY <1>1 DEF Lzma2Init
    <2> QED
      BY <2>1, <2>2, <2>3, <2>4 DEF Lzma2TypeOK
  <1>5. BcjTypeOK
    BY <1>1, XzBufAssumption DEF BcjInit, BcjTypeOK
  <1>6. StreamTypeOK
    <2>1. block_hash \in Seq(Nat \X Nat) /\ index_hash \in Seq(Nat \X Nat)
      <3>1. block_hash = <<>> /\ index_hash = <<>>
        BY DEF Init
      <3> QED
        BY <3>1
    <2>2. header \in [size : Nat, compressed : Declared \cup {UNKNOWN},
                      uncompressed : Declared \cup {UNKNOWN}]
      BY DEF Init
    <2>3. /\ sequence = "stream_header" /\ check_size = 0 /\ bcj_active = FALSE
          /\ in_start = 0 /\ out_start = 0
          /\ block_compressed = 0 /\ block_uncompressed = 0
          /\ index_seq = "count" /\ index_count = 0 /\ index_size = 0
          /\ index_unpadded = 0
      BY DEF Init
    <2> QED
      BY <2>1, <2>2, <2>3 DEF StreamTypeOK
  <1>7. CallInv /\ StreamInv
    BY <1>1 DEF Init, Lzma2Init, CallInv, StreamInv, OutPos, Callers, Lzma2Places, Round,
                Over, Ends
  <1>8. DictInv
    <2>1. Written = 0
      BY <1>1 DEF Lzma2Init, Written
    <2> QED
      BY <1>1, <2>1, XzBufAssumption DEF Lzma2Init, DictInv, OutSize
  <1>9. PlaceInv /\ NeedInv /\ RoundInv
    BY <1>1 DEF Lzma2Init, PlaceInv, NeedInv, PropsKnown, RoundInv, Round
  <1>10. TempInv /\ RcInv
    BY <1>1, XzBufAssumption, Lzma2Assumption DEF Lzma2Init, TempInv, RcInv
  <1>11. ChunkInv
    BY <1>1 DEF Lzma2Init, ChunkInv, Live, Lzma2Places, Round
  <1> QED
    BY <1>2, <1>3, <1>4, <1>5, <1>6, <1>7, <1>8, <1>9, <1>10, <1>11 DEF IInv

-----------------------------------------------------------------------------
(* xz_dec_lzma2_run.                                                       *)

LEMMA LoopEndKeeps ==
    ASSUME IInv, LoopEnd, UNCHANGED <<bcj_vars, stream_vars>>
    PROVE  IInv'
  <1>1. PcInv' /\ BufInv'
    BY DEF IInv, LoopEnd, PcInv, BufInv, CallInv, Callers, Return
  <1>2. MemInv' /\ Lzma2TypeOK' /\ BcjTypeOK' /\ StreamTypeOK'
    BY SMTT(30) DEF IInv, LoopEnd, MemInv, OutSize, Lzma2TypeOK, BcjTypeOK, StreamTypeOK
  <1>3. CallInv' /\ StreamInv'
    BY DEF IInv, LoopEnd, CallInv, OutPos, Callers, Lzma2Places, StreamInv, Over, Ends,
           Return
  <1>4. DictInv' /\ PlaceInv' /\ NeedInv' /\ RoundInv'
    BY DEF IInv, LoopEnd, CallInv, OutSize, Callers, Round, Over, Ends, DictInv, Written,
           PlaceInv, NeedInv, ResetComing, PropsKnown, Failed, RoundInv, Return
  <1>5. TempInv' /\ RcInv' /\ ChunkInv'
    BY DEF IInv, LoopEnd, CallInv, Callers, Lzma2Places, TempInv, RcInv, ChunkInv, InEnd,
           OutEnd, Written, Live, Return
  <1> QED
    BY <1>1, <1>2, <1>3, <1>4, <1>5 DEF IInv

LEMMA ControlEndKeeps ==
    ASSUME IInv, ControlEnd, UNCHANGED <<bcj_vars, stream_vars>>
    PROVE  IInv'
  <1>1. PcInv' /\ BufInv'
    BY DEF IInv, ControlEnd, PcInv, BufInv, CallInv, Callers, Runs, Return
  <1>2. MemInv' /\ Lzma2TypeOK' /\ BcjTypeOK' /\ StreamTypeOK'
    BY SMTT(30) DEF IInv, ControlEnd, MemInv, OutSize, Lzma2TypeOK, BcjTypeOK, StreamTypeOK
  <1>3. CallInv' /\ StreamInv'
    BY DEF IInv, ControlEnd, BufInv, StreamTypeOK, CallInv, OutPos, Callers, Lzma2Places,
           StreamInv, Over, Ends, Runs, Return, In
  <1>4. DictInv' /\ PlaceInv' /\ NeedInv' /\ RoundInv'
    BY DEF IInv, ControlEnd, CallInv, OutSize, Callers, Round, Over, Ends, DictInv, Written,
           PlaceInv, NeedInv, ResetComing, PropsKnown, Failed, RoundInv, Runs, Return, In
  <1>5. TempInv' /\ RcInv' /\ ChunkInv'
    BY DEF IInv, ControlEnd, CallInv, Callers, Lzma2Places, Round, TempInv, RcInv, ChunkInv,
           Live, Return
  <1> QED
    BY <1>1, <1>2, <1>3, <1>4, <1>5 DEF IInv

LEMMA ControlRejectedKeeps ==
    ASSUME IInv, ControlRejected, UNCHANGED <<bcj_vars, stream_vars>>
    PROVE  IInv'
  <1>1. PcInv' /\ BufInv'
    BY DEF IInv, ControlRejected, PcInv, BufInv, CallInv, Callers, Runs, Return
  <1>2. MemInv' /\ Lzma2TypeOK' /\ BcjTypeOK' /\ StreamTypeOK'
    BY SMTT(30) DEF IInv, ControlRejected, PcInv, MemInv, OutSize, Lzma2TypeOK, BcjTypeOK,
                    StreamTypeOK, ControlBytes
  <1>3. CallInv' /\ StreamInv'
    BY DEF IInv, ControlRejected, BufInv, StreamTypeOK, CallInv, OutPos, Callers,
           Lzma2Places, StreamInv, Over, Ends, Runs, Return, In
  <1>4. DictInv' /\ PlaceInv' /\ NeedInv' /\ RoundInv'
    BY DEF IInv, ControlRejected, CallInv, OutSize, Callers, Round, DictInv, Written,
           PlaceInv, NeedInv, ResetComing, PropsKnown, Failed, RoundInv, Return
  <1>5. TempInv' /\ RcInv' /\ ChunkInv'
    BY DEF IInv, ControlRejected, CallInv, Callers, Lzma2Places, Round, TempInv, RcInv,
           ChunkInv, Live, Return
  <1> QED
    BY <1>1, <1>2, <1>3, <1>4, <1>5 DEF IInv

\* A chunk that resets the dictionary lets it begin where b->out is.
LEMMA ControlChunkCore ==
    ASSUME IInv, ControlChunk, UNCHANGED <<bcj_vars, stream_vars>>
    PROVE  Lzma2TypeOK' /\ DictInv'
  <1>0. Numbers
    BY NumbersKnown
  <1>1. /\ pc = "lzma2" /\ UNCHANGED <<output, mem, plain, dict_size, sizes, chunk, rc_in,
                                      rc_pos, rc_limit, temp, saved_size>>
    BY DEF ControlChunk, Runs, In
  <1>2. /\ lzma2_seq' \in {"uncompressed", "compressed"}
        /\ next_seq' \in {"properties", "lzma_prepare", "copy"}
        /\ need_dict_reset' \in BOOLEAN /\ need_props' \in BOOLEAN
    <2>1. need_props \in BOOLEAN
      BY DEF IInv, Lzma2TypeOK
    <2>2. need_props' \in BOOLEAN
      BY <2>1 DEF ControlChunk, NeedProps
    <2>3. PICK c \in ControlBytes \ {0} :
            /\ need_dict_reset' = FALSE
            /\ lzma2_seq' = IF c >= 128 THEN "uncompressed" ELSE "compressed"
            /\ next_seq' = IF c >= 192 THEN "properties"
                           ELSE IF c >= 128 THEN "lzma_prepare" ELSE "copy"
      BY Zenon DEF ControlChunk
    <2> QED
      BY <2>2, <2>3
  <1>3. \/ UNCHANGED <<dict_buf, dict_base, dict_end, dict_start, dict_pos, dict_limit,
                       dict_full>>
        \/ dict_reset
    BY DEF ControlChunk
  <1>4. rep0' \in Nat /\ len' \in Nat /\ rc_init' \in 0..RC_INIT_BYTES /\ rc_normal' \in BOOLEAN
    <2>1. \/ lzma_reset
          \/ UNCHANGED <<lzma, rc_init, rc_normal>>
      BY DEF ControlChunk
    <2>2. CASE lzma_reset
      BY <1>0, <2>2 DEF Numbers, lzma_reset, rc_reset
    <2>3. CASE UNCHANGED <<lzma, rc_init, rc_normal>>
      BY <2>3 DEF IInv, Lzma2TypeOK
    <2> QED
      BY <2>1, <2>2, <2>3
  <1>5. DictInv' /\ (DictInv => /\ dict_buf' \in {"out", "temp"} /\ dict_base' \in Nat
                    /\ dict_start' \in Nat /\ dict_pos' \in Nat /\ dict_full' \in Nat
                    /\ dict_limit' \in Nat /\ dict_end' \in Nat)
    <2>0. Written' = Written
      BY <1>1 DEF Written
    <2>1. CASE dict_reset
      BY <1>1, <2>0, <2>1, <1>0 DEF Numbers, dict_reset, IInv, BufInv, CallInv, DictInv, OutSize
    <2>2. CASE UNCHANGED <<dict_buf, dict_base, dict_end, dict_start, dict_pos, dict_limit,
                           dict_full>>
      BY <1>1, <2>0, <2>2, <1>0 DEF Numbers, IInv, Lzma2TypeOK, DictInv, OutSize
    <2> QED
      BY <1>3, <2>1, <2>2
  <1>6. Lzma2TypeOK'
    BY <1>1, <1>2, <1>4, <1>5 DEF IInv, Lzma2TypeOK
  <1> QED
    BY <1>5, <1>6

LEMMA ControlChunkKeeps ==
    ASSUME IInv, ControlChunk, UNCHANGED <<bcj_vars, stream_vars>>
    PROVE  IInv'
  <1>1. PcInv' /\ BufInv'
    BY DEF IInv, ControlChunk, PcInv, BufInv, Runs
  <1>2. MemInv' /\ BcjTypeOK' /\ StreamTypeOK'
    BY DEF IInv, ControlChunk, MemInv, OutSize, BcjTypeOK, StreamTypeOK, ControlBytes
  <1>3. Lzma2TypeOK' /\ DictInv'
    BY ControlChunkCore
  <1>4. CallInv' /\ StreamInv'
    BY DEF IInv, ControlChunk, BufInv, StreamTypeOK, CallInv, OutPos, Callers, StreamInv,
           Runs, In
  <1>5. PlaceInv' /\ NeedInv' /\ RoundInv'
    BY DEF IInv, ControlChunk, PlaceInv, NeedInv, ResetComing, PropsKnown, Failed, RoundInv,
           Runs, ControlBytes, Rejected, NeedProps, ResetsDict, dict_reset, lzma_reset, In,
           rc_reset
  <1>6. TempInv' /\ RcInv' /\ ChunkInv'
    BY DEF IInv, ControlChunk, TempInv, RcInv, ChunkInv, Runs, lzma_reset, In
  <1> QED
    BY <1>1, <1>2, <1>3, <1>4, <1>5, <1>6 DEF IInv

LEMMA SizeCutOffKeeps ==
    ASSUME IInv, SizeCutOff, UNCHANGED <<bcj_vars, stream_vars>>
    PROVE  IInv'
  <1>1. PcInv' /\ BufInv'
    BY DEF IInv, SizeCutOff, PcInv, BufInv
  <1>2. MemInv' /\ Lzma2TypeOK' /\ BcjTypeOK' /\ StreamTypeOK'
    BY SMTT(30) DEF IInv, SizeCutOff, MemInv, OutSize, Lzma2TypeOK, BcjTypeOK, StreamTypeOK
  <1>3. CallInv' /\ StreamInv'
    BY DEF IInv, SizeCutOff, BufInv, StreamTypeOK, CallInv, OutPos, StreamInv
  <1>4. DictInv' /\ PlaceInv' /\ NeedInv' /\ RoundInv'
    BY DEF IInv, SizeCutOff, DictInv, OutSize, Written, PlaceInv, NeedInv, ResetComing,
           PropsKnown, Failed, RoundInv
  <1>5. TempInv' /\ RcInv' /\ ChunkInv'
    BY DEF IInv, SizeCutOff, TempInv, RcInv, ChunkInv, Runs, In
  <1> QED
    BY <1>1, <1>2, <1>3, <1>4, <1>5 DEF IInv

LEMMA UncompressedSizeKeeps ==
    ASSUME IInv, UncompressedSize, UNCHANGED <<bcj_vars, stream_vars>>
    PROVE  IInv'
  <1>1. PcInv' /\ BufInv'
    BY DEF IInv, UncompressedSize, PcInv, BufInv
  <1>2. MemInv' /\ Lzma2TypeOK' /\ BcjTypeOK' /\ StreamTypeOK'
    BY Lzma2Assumption, SMTT(30) DEF IInv, UncompressedSize, MemInv, OutSize, Lzma2TypeOK,
                                     BcjTypeOK, StreamTypeOK
  <1>3. CallInv' /\ StreamInv'
    BY DEF IInv, UncompressedSize, BufInv, StreamTypeOK, CallInv, OutPos, StreamInv, Runs,
           In
  <1>4. DictInv' /\ PlaceInv' /\ NeedInv' /\ RoundInv'
    BY DEF IInv, UncompressedSize, DictInv, OutSize, Written, PlaceInv, NeedInv,
           ResetComing, PropsKnown, Failed, RoundInv, Runs, In
  <1>5. TempInv' /\ RcInv' /\ ChunkInv'
    BY DEF IInv, UncompressedSize, TempInv, RcInv, ChunkInv, Runs, In
  <1> QED
    BY <1>1, <1>2, <1>3, <1>4, <1>5 DEF IInv

\* The sizes of the chunk are complete: where it must end is known.
LEMMA CompressedSizeCore ==
    ASSUME IInv, CompressedSize, UNCHANGED <<bcj_vars, stream_vars>>
    PROVE  ChunkInv'
  <1>0. Numbers
    BY NumbersKnown
  <1>1. /\ pc = "lzma2" /\ pc' = pc /\ lzma2_seq = "compressed" /\ in_pos' = in_pos + 2
        /\ lzma2_seq' = next_seq
        /\ chunk' = [csize |-> compressed',
                     usize |-> IF next_seq = "copy" THEN compressed' ELSE uncompressed,
                     in |-> in_pos' + (IF next_seq = "properties" THEN 1 ELSE 0),
                     out |-> Len(plain)]
        /\ compressed' \in Nat
        /\ UNCHANGED <<plain, uncompressed, rc_init, dict_pos, dict_start, temp_size>>
    BY Lzma2Assumption DEF CompressedSize, Runs, In
  <1>2. /\ next_seq \in {"properties", "lzma_prepare", "copy"}
        /\ dict_start = dict_pos
        /\ next_seq = "lzma_prepare" => rc_init = RC_INIT_BYTES
    BY <1>1 DEF IInv, Lzma2TypeOK, RoundInv, NeedInv, StreamInv, PropsKnown, ResetComing, Round,
                Failed, Over, Ends, Callers
  <1>3. /\ InEnd' = in_pos' + (IF next_seq = "properties" THEN 1 ELSE 0) + compressed'
        /\ OutEnd' = Written + (IF next_seq = "copy" THEN compressed' ELSE uncompressed)
        /\ Written' = Written
    BY <1>1 DEF InEnd, OutEnd, Written
  <1>4. CASE next_seq = "copy"
    BY <1>0, <1>1, <1>3, <1>4 DEF Numbers, ChunkInv
  <1>5. CASE next_seq = "properties"
    BY <1>0, <1>1, <1>2, <1>3, <1>5 DEF Numbers, ChunkInv
  <1>6. CASE next_seq = "lzma_prepare"
    BY <1>0, <1>1, <1>2, <1>3, <1>6 DEF Numbers, ChunkInv
  <1> QED
    BY <1>2, <1>4, <1>5, <1>6

LEMMA CompressedSizeKeeps ==
    ASSUME IInv, CompressedSize, UNCHANGED <<bcj_vars, stream_vars>>
    PROVE  IInv'
  <1>1. PcInv' /\ BufInv'
    BY DEF IInv, CompressedSize, PcInv, BufInv
  <1>2. MemInv' /\ Lzma2TypeOK' /\ BcjTypeOK' /\ StreamTypeOK'
    BY XzBufAssumption, Lzma2Assumption, BcjAssumption, XzDecAssumption, SMTT(30) DEF IInv,
                                                                                      CompressedSize,
                                                                                      PcInv,
                                                                                      BufInv,
                                                                                      MemInv,
                                                                                      OutSize,
                                                                                      Lzma2TypeOK,
                                                                                      BcjTypeOK,
                                                                                      StreamTypeOK,
                                                                                      OutPos,
                                                                                      Callers,
                                                                                      Lzma2Places,
                                                                                      Round,
                                                                                      StreamInv,
                                                                                      Over,
                                                                                      Ends,
                                                                                      Runs,
                                                                                      In
  <1>3. CallInv' /\ StreamInv'
    BY DEF IInv, CompressedSize, BufInv, StreamTypeOK, CallInv, OutPos, StreamInv, Runs, In
  <1>4. DictInv' /\ PlaceInv' /\ NeedInv' /\ RoundInv'
    BY DEF IInv, CompressedSize, DictInv, OutSize, Written, PlaceInv, NeedInv, ResetComing,
           PropsKnown, Failed, RoundInv, Runs, In
  <1>5. TempInv' /\ RcInv'
    BY DEF IInv, CompressedSize, Lzma2TypeOK, TempInv, RcInv, Runs, In
  <1>6. ChunkInv'
    BY CompressedSizeCore
  <1> QED
    BY <1>1, <1>2, <1>3, <1>4, <1>5, <1>6 DEF IInv

LEMMA PropertiesBadKeeps ==
    ASSUME IInv, PropertiesBad, UNCHANGED <<bcj_vars, stream_vars>>
    PROVE  IInv'
  <1>1. PcInv' /\ BufInv'
    BY DEF IInv, PropertiesBad, PcInv, BufInv, CallInv, Callers, Runs, Return
  <1>2. MemInv' /\ Lzma2TypeOK' /\ BcjTypeOK' /\ StreamTypeOK'
    BY SMTT(30) DEF IInv, PropertiesBad, MemInv, OutSize, Lzma2TypeOK, BcjTypeOK,
                    StreamTypeOK
  <1>3. CallInv' /\ StreamInv'
    BY DEF IInv, PropertiesBad, BufInv, StreamTypeOK, CallInv, OutPos, Callers, Lzma2Places,
           StreamInv, Over, Ends, Runs, Return, In
  <1>4. DictInv' /\ PlaceInv' /\ NeedInv' /\ RoundInv'
    BY DEF IInv, PropertiesBad, CallInv, OutSize, Callers, Round, DictInv, Written,
           PlaceInv, NeedInv, ResetComing, PropsKnown, Failed, RoundInv, Return
  <1>5. TempInv' /\ RcInv' /\ ChunkInv'
    BY DEF IInv, PropertiesBad, CallInv, Callers, Lzma2Places, Round, TempInv, RcInv,
           ChunkInv, Live, Return
  <1> QED
    BY <1>1, <1>2, <1>3, <1>4, <1>5 DEF IInv

LEMMA PropertiesKeeps ==
    ASSUME IInv, Properties, UNCHANGED <<bcj_vars, stream_vars>>
    PROVE  IInv'
  <1>1. PcInv' /\ BufInv'
    BY DEF IInv, Properties, PcInv, BufInv, Runs, Goto
  <1>2. MemInv' /\ Lzma2TypeOK' /\ BcjTypeOK' /\ StreamTypeOK'
    BY Lzma2Assumption, SMTT(30) DEF IInv, Properties, MemInv, OutSize, Lzma2TypeOK,
                                     BcjTypeOK, StreamTypeOK, lzma_reset, rc_reset
  <1>3. CallInv' /\ StreamInv'
    BY DEF IInv, Properties, BufInv, StreamTypeOK, CallInv, OutPos, Callers, Lzma2Places,
           StreamInv, Over, Ends, Runs, Goto, In
  <1>4. DictInv' /\ PlaceInv' /\ NeedInv' /\ RoundInv'
    BY DEF IInv, Properties, DictInv, OutSize, Written, PlaceInv, Round, NeedInv,
           PropsKnown, Failed, Over, Ends, Callers, RoundInv, Runs, lzma_reset, Goto, In
  <1>5. TempInv' /\ RcInv' /\ ChunkInv'
    BY DEF IInv, Properties, Lzma2Places, TempInv, RcInv, ChunkInv, InEnd, OutEnd, Written,
           Live, Runs, lzma_reset, Goto, In, rc_reset
  <1> QED
    BY <1>1, <1>2, <1>3, <1>4, <1>5 DEF IInv

\* The bytes that start the range decoder are bytes of the chunk.
LEMMA PrepareCore ==
    ASSUME IInv, Prepare, UNCHANGED <<bcj_vars, stream_vars>>
    PROVE  /\ PcInv' /\ BufInv' /\ Lzma2TypeOK' /\ CallInv' /\ PlaceInv'
           /\ RoundInv' /\ RcInv' /\ ChunkInv'
  <1>0. Numbers
    BY NumbersKnown
  <1>1. /\ pc \in {"lzma2", "prepare"} /\ lzma2_seq = "lzma_prepare"
        /\ UNCHANGED <<output, dict, next_seq, uncompressed, needs, chunk, lzma, rc, temp,
                       in_size, caller, bcj_start, saved_pos, saved_size, in_start, out_start>>
        /\ caller \in Callers
    BY DEF Prepare, Runs, In, Goto, Return, IInv, PlaceInv, CallInv
  <1>2. /\ in_pos' \in Nat /\ in_pos <= in_pos' /\ in_pos' <= in_size
        /\ compressed' \in Nat /\ rc_init' \in Nat /\ rc_init' <= RC_INIT_BYTES
        /\ lzma2_seq' \in {"lzma_prepare", "lzma_run"}
        /\ pc' \in {"lzma2", caller}
        /\ pc' = "lzma2" => lzma2_seq' = "lzma_run"
        /\ lzma2_seq' = "lzma_run" =>
              in_pos' = in_pos + rc_init /\ compressed' = compressed - RC_INIT_BYTES
        /\ lzma2_seq' = "lzma_prepare" /\ ret' = "XZ_OK" =>
              /\ in_pos' = in_size /\ rc_init' = rc_init - (in_size - in_pos)
              /\ compressed' = compressed
        /\ pc' # "lzma2" => ret' \in {"XZ_OK", "XZ_DATA_ERROR"}
    <2>1. CASE compressed < RC_INIT_BYTES /\ Return("XZ_DATA_ERROR")
               /\ UNCHANGED <<input, compressed, lzma2_seq, rc_init>>
      BY <1>1, <2>1, <1>0 DEF Numbers, Return, Callers
    <2>2. CASE /\ compressed >= RC_INIT_BYTES /\ in_avail < rc_init
               /\ in_pos' = in_size
               /\ rc_init' = rc_init - in_avail
               /\ Return("XZ_OK")
               /\ UNCHANGED <<in_size, compressed, lzma2_seq>>
      BY <1>1, <2>2, <1>0 DEF Numbers, Return, Callers
    <2>3. CASE /\ compressed >= RC_INIT_BYTES /\ in_avail >= rc_init
               /\ in_pos' = in_pos + rc_init
               /\ rc_init' = 0
               /\ compressed' = compressed - RC_INIT_BYTES
               /\ lzma2_seq' = "lzma_run"
               /\ Goto("lzma2")
               /\ UNCHANGED in_size
      BY <1>1, <2>3, <1>0 DEF Numbers, Goto
    <2> QED
      BY <2>1, <2>2, <2>3 DEF Prepare
  <1>3. Lzma2TypeOK'
    BY <1>1, <1>2, <1>0 DEF Numbers, IInv, Lzma2TypeOK
  <1>4. CallInv'
    <2>1. CallInv /\ (pc' \in Lzma2Places \/ pc' = caller) /\ pc \in Lzma2Places
      BY <1>1, <1>2 DEF IInv, Lzma2Places
    <2>2. OutPos' = OutPos
      BY <1>1 DEF OutPos
    <2>3. UNCHANGED <<caller, b_out, out_pos, out_size, saved_pos, saved_size, bcj_start,
                      in_start, out_start>>
      BY <1>1
    <2> QED
      BY <1>0, <1>1, <1>2, <2>1, <2>2, <2>3 DEF Numbers, CallInv, Callers, Lzma2Places, Round
  <1>5. ChunkInv'
    <2>1. temp_size = 0 /\ dict_start = dict_pos
      BY <1>1 DEF IInv, TempInv, RoundInv, Round, Failed, Over, Ends, Callers
    <2>2. in_pos + compressed + rc_init = InEnd + RC_INIT_BYTES
          /\ Written + uncompressed + dict_start = OutEnd + dict_pos
      BY <1>1 DEF IInv, ChunkInv, Live, Lzma2Places
    <2>3. UNCHANGED <<Written, InEnd, OutEnd, uncompressed, temp_size, dict_pos, dict_start>>
      BY <1>1 DEF Written, InEnd, OutEnd
    <2>4. CASE lzma2_seq' = "lzma_run"
      BY <1>0, <1>2, <2>1, <2>2, <2>3, <2>4 DEF Numbers, ChunkInv
    <2>5. CASE Live' /\ lzma2_seq' = "lzma_prepare"
      <3>1. ret' = "XZ_OK"
        BY <1>1, <1>2, <2>5 DEF Live, Lzma2Places, Round, Callers
      <3>2. /\ in_pos' = in_size /\ rc_init' = rc_init - (in_size - in_pos)
            /\ compressed' = compressed
        BY <1>2, <2>5, <3>1
      <3> QED
        BY <1>0, <2>2, <2>3, <2>5, <3>2 DEF Numbers, ChunkInv
    <2> QED
      BY <1>2, <2>4, <2>5 DEF ChunkInv
  <1>6. PcInv' /\ BufInv' /\ PlaceInv'
    BY <1>1, <1>2 DEF IInv, PcInv, BufInv, PlaceInv, Round, Callers
  <1>7. RoundInv'
    <2>1. dict_start = dict_pos
      BY <1>1 DEF IInv, RoundInv, Round, Failed, Over, Ends, Callers
    <2> QED
      BY <1>1, <1>2, <2>1 DEF RoundInv, Round, Callers
  <1>8. RcInv'
    <2>1. rc_pos <= (IF rc_in = "in" THEN in_size ELSE 3 * LZMA_IN_REQUIRED)
      BY DEF IInv, RcInv
    <2> QED
      BY <1>1, <1>2, <2>1 DEF RcInv, Callers
  <1> QED
    BY <1>3, <1>4, <1>5, <1>6, <1>7, <1>8

LEMMA PrepareKeeps ==
    ASSUME IInv, Prepare, UNCHANGED <<bcj_vars, stream_vars>>
    PROVE  IInv'
  <1>1. /\ PcInv' /\ BufInv' /\ Lzma2TypeOK' /\ CallInv'
        /\ PlaceInv' /\ RoundInv' /\ RcInv' /\ ChunkInv'
    BY PrepareCore
  <1>2. MemInv' /\ BcjTypeOK' /\ StreamTypeOK'
    BY SMTT(30) DEF IInv, Prepare, MemInv, OutSize, BcjTypeOK, StreamTypeOK
  <1>3. StreamInv'
    BY DEF IInv, Prepare, CallInv, Callers, StreamInv, Over, Ends, Runs, Return, Goto, In
  <1>4. DictInv'
    BY DEF IInv, Prepare, DictInv, OutSize, Written
  <1>5. NeedInv'
    BY DEF IInv, Prepare, Callers, Over, Ends, PlaceInv, NeedInv, ResetComing, PropsKnown,
           Failed, Runs, In
  <1>6. TempInv'
    BY Lzma2Assumption DEF IInv, Prepare, Lzma2TypeOK, PlaceInv, TempInv, Runs, In
  <1> QED
    BY <1>1, <1>2, <1>3, <1>4, <1>5, <1>6 DEF IInv

\* dict_limit keeps the round within the room of the output and the rest of the chunk.
LEMMA RunLimitCore ==
    ASSUME IInv, RunLimit, UNCHANGED <<bcj_vars, stream_vars>>
    PROVE  RoundInv'
  <1>0. Numbers
    BY NumbersKnown
  <1>1. /\ pc = "lzma2" /\ pc' = "temp" /\ dict_limit' = LimitFor(Least(out_avail, uncompressed))
        /\ UNCHANGED <<b, dict_pos, dict_end, dict_start, uncompressed>>
    BY DEF RunLimit, In, Goto
  <1>2. dict_start = dict_pos /\ dict_pos <= dict_end
    BY <1>1 DEF IInv, RoundInv, DictInv, Round, Failed, Over, Ends, Callers
  <1>3. out_avail \in Nat /\ uncompressed \in Nat
    BY <1>0 DEF Numbers
  <1> DEFINE n == Least(out_avail, uncompressed)
  <1>4. n \in Nat /\ n <= out_avail /\ n <= uncompressed
    BY <1>3, LeastNat
  <1> HIDE DEF n
  <1> QED
    BY <1>1, <1>2, <1>4, <1>0 DEF Numbers, RoundInv, LimitFor, n

LEMMA RunLimitKeeps ==
    ASSUME IInv, RunLimit, UNCHANGED <<bcj_vars, stream_vars>>
    PROVE  IInv'
  <1>1. PcInv' /\ BufInv'
    BY DEF IInv, RunLimit, PcInv, BufInv, Goto
  <1>2. MemInv' /\ Lzma2TypeOK' /\ BcjTypeOK' /\ StreamTypeOK'
    BY Lzma2Assumption, SMTT(30) DEF IInv, RunLimit, BufInv, MemInv, OutSize, Lzma2TypeOK,
                                     BcjTypeOK, StreamTypeOK, In, LimitFor, Least
  <1>3. CallInv' /\ StreamInv'
    BY DEF IInv, RunLimit, CallInv, OutPos, Callers, Lzma2Places, Round, StreamInv, Over,
           Ends, In, Goto
  <1>4. DictInv' /\ PlaceInv' /\ NeedInv'
    BY DEF IInv, RunLimit, DictInv, OutSize, Written, PlaceInv, NeedInv, ResetComing,
           PropsKnown, Failed, Over, Ends, Callers, In, Goto
  <1>5. RoundInv'
    BY RunLimitCore
  <1>6. TempInv' /\ RcInv' /\ ChunkInv'
    BY DEF IInv, RunLimit, TempInv, RcInv, ChunkInv, InEnd, OutEnd, Written, Live,
           Lzma2Places, In, Goto
  <1> QED
    BY <1>1, <1>2, <1>3, <1>4, <1>5, <1>6 DEF IInv

\* What a round has written is taken from the output and from the chunk.
LEMMA FlushCore ==
    ASSUME IInv, Flush, UNCHANGED <<bcj_vars, stream_vars>>
    PROVE  BufInv' /\ Lzma2TypeOK' /\ CallInv' /\ ChunkInv'
  <1>0. Numbers
    BY NumbersKnown
  <1>1. /\ pc = "flush" /\ lzma2_seq = "lzma_run"
        /\ uncompressed' = uncompressed - (dict_pos - dict_start)
        /\ dict_start' = dict_pos
        /\ UNCHANGED <<input, b_out, out_size, place, write, dict_limit, next_seq,
                       compressed, needs, chunk, lzma, rc_in, rc_pos, rc_limit, temp>>
    BY DEF Flush, IInv, PlaceInv, Round
  <1>2. /\ dict_start <= dict_pos /\ dict_pos - dict_start <= uncompressed
        /\ temp_size <= compressed
    BY <1>1, <1>0 DEF Numbers, IInv, DictInv, RoundInv, Round, TempInv
  <1>3. uncompressed' \in Nat
    BY <1>1, <1>2, <1>0 DEF Numbers
  <1>4. /\ \/ pc' = caller /\ ret' = "XZ_DATA_ERROR"
           \/ /\ pc' = "lzma2" /\ lzma2_seq' = "control"
              /\ uncompressed' = 0 /\ compressed = 0
           \/ lzma2_seq' = "lzma_run" /\ UNCHANGED rc_init
        /\ lzma2_seq' \in {"lzma_run", "control"}
        /\ rc_init' \in {rc_init, RC_INIT_BYTES}
        /\ rc_normal' \in BOOLEAN
    BY <1>1 DEF Flush, Return, Goto, ChunkSound, rc_reset, IInv, Lzma2TypeOK
  <1>5. Lzma2TypeOK'
    BY <1>1, <1>3, <1>4, <1>0 DEF Numbers, IInv, Lzma2TypeOK
  <1>6. /\ in_pos + compressed = InEnd + temp_size
        /\ Written + uncompressed + dict_start = OutEnd + dict_pos
    BY <1>1 DEF IInv, ChunkInv, Live, Lzma2Places, Round
  <1>7. ChunkInv'
    <2>1. /\ caller \in Callers
          /\ UNCHANGED <<in_pos, Written, InEnd, OutEnd, compressed, temp_size, dict_pos>>
      BY <1>1 DEF IInv, CallInv, Written, InEnd, OutEnd
    <2>2. CASE lzma2_seq' = "lzma_run"
      BY <1>0, <1>1, <1>6, <2>1, <2>2 DEF Numbers, ChunkInv
    <2>3. CASE Live' /\ lzma2_seq' = "control"
      <3>1. uncompressed' = 0 /\ compressed = 0 /\ temp_size = 0
        BY <1>0, <1>2, <1>4, <2>1, <2>3 DEF Numbers, Live, Lzma2Places, Round, Callers
      <3>2. in_pos = InEnd /\ Written = OutEnd
        BY <1>0, <1>1, <1>6, <3>1 DEF Numbers
      <3> QED
        BY <2>1, <2>3, <3>2 DEF ChunkInv
    <2> QED
      BY <1>4, <2>2, <2>3 DEF ChunkInv
  <1>8. out_pos + (dict_pos - dict_start) <= out_size /\ out_pos + (dict_pos - dict_start) \in Nat
        /\ out_pos' = out_pos + (dict_pos - dict_start)
        /\ out_pos <= out_pos + (dict_pos - dict_start)
    <2>1. out_pos' = out_pos + (dict_pos - dict_start)
      BY DEF Flush
    <2>2. dict_pos <= dict_limit /\ dict_limit - dict_start <= out_avail
      BY <1>1 DEF IInv, RoundInv, Round
    <2> QED
      BY <1>0, <1>2, <2>1, <2>2 DEF Numbers
  <1>9. BufInv'
    BY <1>1, <1>8 DEF IInv, BufInv
  <1>10. CallInv'
    <2>1. /\ pc' = "lzma2" \/ pc' = caller
          /\ UNCHANGED <<caller, saved_pos, saved_size, bcj_start, in_start, out_start>>
      BY <1>1 DEF Flush, Return, Goto, ChunkSound, rc_reset
    <2>2. CallInv /\ pc \in Lzma2Places
      BY <1>1 DEF IInv, Lzma2Places, Round
    <2>3. OutPos <= OutPos'
      <3>1. b_out' = b_out /\ saved_pos' = saved_pos /\ saved_pos \in Nat
        BY <1>0, <1>1, <2>1 DEF Numbers
      <3> QED
        BY <1>0, <1>8, <3>1 DEF Numbers, OutPos
    <2>4. OutPos \in Nat /\ OutPos' \in Nat
      <3>1. b_out' = b_out /\ saved_pos' = saved_pos /\ saved_pos \in Nat
        BY <1>0, <1>1, <2>1 DEF Numbers
      <3> QED
        BY <1>0, <1>8, <3>1 DEF Numbers, OutPos
    <2>5. out_start <= OutPos'
      BY <1>0, <1>1, <2>2, <2>3, <2>4 DEF Numbers, CallInv
    <2>6. pc = "flush" /\ caller = "bcj_filter" =>
             out_start <= bcj_start /\ bcj_start <= out_pos + (dict_pos - dict_start)
      BY <1>0, <1>2, <1>8, <2>2 DEF Numbers, CallInv, Lzma2Places, Round
    <2> QED
      BY <1>1, <1>8, <2>1, <2>2, <2>5, <2>6 DEF CallInv, Callers, Lzma2Places, Round
  <1> QED
    BY <1>5, <1>7, <1>9, <1>10

LEMMA FlushKeeps ==
    ASSUME IInv, Flush, UNCHANGED <<bcj_vars, stream_vars>>
    PROVE  IInv'
  <1>1. PcInv'
    BY DEF IInv, Flush, PcInv, CallInv, Callers, Return, Goto
  <1>2. BufInv' /\ Lzma2TypeOK' /\ CallInv' /\ ChunkInv'
    BY FlushCore
  <1>3. MemInv' /\ BcjTypeOK' /\ StreamTypeOK'
    BY DEF IInv, Flush, MemInv, OutSize, BcjTypeOK, StreamTypeOK
  <1>4. StreamInv'
    BY DEF IInv, Flush, CallInv, Callers, StreamInv, Over, Ends, Return, Goto
  <1>5. DictInv' /\ PlaceInv' /\ NeedInv' /\ RoundInv'
    BY XzBufAssumption, BcjAssumption, XzDecAssumption, SMTT(30) DEF IInv, Flush, BufInv,
                                                                     Lzma2TypeOK, BcjTypeOK,
                                                                     StreamTypeOK, CallInv,
                                                                     OutPos, OutSize,
                                                                     Callers, Lzma2Places,
                                                                     Round, StreamInv, Over,
                                                                     Ends, DictInv, Written,
                                                                     PlaceInv, NeedInv,
                                                                     ResetComing,
                                                                     PropsKnown, Failed,
                                                                     RoundInv, Return,
                                                                     ChunkSound, rc_reset,
                                                                     Goto, Starved
  <1>6. TempInv' /\ RcInv'
    BY SMTT(30) DEF IInv, Flush, Lzma2TypeOK, CallInv, Callers, TempInv, RcInv, Return,
                    ChunkSound, Goto
  <1> QED
    BY <1>1, <1>2, <1>3, <1>4, <1>5, <1>6 DEF IInv

LEMMA CopyBeginKeeps ==
    ASSUME IInv, CopyBegin, UNCHANGED <<bcj_vars, stream_vars>>
    PROVE  IInv'
  <1>1. PcInv' /\ BufInv'
    BY DEF IInv, CopyBegin, PcInv, BufInv, Goto
  <1>2. MemInv' /\ Lzma2TypeOK' /\ BcjTypeOK' /\ StreamTypeOK'
    BY SMTT(30) DEF IInv, CopyBegin, MemInv, OutSize, Lzma2TypeOK, BcjTypeOK, StreamTypeOK
  <1>3. CallInv' /\ StreamInv'
    BY DEF IInv, CopyBegin, CallInv, OutPos, Callers, Lzma2Places, StreamInv, Over, Ends,
           Runs, Goto, In
  <1>4. DictInv' /\ PlaceInv' /\ NeedInv' /\ RoundInv'
    BY DEF IInv, CopyBegin, DictInv, OutSize, Written, PlaceInv, Round, NeedInv,
           ResetComing, PropsKnown, Failed, Over, Ends, Callers, RoundInv, Runs, Goto, In
  <1>5. TempInv' /\ RcInv' /\ ChunkInv'
    BY DEF IInv, CopyBegin, TempInv, RcInv, ChunkInv, InEnd, OutEnd, Written, Live,
           Lzma2Places, Runs, Goto, In
  <1> QED
    BY <1>1, <1>2, <1>3, <1>4, <1>5 DEF IInv

\* As much is copied as input, output, dictionary and chunk allow.
LEMMA CopySomeCore ==
    ASSUME IInv, CopySome, UNCHANGED <<bcj_vars, stream_vars>>
    PROVE  BufInv' /\ MemInv' /\ Lzma2TypeOK' /\ CallInv' /\ DictInv' /\ NeedInv' /\ ChunkInv'
  <1> DEFINE n == Least(Least(in_avail, out_avail), Least(dict_end - dict_pos, compressed))
  <1>0. Numbers
    BY NumbersKnown
  <1>1. n \in Nat /\ n <= in_avail /\ n <= out_avail /\ n <= dict_end - dict_pos /\ n <= compressed
    <2>1. in_avail \in Nat /\ out_avail \in Nat /\ dict_end - dict_pos \in Nat /\ compressed \in Nat
      BY <1>0 DEF Numbers, IInv, DictInv
    <2>2. /\ Least(in_avail, out_avail) \in Nat
          /\ Least(in_avail, out_avail) <= in_avail /\ Least(in_avail, out_avail) <= out_avail
      BY <2>1, LeastNat
    <2>3. /\ Least(dict_end - dict_pos, compressed) \in Nat
          /\ Least(dict_end - dict_pos, compressed) <= dict_end - dict_pos
          /\ Least(dict_end - dict_pos, compressed) <= compressed
      BY <2>1, LeastNat
    <2>4. n \in Nat /\ n <= Least(in_avail, out_avail) /\ n <= Least(dict_end - dict_pos, compressed)
      BY <2>2, <2>3, LeastNat
    <2> HIDE DEF n
    <2> QED
      BY <2>1, <2>2, <2>3, <2>4
  <1>2. /\ pc = "copy" /\ lzma2_seq = "copy" /\ DictPutNew(n)
        /\ compressed' = compressed - n /\ in_pos' = in_pos + n /\ out_pos' = out_pos + n
        /\ dict_start' = dict_pos'
        /\ UNCHANGED <<in_size, b_out, out_size, ctl, place, dict_limit, lzma2_seq, next_seq,
                       uncompressed, needs, chunk, lzma, rc, rc_init, temp, saved_pos,
                       saved_size, in_start, out_start, bcj_start, sequence>>
    BY DEF CopySome, IInv, PlaceInv
  <1> HIDE DEF n
  <1>3. Put(n)
    BY <1>1, <1>2, PutNew
  <1>4. BufInv'
    BY <1>0, <1>1, <1>2 DEF Numbers, IInv, BufInv
  <1>5. MemInv'
    <2>1. OutSize' = OutSize
      BY <1>2 DEF OutSize
    <2> QED
      BY <1>3, <2>1 DEF IInv, MemInv, Put
  <1>6. Lzma2TypeOK'
    <2>1. compressed' \in Nat /\ dict_pos' \in Nat
      BY <1>0, <1>1, <1>2, <1>3 DEF Numbers, Put
    <2> QED
      BY <1>2, <1>3, <2>1 DEF IInv, Lzma2TypeOK, Put
  <1>7. CallInv'
    BY <1>0, <1>1, <1>2 DEF Numbers, IInv, CallInv, OutPos, Lzma2Places, Round
  <1>8. DictInv'
    <2>1. OutSize' = OutSize
      BY <1>2 DEF OutSize
    <2> QED
      BY <1>0, <1>1, <1>2, <1>3, <2>1, SMTT(20) DEF Numbers, IInv, DictInv, Put
  <1>9. NeedInv'
    <2>1. dict_full <= dict_full' /\ dict_full' \in Nat
      <3>1. dict_full' = dict_pos + n
        BY <1>3 DEF Put
      <3>2. dict_full = dict_pos /\ dict_pos \in Nat
        BY <1>0 DEF Numbers, IInv, DictInv
      <3> QED
        BY <1>1, <3>1, <3>2
    <2>2. rep0 \in Nat /\ dict_full \in Nat
      BY <1>0 DEF Numbers
    <2> QED
      BY <1>2, <2>1, <2>2 DEF IInv, NeedInv, ResetComing, PropsKnown, Failed, Over, Ends, Callers
  <1>10. ChunkInv'
    <2>1. in_pos + compressed = InEnd /\ Written + compressed = OutEnd
      BY <1>2 DEF IInv, ChunkInv, Live, Lzma2Places
    <2>2. InEnd' = InEnd /\ OutEnd' = OutEnd
      BY <1>2 DEF InEnd, OutEnd
    <2>3. in_pos' + compressed' = InEnd
      BY <1>0, <1>1, <1>2, <2>1 DEF Numbers
    <2>4. Written' + compressed' = OutEnd
      BY <1>0, <1>1, <1>2, <1>3, <2>1 DEF Numbers, Put
    <2> QED
      BY <1>2, <2>2, <2>3, <2>4 DEF ChunkInv
  <1> QED
    BY <1>4, <1>5, <1>6, <1>7, <1>8, <1>9, <1>10

LEMMA CopySomeKeeps ==
    ASSUME IInv, CopySome, UNCHANGED <<bcj_vars, stream_vars>>
    PROVE  IInv'
  <1>1. PcInv'
    BY DEF IInv, CopySome, PcInv
  <1>2. BufInv' /\ MemInv' /\ Lzma2TypeOK' /\ CallInv' /\ DictInv' /\ NeedInv' /\ ChunkInv'
    BY CopySomeCore
  <1>3. BcjTypeOK' /\ StreamTypeOK'
    BY DEF IInv, CopySome, BcjTypeOK, StreamTypeOK
  <1>4. StreamInv'
    BY DEF IInv, CopySome, StreamInv
  <1>5. PlaceInv' /\ RoundInv'
    BY DEF IInv, CopySome, PlaceInv, RoundInv
  <1>6. TempInv' /\ RcInv'
    BY DEF IInv, CopySome, PlaceInv, TempInv, RcInv
  <1> QED
    BY <1>1, <1>2, <1>3, <1>4, <1>5, <1>6 DEF IInv

LEMMA CopyEndKeeps ==
    ASSUME IInv, CopyEnd, UNCHANGED <<bcj_vars, stream_vars>>
    PROVE  IInv'
  <1>1. PcInv' /\ BufInv'
    BY DEF IInv, CopyEnd, PcInv, BufInv, CallInv, Callers, Goto, Return
  <1>2. MemInv' /\ Lzma2TypeOK' /\ BcjTypeOK' /\ StreamTypeOK'
    BY SMTT(30) DEF IInv, CopyEnd, MemInv, OutSize, Lzma2TypeOK, BcjTypeOK, StreamTypeOK
  <1>3. CallInv' /\ StreamInv'
    BY DEF IInv, CopyEnd, CallInv, OutPos, Callers, Lzma2Places, StreamInv, Over, Ends,
           Goto, Return
  <1>4. DictInv' /\ PlaceInv' /\ NeedInv' /\ RoundInv'
    BY DEF IInv, CopyEnd, CallInv, OutSize, Callers, Round, Over, Ends, DictInv, Written,
           PlaceInv, NeedInv, ResetComing, PropsKnown, Failed, RoundInv, Goto, Return
  <1>5. TempInv' /\ RcInv' /\ ChunkInv'
    BY DEF IInv, CopyEnd, BufInv, CallInv, Callers, Lzma2Places, PlaceInv, TempInv, RcInv,
           ChunkInv, InEnd, OutEnd, Written, Live, Goto, Return
  <1> QED
    BY <1>1, <1>2, <1>3, <1>4, <1>5 DEF IInv

-----------------------------------------------------------------------------
(* lzma2_lzma and lzma_main.                                               *)

LEMMA TempSkipKeeps ==
    ASSUME IInv, TempSkip, UNCHANGED <<bcj_vars, stream_vars>>
    PROVE  IInv'
  <1>1. PcInv' /\ BufInv'
    BY DEF IInv, TempSkip, PcInv, BufInv, Goto
  <1>2. MemInv' /\ Lzma2TypeOK' /\ BcjTypeOK' /\ StreamTypeOK'
    BY SMTT(30) DEF IInv, TempSkip, MemInv, OutSize, Lzma2TypeOK, BcjTypeOK, StreamTypeOK
  <1>3. CallInv' /\ StreamInv'
    BY DEF IInv, TempSkip, CallInv, OutPos, Callers, Lzma2Places, Round, StreamInv, Over,
           Ends, Goto
  <1>4. DictInv' /\ PlaceInv' /\ NeedInv' /\ RoundInv'
    BY DEF IInv, TempSkip, DictInv, OutSize, Written, PlaceInv, Round, NeedInv, ResetComing,
           PropsKnown, Failed, Over, Ends, Callers, RoundInv, Goto
  <1>5. TempInv' /\ RcInv' /\ ChunkInv'
    BY DEF IInv, TempSkip, TempInv, RcInv, ChunkInv, InEnd, OutEnd, Written, Live,
           Lzma2Places, Round, Goto
  <1> QED
    BY <1>1, <1>2, <1>3, <1>4, <1>5 DEF IInv

\* What is filled into s->temp is of the chunk; lzma_main stops before the filling ends.
LEMMA TempFillCore ==
    ASSUME IInv, TempFill, UNCHANGED <<bcj_vars, stream_vars>>
    PROVE  Lzma2TypeOK' /\ RcInv' /\ ChunkInv'
  <1> DEFINE t == Least(Least(2 * LZMA_IN_REQUIRED - temp_size, compressed - temp_size), in_avail)
             have == temp_size + t
  <1>0. Numbers
    BY NumbersKnown
  <1>1. /\ t \in Nat /\ t <= in_avail
        /\ have \in Nat /\ have <= compressed /\ have <= 2 * LZMA_IN_REQUIRED
        /\ 2 * LZMA_IN_REQUIRED \in Nat
    <2>1. temp_size < LZMA_IN_REQUIRED /\ temp_size <= compressed
      BY DEF TempFill, IInv, PlaceInv, TempInv, Round
    <2>2. 2 * LZMA_IN_REQUIRED - temp_size \in Nat /\ compressed - temp_size \in Nat
          /\ in_avail \in Nat
      BY <1>0, <2>1 DEF Numbers
    <2> DEFINE q == Least(2 * LZMA_IN_REQUIRED - temp_size, compressed - temp_size)
    <2>3. q \in Nat /\ q <= 2 * LZMA_IN_REQUIRED - temp_size /\ q <= compressed - temp_size
      BY <2>2, LeastNat
    <2>4. t \in Nat /\ t <= q /\ t <= in_avail
      <3> HIDE DEF q
      <3>1. Least(q, in_avail) \in Nat /\ Least(q, in_avail) <= q /\ Least(q, in_avail) <= in_avail
        BY <2>2, <2>3, LeastNat
      <3> QED
        BY <3>1 DEF q
    <2> HIDE DEF q
    <2> HIDE DEF t
    <2> QED
      BY <1>0, <2>2, <2>3, <2>4 DEF Numbers
  <1>2. /\ pc = "temp" /\ lzma2_seq = "lzma_run"
        /\ UNCHANGED <<in_size, output, dict, lzma2, lzma, rc_init>>
        /\ rc_normal' = rc_normal
    BY DEF TempFill, IInv, PlaceInv, Round
  <1>3. \/ /\ temp_size' = have /\ in_pos' = in_pos + t /\ pc' = "flush"
           /\ UNCHANGED <<rc, tmp>>
        \/ /\ rc_limit' = IF have = compressed THEN have ELSE have - LZMA_IN_REQUIRED
           /\ have = compressed \/ have >= LZMA_IN_REQUIRED
           /\ rc_in' = "temp" /\ rc_pos' = 0 /\ tmp' = t /\ pc' = "lzma_main"
           /\ UNCHANGED <<in_pos, temp_size>>
    <2> HIDE DEF t
    <2> QED
      BY <1>0, <1>1 DEF TempFill, Goto, t, Numbers
  <1> HIDE DEF t
  <1>4. Lzma2TypeOK'
    BY <1>0, <1>1, <1>2, <1>3, SMTT(20) DEF Numbers, IInv, Lzma2TypeOK
  <1>5. RcInv'
    BY <1>0, <1>1, <1>2, <1>3 DEF Numbers, IInv, RcInv
  <1>6. ChunkInv'
    <2>1. /\ in_pos + compressed = InEnd + temp_size
          /\ Written + uncompressed + dict_start = OutEnd + dict_pos
      BY <1>2 DEF IInv, ChunkInv, Live, Lzma2Places, Round
    <2>2. UNCHANGED <<InEnd, OutEnd, Written, compressed, uncompressed, dict_start, dict_pos,
                      lzma2_seq>>
      BY <1>2 DEF InEnd, OutEnd, Written
    <2>3. in_pos' + compressed = InEnd + temp_size'
      BY <1>0, <1>1, <1>3, <2>1 DEF Numbers
    <2> QED
      BY <1>2, <2>1, <2>2, <2>3 DEF ChunkInv
  <1> QED
    BY <1>4, <1>5, <1>6

LEMMA TempFillKeeps ==
    ASSUME IInv, TempFill, UNCHANGED <<bcj_vars, stream_vars>>
    PROVE  IInv'
  <1>1. PcInv' /\ BufInv'
    BY Lzma2Assumption, SMTT(30) DEF IInv, TempFill, PcInv, BufInv, Lzma2TypeOK, Least, Goto
  <1>2. MemInv' /\ BcjTypeOK' /\ StreamTypeOK'
    BY DEF IInv, TempFill, MemInv, OutSize, BcjTypeOK, StreamTypeOK
  <1>3. Lzma2TypeOK' /\ RcInv' /\ ChunkInv'
    BY TempFillCore
  <1>4. CallInv' /\ StreamInv'
    BY XzBufAssumption, Lzma2Assumption, BcjAssumption, XzDecAssumption, SMTT(30) DEF IInv,
                                                                                      TempFill,
                                                                                      BufInv,
                                                                                      Lzma2TypeOK,
                                                                                      BcjTypeOK,
                                                                                      StreamTypeOK,
                                                                                      CallInv,
                                                                                      OutPos,
                                                                                      OutSize,
                                                                                      Callers,
                                                                                      Lzma2Places,
                                                                                      Round,
                                                                                      StreamInv,
                                                                                      Over,
                                                                                      Ends,
                                                                                      PlaceInv,
                                                                                      Least,
                                                                                      Goto
  <1>5. DictInv' /\ PlaceInv' /\ NeedInv' /\ RoundInv'
    BY DEF IInv, TempFill, DictInv, OutSize, Written, PlaceInv, Round, NeedInv, ResetComing,
           PropsKnown, Failed, Over, Ends, Callers, RoundInv, Goto
  <1>6. TempInv'
    BY XzBufAssumption, Lzma2Assumption, BcjAssumption, XzDecAssumption, SMTT(30) DEF IInv,
                                                                                      TempFill,
                                                                                      PcInv,
                                                                                      BufInv,
                                                                                      Lzma2TypeOK,
                                                                                      BcjTypeOK,
                                                                                      StreamTypeOK,
                                                                                      CallInv,
                                                                                      OutPos,
                                                                                      OutSize,
                                                                                      Callers,
                                                                                      Lzma2Places,
                                                                                      StreamInv,
                                                                                      Over,
                                                                                      Ends,
                                                                                      TempInv,
                                                                                      Least,
                                                                                      Goto
  <1> QED
    BY <1>1, <1>2, <1>3, <1>4, <1>5, <1>6 DEF IInv

\* lzma_main stops LZMA_IN_REQUIRED bytes before the end of the input or of the chunk.
LEMMA DirectCore ==
    ASSUME IInv, Direct, UNCHANGED <<bcj_vars, stream_vars>>
    PROVE  RcInv'
  <1>0. Numbers
    BY NumbersKnown
  <1>1. /\ pc = "direct" /\ UNCHANGED <<in_pos, in_size, temp_size, compressed, tmp>>
        /\ temp_size = 0
    BY DEF Direct, IInv, TempInv
  <1>2. CASE in_avail >= LZMA_IN_REQUIRED
    <2>1. /\ rc_in' = "in" /\ rc_pos' = in_pos /\ rc_limit' = DirectLimit
      BY <1>2 DEF Direct
    <2>2. DirectLimit <= in_size - LZMA_IN_REQUIRED
      BY <1>0, <1>2 DEF Numbers, DirectLimit
    <2> QED
      BY <1>0, <1>1, <1>2, <2>1, <2>2 DEF Numbers, RcInv
  <1>3. CASE ~(in_avail >= LZMA_IN_REQUIRED)
    <2>1. pc' = "save" /\ UNCHANGED <<rc_in, rc_pos, rc_limit>>
      BY <1>3 DEF Direct, Goto
    <2> QED
      BY <1>1, <2>1 DEF IInv, RcInv
  <1> QED
    BY <1>2, <1>3

LEMMA DirectKeeps ==
    ASSUME IInv, Direct, UNCHANGED <<bcj_vars, stream_vars>>
    PROVE  IInv'
  <1>1. PcInv' /\ BufInv'
    BY DEF IInv, Direct, PcInv, BufInv, Goto
  <1>2. MemInv' /\ Lzma2TypeOK' /\ BcjTypeOK' /\ StreamTypeOK'
    BY XzBufAssumption, Lzma2Assumption, BcjAssumption, XzDecAssumption, SMTT(30) DEF IInv,
                                                                                      Direct,
                                                                                      PcInv,
                                                                                      BufInv,
                                                                                      MemInv,
                                                                                      OutSize,
                                                                                      Lzma2TypeOK,
                                                                                      BcjTypeOK,
                                                                                      StreamTypeOK,
                                                                                      CallInv,
                                                                                      OutPos,
                                                                                      Callers,
                                                                                      Lzma2Places,
                                                                                      Round,
                                                                                      StreamInv,
                                                                                      Over,
                                                                                      Ends,
                                                                                      PlaceInv,
                                                                                      DirectLimit,
                                                                                      Goto
  <1>3. CallInv' /\ StreamInv'
    BY DEF IInv, Direct, CallInv, OutPos, Callers, Lzma2Places, Round, StreamInv, Over,
           Ends, Goto
  <1>4. DictInv' /\ PlaceInv' /\ NeedInv' /\ RoundInv'
    BY DEF IInv, Direct, DictInv, OutSize, Written, PlaceInv, Round, NeedInv, ResetComing,
           PropsKnown, Failed, Over, Ends, Callers, RoundInv, Goto
  <1>5. TempInv' /\ ChunkInv'
    BY DEF IInv, Direct, TempInv, ChunkInv, InEnd, OutEnd, Written, Live, Lzma2Places, Round
  <1>6. RcInv'
    BY DirectCore
  <1> QED
    BY <1>1, <1>2, <1>3, <1>4, <1>5, <1>6 DEF IInv

\* What is left of the input goes to s->temp.
LEMMA SaveCore ==
    ASSUME IInv, Save, UNCHANGED <<bcj_vars, stream_vars>>
    PROVE  ChunkInv'
  <1>0. Numbers
    BY NumbersKnown
  <1>1. /\ pc = "save" /\ lzma2_seq = "lzma_run" /\ temp_size = 0
        /\ UNCHANGED <<dict, lzma2>>
    BY DEF Save, IInv, PlaceInv, TempInv, Round
  <1>2. /\ in_pos + compressed = InEnd
        /\ Written + uncompressed + dict_start = OutEnd + dict_pos
    BY <1>0, <1>1 DEF Numbers, IInv, ChunkInv, Live, Lzma2Places, Round
  <1>3. UNCHANGED <<InEnd, OutEnd, Written, compressed, uncompressed, dict_start, dict_pos,
                    lzma2_seq>>
    BY <1>1 DEF InEnd, OutEnd, Written
  <1>4. in_pos' + compressed = InEnd + temp_size'
    <2>1. in_avail \in Nat /\ compressed \in Nat
      BY <1>0 DEF Numbers
    <2>2. Least(in_avail, compressed) \in Nat
      BY <2>1, LeastNat
    <2>3. \/ temp_size' \in Nat /\ in_pos' = in_pos + temp_size'
          \/ temp_size' = 0 /\ in_pos' = in_pos
      BY <1>1, <2>2 DEF Save
    <2> QED
      BY <1>0, <1>2, <2>3 DEF Numbers
  <1> QED
    BY <1>1, <1>2, <1>3, <1>4 DEF ChunkInv

LEMMA SaveKeeps ==
    ASSUME IInv, Save, UNCHANGED <<bcj_vars, stream_vars>>
    PROVE  IInv'
  <1>1. PcInv' /\ BufInv'
    BY SMTT(30) DEF IInv, Save, PcInv, BufInv, Lzma2TypeOK, Least, Goto
  <1>2. MemInv' /\ Lzma2TypeOK' /\ BcjTypeOK' /\ StreamTypeOK'
    BY XzBufAssumption, Lzma2Assumption, BcjAssumption, XzDecAssumption, SMTT(30) DEF IInv,
                                                                                      Save,
                                                                                      PcInv,
                                                                                      BufInv,
                                                                                      MemInv,
                                                                                      OutSize,
                                                                                      Lzma2TypeOK,
                                                                                      BcjTypeOK,
                                                                                      StreamTypeOK,
                                                                                      CallInv,
                                                                                      OutPos,
                                                                                      Callers,
                                                                                      Lzma2Places,
                                                                                      Round,
                                                                                      StreamInv,
                                                                                      Over,
                                                                                      Ends,
                                                                                      PlaceInv,
                                                                                      Least,
                                                                                      Goto
  <1>3. CallInv' /\ StreamInv'
    BY Lzma2Assumption, SMTT(30) DEF IInv, Save, BufInv, Lzma2TypeOK, StreamTypeOK, CallInv,
                                     OutPos, Callers, Lzma2Places, Round, StreamInv, Over,
                                     Ends, Least, Goto
  <1>4. DictInv' /\ PlaceInv' /\ NeedInv' /\ RoundInv'
    BY DEF IInv, Save, DictInv, OutSize, Written, PlaceInv, Round, NeedInv, ResetComing,
           PropsKnown, Failed, Over, Ends, Callers, RoundInv, Goto
  <1>5. TempInv' /\ RcInv'
    BY Lzma2Assumption DEF IInv, Save, BufInv, Lzma2TypeOK, Round, PlaceInv, TempInv, RcInv,
                           Least, Goto
  <1>6. ChunkInv'
    BY SaveCore
  <1> QED
    BY <1>1, <1>2, <1>3, <1>4, <1>5, <1>6 DEF IInv

\* What a symbol, or the rest of a match, leaves of the invariant.
LEMMA PutKeeps ==
    ASSUME IInv, pc \in {"lzma_main", "symbols"}, NEW n \in Nat, Put(n),
           n <= dict_limit - dict_pos,
           rep0' \in Nat, len' \in Nat, rep0' = 0 \/ rep0' < dict_full',
           UNCHANGED <<b, place, dict_start, dict_limit, lzma2, rc_in, rc_limit, rc_init, temp,
                       bcj_vars, stream_vars>>,
           rc_pos' \in Nat, rc_normal' \in BOOLEAN
    PROVE  MemInv' /\ Lzma2TypeOK' /\ DictInv' /\ NeedInv' /\ (pc' \in Round => RoundInv' /\ ChunkInv')
  <1>0. Numbers
    BY NumbersKnown
  <1>1. OutSize' = OutSize /\ InEnd' = InEnd /\ OutEnd' = OutEnd
    BY DEF OutSize, InEnd, OutEnd
  <1>2. /\ dict_pos' = dict_pos + n /\ dict_full' = dict_pos' /\ Written' = Written + n
        /\ plain' \in Seq(Nat) /\ dict_pos' \in Nat
    BY <1>0 DEF Put, Numbers
  <1>3. /\ dict_pos <= dict_limit /\ dict_limit <= dict_end /\ lzma2_seq = "lzma_run"
        /\ dict_limit - dict_start <= out_avail /\ dict_limit - dict_start <= uncompressed
    BY DEF IInv, RoundInv, PlaceInv, Round
  <1>4. MemInv'
    BY <1>1 DEF IInv, MemInv, Put
  <1>5. Lzma2TypeOK'
    BY <1>2 DEF IInv, Lzma2TypeOK
  <1>6. DictInv'
    BY <1>0, <1>1, <1>2, <1>3 DEF Numbers, IInv, DictInv
  <1>7. NeedInv'
    BY <1>3 DEF IInv, NeedInv, ResetComing, PropsKnown
  <1>8. ASSUME pc' \in Round PROVE RoundInv'
    BY <1>0, <1>2, <1>3, <1>8 DEF Numbers, RoundInv
  <1>9. ASSUME pc' \in Round PROVE ChunkInv'
    <2>1. /\ in_pos + compressed = InEnd + temp_size
          /\ Written + uncompressed + dict_start = OutEnd + dict_pos
      BY <1>3 DEF IInv, ChunkInv, Live, Lzma2Places, Round
    <2>2. Written' + uncompressed + dict_start = OutEnd + dict_pos'
      BY <1>0, <1>2, <2>1 DEF Numbers
    <2> QED
      BY <1>1, <1>3, <2>1, <2>2 DEF ChunkInv
  <1> QED
    BY <1>4, <1>5, <1>6, <1>7, <1>8, <1>9

\* The rest of a match is written, up to the limit of the round.
LEMMA PendingCore ==
    ASSUME IInv, Pending, UNCHANGED <<bcj_vars, stream_vars>>
    PROVE  MemInv' /\ Lzma2TypeOK' /\ DictInv' /\ NeedInv' /\ RoundInv' /\ ChunkInv'
  <1>0. Numbers
    BY NumbersKnown
  <1>1. /\ pc = "lzma_main" /\ pc' = "symbols" /\ lzma2_seq = "lzma_run"
        /\ UNCHANGED <<b, place, dict_start, dict_limit, lzma2, rep0, rc, rc_init, temp>>
        /\ dict_pos <= dict_limit
    BY DEF Pending, Goto, IInv, PlaceInv, RoundInv, Round
  <1>2. rc_pos' \in Nat /\ rc_normal' \in BOOLEAN /\ rep0' \in Nat
    BY <1>1 DEF IInv, Lzma2TypeOK
  <1>3. CASE Repeat(rep0, len) /\ DistanceOk(rep0)
    <2>1. PICK left \in Nat : Put(left) /\ left <= dict_limit - dict_pos /\ len' \in Nat
      BY <1>0, <1>1, <1>3, RepeatKnown DEF Numbers, DistanceOk
    <2>2. rep0' < dict_full'
      BY <1>0, <1>1, <1>3, <2>1 DEF Numbers, DistanceOk, Put, IInv, DictInv
    <2> QED
      BY <1>1, <1>2, <2>1, <2>2, PutKeeps DEF Round
  <1>4. CASE UNCHANGED <<write, len>>
    <2>1. UNCHANGED <<OutSize, Written, InEnd, OutEnd>>
      BY <1>1, <1>4 DEF OutSize, Written, InEnd, OutEnd
    <2>2. MemInv' /\ Lzma2TypeOK' /\ DictInv'
      BY <1>1, <1>4, <2>1 DEF IInv, MemInv, Lzma2TypeOK, DictInv
    <2>3. NeedInv' /\ RoundInv' /\ ChunkInv'
      BY <1>1, <1>4, <2>1 DEF IInv, NeedInv, ResetComing, PropsKnown, Failed, Over, Ends, Callers,
                              RoundInv, Round, ChunkInv, Live, Lzma2Places
    <2> QED
      BY <2>2, <2>3
  <1> QED
    BY <1>3, <1>4 DEF Pending

LEMMA PendingKeeps ==
    ASSUME IInv, Pending, UNCHANGED <<bcj_vars, stream_vars>>
    PROVE  IInv'
  <1>1. PcInv' /\ BufInv'
    BY DEF IInv, Pending, PcInv, BufInv, Goto
  <1>2. MemInv' /\ Lzma2TypeOK' /\ DictInv' /\ NeedInv' /\ RoundInv' /\ ChunkInv'
    BY PendingCore
  <1>3. BcjTypeOK' /\ StreamTypeOK'
    BY DEF IInv, Pending, BcjTypeOK, StreamTypeOK
  <1>4. CallInv' /\ StreamInv'
    BY DEF IInv, Pending, CallInv, OutPos, Callers, Lzma2Places, Round, StreamInv, Over,
           Ends, Goto
  <1>5. PlaceInv'
    BY DEF IInv, Pending, PlaceInv, Round, Goto
  <1>6. TempInv' /\ RcInv'
    BY DEF IInv, Pending, TempInv, RcInv, Goto
  <1> QED
    BY <1>1, <1>2, <1>3, <1>4, <1>5, <1>6 DEF IInv

\* The range decoder after a symbol.
LEMMA SymbolCore ==
    ASSUME IInv, Symbol, UNCHANGED stream_vars
    PROVE  RcInv' /\ rc_pos' \in Nat
  <1>0. Numbers
    BY NumbersKnown
  <1>1. PICK n \in 0..(LZMA_IN_REQUIRED - 1) : rc_pos' = rc_pos + n
    BY DEF Symbol
  <1>2. /\ pc = "symbols" /\ rc_pos <= rc_limit
        /\ UNCHANGED <<b, rc_in, rc_limit, compressed, temp>>
    BY DEF Symbol, MoreSymbols
  <1>3. n \in Nat /\ n < LZMA_IN_REQUIRED
    BY <1>0 DEF Numbers
  <1>4. CASE rc_in = "temp"
    <2>1. /\ tmp <= in_avail /\ temp_size + tmp <= compressed
          /\ rc_limit <= 2 * LZMA_IN_REQUIRED
      BY <1>2, <1>4 DEF IInv, RcInv
    <2>2. rc_pos' \in Nat /\ rc_pos' < 3 * LZMA_IN_REQUIRED
      BY <1>0, <1>1, <1>2, <1>3, <2>1 DEF Numbers
    <2> QED
      BY <1>0, <1>2, <1>4, <2>1, <2>2 DEF Numbers, RcInv
  <1>5. CASE rc_in = "in"
    <2>1. /\ rc_limit <= in_size - LZMA_IN_REQUIRED /\ in_pos <= rc_pos
          /\ temp_size = 0
      BY <1>2, <1>5 DEF IInv, RcInv
    <2>2. rc_pos' \in Nat /\ rc_pos' < in_size /\ in_pos <= rc_pos'
      BY <1>0, <1>1, <1>2, <1>3, <2>1 DEF Numbers
    <2> QED
      BY <1>0, <1>2, <1>5, <2>1, <2>2 DEF Numbers, RcInv
  <1> QED
    BY <1>4, <1>5 DEF IInv, Lzma2TypeOK

\* A literal writes a byte.
LEMMA LiteralCore ==
    ASSUME IInv, Literal, UNCHANGED <<bcj_vars, stream_vars>>
    PROVE  MemInv' /\ Lzma2TypeOK' /\ DictInv' /\ NeedInv' /\ RoundInv' /\ RcInv' /\ ChunkInv'
  <1>0. Numbers
    BY NumbersKnown
  <1>1. /\ pc = "symbols" /\ pc' = "symbols" /\ dict_pos < dict_limit
        /\ UNCHANGED <<b, place, dict_start, dict_limit, lzma2, rc_in, rc_limit, rc_init, temp,
                       ctl, lzma>>
        /\ DictPutNew(1) /\ rc_normal' = FALSE
    BY DEF Literal, Symbol, MoreSymbols, dict_has_space
  <1>2. Put(1) /\ 1 <= dict_limit - dict_pos
    BY <1>0, <1>1, PutNew DEF Numbers
  <1>3. RcInv' /\ rc_pos' \in Nat
    BY SymbolCore DEF Literal
  <1>4. rep0' \in Nat /\ len' \in Nat /\ (rep0' = 0 \/ rep0' < dict_full')
    <2>1. lzma2_seq = "lzma_run"
      BY <1>1 DEF IInv, PlaceInv, Round
    <2>2. rep0 = 0 \/ rep0 < dict_full
      BY <1>1, <2>1 DEF IInv, NeedInv, PropsKnown, ResetComing, Failed, Over, Ends, Callers
    <2> QED
      BY <1>0, <1>1, <1>2, <2>2 DEF Numbers, Put, IInv, DictInv
  <1> QED
    BY <1>1, <1>2, <1>3, <1>4, PutKeeps DEF Round

LEMMA LiteralKeeps ==
    ASSUME IInv, Literal, UNCHANGED <<bcj_vars, stream_vars>>
    PROVE  IInv'
  <1>1. PcInv' /\ BufInv'
    BY DEF IInv, Literal, PcInv, BufInv, Symbol
  <1>2. MemInv' /\ Lzma2TypeOK' /\ DictInv' /\ NeedInv' /\ RoundInv' /\ RcInv' /\ ChunkInv'
    BY LiteralCore
  <1>3. BcjTypeOK' /\ StreamTypeOK'
    BY DEF IInv, Literal, BcjTypeOK, StreamTypeOK
  <1>4. CallInv' /\ StreamInv'
    BY DEF IInv, Literal, CallInv, OutPos, StreamInv, Symbol
  <1>5. PlaceInv'
    BY DEF IInv, Literal, PlaceInv, Symbol
  <1>6. TempInv'
    BY DEF IInv, Literal, TempInv, Symbol
  <1> QED
    BY <1>1, <1>2, <1>3, <1>4, <1>5, <1>6 DEF IInv

\* A match writes up to the limit of the round, or fails at its distance.
LEMMA MatchCore ==
    ASSUME IInv, Match, UNCHANGED <<bcj_vars, stream_vars>>
    PROVE  /\ MemInv' /\ Lzma2TypeOK' /\ DictInv' /\ PlaceInv' /\ NeedInv' /\ RoundInv'
           /\ TempInv' /\ RcInv' /\ ChunkInv'
  <1>0. Numbers
    BY NumbersKnown
  <1>1. /\ pc = "symbols" /\ lzma2_seq = "lzma_run" /\ dict_pos < dict_limit
        /\ UNCHANGED <<b, place, dict_start, dict_limit, lzma2, rc_in, rc_limit, rc_init, temp>>
        /\ rc_normal' = FALSE
    BY DEF Match, Symbol, MoreSymbols, dict_has_space, IInv, PlaceInv, Round
  <1>2. RcInv' /\ rc_pos' \in Nat
    BY SymbolCore DEF Match
  <1>3. PICK dist \in Distances, n \in Lengths :
            /\ rep0' = dist
            /\ IF DistanceOk(dist)
               THEN Repeat(dist, n) /\ UNCHANGED ctl
               ELSE len' = n /\ Return("XZ_DATA_ERROR") /\ UNCHANGED write
    BY DEF Match
  <1>4. dist \in Nat /\ n \in Nat
    BY Lzma2Assumption
  <1>5. PlaceInv' /\ TempInv'
    <2>1. caller \in Callers /\ (pc' = "symbols" \/ pc' = caller)
      BY <1>1, <1>3 DEF Return, IInv, CallInv
    <2> QED
      BY <1>1, <2>1 DEF IInv, PlaceInv, TempInv, Callers
  <1>6. CASE DistanceOk(dist)
    <2>1. PICK left \in Nat : Put(left) /\ left <= dict_limit - dict_pos /\ len' \in Nat
      BY <1>0, <1>1, <1>3, <1>4, <1>6, RepeatKnown DEF Numbers, DistanceOk
    <2>2. rep0' < dict_full' /\ rep0' \in Nat
      BY <1>0, <1>3, <1>4, <1>6, <2>1 DEF Numbers, DistanceOk, Put, IInv, DictInv
    <2>3. pc' = "symbols"
      BY <1>1, <1>3, <1>6
    <2> QED
      BY <1>1, <1>2, <1>5, <2>1, <2>2, <2>3, PutKeeps DEF Round
  <1>7. CASE ~DistanceOk(dist)
    <2>1. /\ pc' = caller /\ ret' = "XZ_DATA_ERROR" /\ caller \in Callers
          /\ rep0' \in Nat /\ len' \in Nat /\ UNCHANGED write
      BY <1>3, <1>4, <1>7 DEF Return, IInv, CallInv
    <2>2. UNCHANGED <<OutSize, Written>>
      BY <1>1, <2>1 DEF OutSize, Written
    <2>3. MemInv' /\ Lzma2TypeOK' /\ DictInv'
      BY <1>1, <1>2, <2>1, <2>2 DEF IInv, MemInv, Lzma2TypeOK, DictInv
    <2>4. Failed' /\ ~Live' /\ pc' \notin Round
      BY <2>1 DEF Failed, Live, Lzma2Places, Round, Callers
    <2>5. NeedInv' /\ RoundInv' /\ ChunkInv'
      BY <1>1, <2>4 DEF IInv, NeedInv, ResetComing, PropsKnown, RoundInv, ChunkInv
    <2> QED
      BY <1>2, <1>5, <2>3, <2>5
  <1> QED
    BY <1>6, <1>7

LEMMA MatchKeeps ==
    ASSUME IInv, Match, UNCHANGED <<bcj_vars, stream_vars>>
    PROVE  IInv'
  <1>1. PcInv' /\ BufInv'
    BY DEF IInv, Match, PcInv, BufInv, CallInv, Callers, Symbol, Return
  <1>2. /\ MemInv' /\ Lzma2TypeOK' /\ DictInv' /\ PlaceInv' /\ NeedInv'
        /\ RoundInv' /\ TempInv' /\ RcInv' /\ ChunkInv'
    BY MatchCore
  <1>3. BcjTypeOK' /\ StreamTypeOK'
    BY DEF IInv, Match, BcjTypeOK, StreamTypeOK
  <1>4. CallInv' /\ StreamInv'
    BY DEF IInv, Match, CallInv, OutPos, Callers, Lzma2Places, Round, StreamInv, Over, Ends,
           Symbol, Return
  <1> QED
    BY <1>1, <1>2, <1>3, <1>4 DEF IInv

\* What lzma_main has read is taken from s->temp, the input and the chunk.
LEMMA MainEndCore ==
    ASSUME IInv, MainEnd, UNCHANGED <<bcj_vars, stream_vars>>
    PROVE  BufInv' /\ Lzma2TypeOK' /\ CallInv' /\ TempInv' /\ ChunkInv'
  <1>0. Numbers
    BY NumbersKnown
  <1>1. /\ pc = "symbols" /\ lzma2_seq = "lzma_run"
        /\ UNCHANGED <<in_size, output, dict, uncompressed, lzma2_seq, next_seq, needs,
                       chunk, lzma, rc_in, rc_limit, rc_init, tmp, caller>>
        /\ rc_normal' = TRUE /\ caller \in Callers
        /\ temp_size < LZMA_IN_REQUIRED /\ temp_size <= compressed
        /\ rc_in = "temp" => tmp <= in_avail /\ temp_size + tmp <= compressed
        /\ rc_in = "in" => in_pos <= rc_pos /\ rc_pos < in_size /\ temp_size = 0
        /\ rc_in \in {"in", "temp"}
    BY DEF MainEnd, Return, Goto, IInv, PlaceInv, Round, CallInv, TempInv, RcInv, Lzma2TypeOK
  <1>2. PICK n \in {0, 1} :
            /\ rc_pos' = rc_pos + n
            /\ LET used == IF rc_in = "temp" THEN rc_pos' ELSE rc_pos' - in_pos
                   have == IF rc_in = "temp" THEN temp_size + tmp ELSE compressed
               IN  \/ /\ used > have
                      /\ Return("XZ_DATA_ERROR")
                      /\ UNCHANGED <<in_pos, compressed, temp_size>>
                   \/ /\ used <= have
                      /\ compressed' = compressed - used
                      /\ IF rc_in = "temp" /\ used < temp_size
                         THEN /\ temp_size' = temp_size - used
                              /\ Goto("flush")
                              /\ UNCHANGED in_pos
                         ELSE /\ in_pos' = in_pos + used
                                           - (IF rc_in = "temp" THEN temp_size ELSE 0)
                              /\ temp_size' = 0
                              /\ Goto(IF rc_in = "temp" THEN "direct" ELSE "save")
    BY DEF MainEnd
  <1> DEFINE u == rc_pos + n
  <1>3. rc_pos' = u /\ u \in Nat
    BY <1>0, <1>2 DEF Numbers
  <1>4. /\ in_pos' \in Nat /\ in_pos <= in_pos' /\ in_pos' <= in_size /\ compressed' \in Nat /\ temp_size' \in Nat
        /\ temp_size' <= temp_size /\ temp_size' <= compressed'
        /\ \/ pc' = caller /\ ret' = "XZ_DATA_ERROR"
           \/ /\ pc' \in {"flush", "direct", "save"}
              /\ pc' \in {"direct", "save"} => temp_size' = 0
              /\ in_pos + compressed = InEnd + temp_size =>
                    in_pos' + compressed' = InEnd + temp_size'
    <2>0. /\ in_pos \in Nat /\ compressed \in Nat /\ temp_size \in Nat /\ tmp \in Nat
          /\ InEnd \in Nat /\ temp_size <= compressed /\ in_size \in Nat /\ in_pos <= in_size
      BY <1>0, <1>1 DEF Numbers
    <2>1. CASE rc_in = "temp"
      <3>0. temp_size + tmp <= compressed /\ tmp <= in_size - in_pos
        BY <1>1, <2>1
      <3>1. CASE ~(u <= temp_size + tmp)
        <4>1. UNCHANGED <<in_pos, compressed, temp_size>> /\ Return("XZ_DATA_ERROR")
          BY <1>2, <1>3, <2>1, <3>1
        <4> QED
          BY <2>0, <4>1 DEF Return
      <3>2. CASE u <= temp_size + tmp /\ u < temp_size
        <4>1. /\ compressed' = compressed - u /\ temp_size' = temp_size - u
              /\ in_pos' = in_pos /\ pc' = "flush"
          BY <1>2, <1>3, <2>0, <2>1, <3>2 DEF Goto
        <4>2. /\ compressed - u \in Nat /\ temp_size - u \in Nat
              /\ temp_size - u <= temp_size /\ temp_size - u <= compressed - u
              /\ in_pos + compressed = InEnd + temp_size =>
                    in_pos + (compressed - u) = InEnd + (temp_size - u)
          BY <1>3, <2>0, <3>2
        <4> HIDE DEF u
        <4> QED
          BY <2>0, <4>1, <4>2
      <3>3. CASE u <= temp_size + tmp /\ ~(u < temp_size)
        <4>1. /\ compressed' = compressed - u /\ temp_size' = 0
              /\ in_pos' = in_pos + u - temp_size /\ pc' = "direct"
          BY <1>2, <1>3, <2>0, <2>1, <3>3 DEF Goto
        <4>2. /\ compressed - u \in Nat /\ 0 <= temp_size /\ 0 <= compressed - u
              /\ in_pos + u - temp_size \in Nat /\ in_pos <= in_pos + u - temp_size
              /\ in_pos + u - temp_size <= in_size
          BY <1>3, <2>0, <3>0, <3>3
        <4>3. in_pos + compressed = InEnd + temp_size =>
                 in_pos + u - temp_size + (compressed - u) = InEnd + 0
          BY <1>3, <2>0, <3>3
        <4> HIDE DEF u
        <4> QED
          BY <2>0, <4>1, <4>2, <4>3
      <3> QED
        BY <3>1, <3>2, <3>3
    <2>2. CASE rc_in = "in"
      <3>0. in_pos <= u /\ temp_size = 0 /\ u <= in_size
        BY <1>0, <1>1, <2>2 DEF Numbers
      <3>1. CASE ~(u - in_pos <= compressed)
        <4>1. UNCHANGED <<in_pos, compressed, temp_size>> /\ Return("XZ_DATA_ERROR")
          BY <1>2, <1>3, <2>2, <3>1
        <4> QED
          BY <2>0, <4>1 DEF Return
      <3>2. CASE u - in_pos <= compressed
        <4>1. /\ compressed' = compressed - (u - in_pos) /\ temp_size' = 0
              /\ in_pos' = in_pos + (u - in_pos) - 0 /\ pc' = "save"
          BY <1>2, <1>3, <2>0, <2>2, <3>0, <3>2 DEF Goto
        <4>2. /\ compressed - (u - in_pos) \in Nat /\ 0 <= compressed - (u - in_pos)
              /\ in_pos + (u - in_pos) - 0 \in Nat /\ in_pos <= in_pos + (u - in_pos) - 0
              /\ in_pos + (u - in_pos) - 0 <= in_size
              /\ in_pos + compressed = InEnd + temp_size =>
                    in_pos + (u - in_pos) - 0 + (compressed - (u - in_pos)) = InEnd + 0
          BY <1>3, <2>0, <3>0, <3>2
        <4> HIDE DEF u
        <4> QED
          BY <2>0, <3>0, <4>1, <4>2
      <3> QED
        BY <3>1, <3>2
    <2> QED
      BY <1>1, <2>1, <2>2
  <1> HIDE DEF u
  <1>5. Lzma2TypeOK'
    BY <1>1, <1>3, <1>4 DEF IInv, Lzma2TypeOK
  <1>6. CallInv'
    <2>1. CallInv /\ pc \in Lzma2Places /\ (pc' \in Lzma2Places \/ pc' = caller) /\ OutPos' = OutPos
      BY <1>1, <1>4 DEF IInv, Lzma2Places, Round, OutPos
    <2> QED
      BY <1>0, <1>1, <1>4, <2>1 DEF Numbers, CallInv, Callers, Lzma2Places, Round
  <1>7. TempInv'
    BY <1>0, <1>1, <1>4 DEF Numbers, TempInv, Callers
  <1>8. ChunkInv'
    <2>1. /\ in_pos + compressed = InEnd + temp_size
          /\ Written + uncompressed + dict_start = OutEnd + dict_pos
      BY <1>1 DEF IInv, ChunkInv, Live, Lzma2Places, Round
    <2>2. UNCHANGED <<InEnd, OutEnd, Written, uncompressed, dict_start, dict_pos, lzma2_seq>>
      BY <1>1 DEF InEnd, OutEnd, Written
    <2>3. CASE pc' = caller /\ ret' = "XZ_DATA_ERROR"
      BY <1>1, <2>3 DEF ChunkInv, Live, Callers, Lzma2Places, Round
    <2>4. CASE in_pos' + compressed' = InEnd + temp_size'
      BY <1>1, <2>1, <2>2, <2>4 DEF ChunkInv
    <2> QED
      BY <1>4, <2>1, <2>3, <2>4
  <1>9. BufInv'
    BY <1>1, <1>4 DEF IInv, BufInv
  <1> QED
    BY <1>5, <1>6, <1>7, <1>8, <1>9

LEMMA MainEndKeeps ==
    ASSUME IInv, MainEnd, UNCHANGED <<bcj_vars, stream_vars>>
    PROVE  IInv'
  <1>1. PcInv'
    BY DEF IInv, MainEnd, PcInv, CallInv, Callers, Return, Goto
  <1>2. BufInv' /\ Lzma2TypeOK' /\ CallInv' /\ TempInv' /\ ChunkInv'
    BY MainEndCore
  <1>3. MemInv' /\ BcjTypeOK' /\ StreamTypeOK'
    BY DEF IInv, MainEnd, MemInv, OutSize, BcjTypeOK, StreamTypeOK
  <1>4. StreamInv'
    BY DEF IInv, MainEnd, CallInv, Callers, StreamInv, Over, Ends, Return, Goto
  <1>5. DictInv' /\ PlaceInv' /\ NeedInv' /\ RoundInv'
    BY DEF IInv, MainEnd, CallInv, OutSize, Callers, Round, Over, Ends, DictInv, Written,
           PlaceInv, NeedInv, ResetComing, PropsKnown, Failed, RoundInv, Return, Goto
  <1>6. RcInv'
    BY Lzma2Assumption, SMTT(30) DEF IInv, MainEnd, BufInv, Lzma2TypeOK, CallInv, Callers,
                                     RcInv, Return, Goto
  <1> QED
    BY <1>1, <1>2, <1>3, <1>4, <1>5, <1>6 DEF IInv

-----------------------------------------------------------------------------
(* xz_dec_bcj_run.                                                         *)

LEMMA BcjOutKeeps ==
    ASSUME IInv, BcjOut, UNCHANGED stream_vars
    PROVE  IInv'
  <1>1. PcInv' /\ BufInv'
    BY DEF IInv, BcjOut, PcInv, BufInv
  <1>2. MemInv' /\ Lzma2TypeOK' /\ BcjTypeOK' /\ StreamTypeOK'
    BY SMTT(30) DEF IInv, BcjOut, BufInv, MemInv, OutSize, Lzma2TypeOK, BcjTypeOK,
                    StreamTypeOK
  <1>3. CallInv' /\ StreamInv'
    BY DEF IInv, BcjOut, BufInv, CallInv, OutPos, Callers, Lzma2Places, Round, StreamInv,
           Over, Ends
  <1>4. DictInv' /\ PlaceInv' /\ NeedInv' /\ RoundInv'
    BY DEF IInv, BcjOut, DictInv, OutSize, Written, PlaceInv, Round, NeedInv, ResetComing,
           PropsKnown, Failed, Over, Ends, Callers, RoundInv
  <1>5. TempInv' /\ RcInv' /\ ChunkInv'
    BY DEF IInv, BcjOut, StreamInv, TempInv, RcInv, ChunkInv
  <1> QED
    BY <1>1, <1>2, <1>3, <1>4, <1>5 DEF IInv

LEMMA ConvertedBytes ==
    ASSUME NEW d \in Nat, NEW f \in [0..(d - 1) -> Byte],
           NEW at \in Nat, NEW n \in Nat, NEW p \in Nat
    PROVE  Converted(f, at, n, p) \in [0..(d - 1) -> Byte]
  <1>1. ASSUME NEW x \in 0..(d - 1)
        PROVE  <<f[x][1], IF f[x][2] = 0 THEN p + (x - at) + 1 ELSE -1>> \in Byte
    <2>1. f[x] \in Byte /\ x \in Int
      OBVIOUS
    <2>2. f[x][1] \in Nat
      BY <2>1 DEF Byte
    <2>3. p + (x - at) + 1 \in Int
      BY <2>1
    <2> QED
      BY <2>2, <2>3 DEF Byte
  <1> QED
    BY <1>1 DEF Converted

\* The filter holds back what is not a whole instruction, in its own buffer.
LEMMA BcjFilterCore ==
    ASSUME IInv, BcjFilter, UNCHANGED stream_vars
    PROVE  BufInv' /\ MemInv' /\ BcjTypeOK' /\ CallInv'
  <1> DEFINE size == out_pos - bcj_start
             n == Whole(size)
             rest == size - n
             out == Converted(mem["out"], bcj_start, n, bcj_pos)
  <1>0. Numbers
    BY NumbersKnown
  <1>1. /\ pc = "bcj_filter" /\ b_out = "out" /\ OutSize = out_size /\ caller \in Callers
        /\ out_start <= bcj_start /\ bcj_start <= out_pos /\ in_start <= in_pos
        /\ bcj_pos \in Nat /\ filtered \in 0..TempSize /\ bcj_size \in 0..TempSize
        /\ UNCHANGED <<input, b_out, out_size, caller, bcj_start, filtered, saved_pos, saved_size>>
        /\ pc' \in {"block", "bcj_temp"}
    <2>1. /\ pc = "bcj_filter" /\ UNCHANGED <<caller, bcj_start, filtered, saved_pos, saved_size>>
          /\ pc' \in {"block", "bcj_temp"}
      BY DEF BcjFilter, Goto
    <2>2. UNCHANGED <<input, b_out, out_size>>
      BY DEF BcjFilter
    <2>3. /\ b_out = "out" /\ out_start <= bcj_start /\ bcj_start <= out_pos
          /\ in_start <= in_pos /\ caller \in Callers
      BY <2>1 DEF IInv, BufInv, CallInv, OutPos, Lzma2Places, Round
    <2> QED
      BY <2>1, <2>2, <2>3 DEF IInv, BcjTypeOK, OutSize
  <1>2. size \in Nat
    BY <1>0, <1>1 DEF Numbers
  <1>3. n \in Nat /\ n <= size /\ size - n < InstrSize
    <2> HIDE DEF size
    <2> QED
      BY <1>2, WholeNat
  <1>4. out \in [0..(out_size - 1) -> Byte]
    <2>1. mem["out"] \in [0..(out_size - 1) -> Byte] /\ out_size \in Nat /\ bcj_start \in Nat
      BY <1>0, <1>1 DEF Numbers, IInv, MemInv
    <2> HIDE DEF n
    <2> QED
      BY <1>1, <1>3, <2>1, ConvertedBytes
  <1>5. /\ rest \in 0..TempSize /\ out_pos - rest \in Nat /\ out_pos - rest <= out_pos
        /\ bcj_start <= out_pos - rest
    <2> HIDE DEF n
    <2> QED
      BY <1>0, <1>1, <1>3, BcjAssumption DEF Numbers
  <1>6. CASE UNCHANGED <<b, mem, bcj_pos, bcj_size>>
    <2>1. OutSize' = OutSize /\ OutPos' = OutPos
      BY <1>1, <1>6 DEF OutSize, OutPos
    <2> QED
      BY <1>0, <1>1, <1>6, <2>1 DEF Numbers, IInv, BufInv, MemInv, BcjTypeOK, CallInv, Lzma2Places, Round
  <1>7. CASE /\ bcj_pos' = bcj_pos + n
             /\ mem' = [mem EXCEPT !["out"] = out]
             /\ UNCHANGED <<b, bcj_size>>
    <2> HIDE DEF out, n
    <2>1. OutSize' = out_size /\ OutPos' = OutPos
      BY <1>1, <1>7 DEF OutSize, OutPos
    <2>2. MemInv'
      BY <1>1, <1>4, <1>7, <2>1 DEF IInv, MemInv
    <2>3. bcj_pos + n \in Nat
      BY <1>1, <1>3
    <2> QED
      BY <1>0, <1>1, <1>7, <2>1, <2>2, <2>3 DEF Numbers, IInv, BufInv, BcjTypeOK, CallInv,
         Lzma2Places, Round
  <1>8. CASE /\ bcj_pos' = bcj_pos + n
             /\ bcj_size' = rest
             /\ out_pos' = out_pos - rest
             /\ mem' = [out |-> out,
                        temp |-> [x \in DOMAIN mem["temp"] |->
                                     IF x < rest THEN out[out_pos' + x]
                                     ELSE mem["temp"][x]]]
    <2>1. OutSize' = out_size /\ OutPos' = out_pos - rest
      BY <1>1, <1>8 DEF OutSize, OutPos
    <2>2. MemInv'
      <3>1. mem["temp"] \in [0..(TempSize - 1) -> Byte] /\ out_size \in OutSizes
            /\ OutSizes \subseteq Nat /\ out_pos \in Nat /\ out_pos <= out_size /\ TempSize \in Nat
        BY <1>0, <1>1, XzBufAssumption DEF Numbers, IInv, MemInv
      <3>2. ASSUME NEW x \in 0..(TempSize - 1), x < rest
            PROVE  out[(out_pos - rest) + x] \in Byte
        <4>1. (out_pos - rest) + x \in 0..(out_size - 1)
          <5> HIDE DEF rest
          <5> QED
            BY <1>5, <3>1, <3>2
        <4> HIDE DEF out, rest
        <4> QED
          BY <1>4, <4>1
      <3> DEFINE t == [x \in DOMAIN mem["temp"] |->
                          IF x < rest THEN out[(out_pos - rest) + x] ELSE mem["temp"][x]]
      <3>3. t \in [0..(TempSize - 1) -> Byte]
        <4> HIDE DEF out, rest
        <4> QED
          BY <3>1, <3>2
      <3>4. mem' = [out |-> out, temp |-> t]
        BY <1>8
      <3> HIDE DEF t, out, rest
      <3>5. DOMAIN mem' = {"out", "temp"} /\ mem'["out"] = out /\ mem'["temp"] = t
        BY <3>4
      <3> QED
        BY <1>4, <2>1, <3>1, <3>3, <3>5 DEF MemInv
    <2>3. bcj_pos + n \in Nat
      BY <1>1, <1>3
    <2> HIDE DEF rest, n, out
    <2>4. BufInv' /\ BcjTypeOK'
      BY <1>0, <1>1, <1>5, <1>8, <2>3 DEF Numbers, IInv, BufInv, BcjTypeOK
    <2>5. CallInv'
      <3>1. out_start <= out_pos - rest
        BY <1>0, <1>1, <1>5 DEF Numbers
      <3>2. saved_pos \in Nat /\ in_start \in Nat
        BY <1>0 DEF Numbers
      <3> QED
        BY <1>1, <2>1, <3>1 DEF CallInv, Lzma2Places, Round
    <2> QED
      BY <2>2, <2>4, <2>5
  <1> QED
    <2> HIDE DEF rest
    <2>1. rest = out_pos - bcj_start - WholeOut(out_pos - bcj_start)
      BY DEF rest, WholeOut
    <2> QED
      BY <1>6, <1>7, <1>8, <2>1 DEF BcjFilter, WholeOut

LEMMA BcjFilterKeeps ==
    ASSUME IInv, BcjFilter, UNCHANGED stream_vars
    PROVE  IInv'
  <1>1. PcInv'
    BY DEF IInv, BcjFilter, PcInv, Goto
  <1>2. BufInv' /\ MemInv' /\ BcjTypeOK' /\ CallInv'
    BY BcjFilterCore
  <1>3. Lzma2TypeOK' /\ StreamTypeOK'
    BY DEF IInv, BcjFilter, Lzma2TypeOK, StreamTypeOK
  <1>4. StreamInv'
    BY DEF IInv, BcjFilter, StreamInv, Callers, Over, Ends, Goto
  <1>5. DictInv' /\ PlaceInv' /\ NeedInv' /\ RoundInv'
    BY DEF IInv, BcjFilter, DictInv, OutSize, Written, PlaceInv, Round, NeedInv,
           ResetComing, PropsKnown, Failed, Over, Ends, Callers, RoundInv, Goto
  <1>6. TempInv' /\ RcInv' /\ ChunkInv'
    BY DEF IInv, BcjFilter, TempInv, RcInv, ChunkInv, InEnd, OutEnd, Written, Live,
           Lzma2Places, Round, Goto
  <1> QED
    BY <1>1, <1>2, <1>3, <1>4, <1>5, <1>6 DEF IInv

LEMMA BcjTempKeeps ==
    ASSUME IInv, BcjTemp, UNCHANGED stream_vars
    PROVE  IInv'
  <1>1. PcInv' /\ BufInv'
    BY XzBufAssumption DEF IInv, BcjTemp, PcInv, BufInv, BcjTypeOK
  <1>2. MemInv' /\ Lzma2TypeOK' /\ BcjTypeOK' /\ StreamTypeOK'
    BY SMTT(30) DEF IInv, BcjTemp, BufInv, MemInv, OutSize, Lzma2TypeOK, BcjTypeOK,
                    StreamTypeOK, CallInv, OutPos, Lzma2Places, Round
  <1>3. CallInv' /\ StreamInv'
    BY DEF IInv, BcjTemp, BufInv, CallInv, OutPos, Callers, Lzma2Places, Round, StreamInv,
           Over, Ends
  <1>4. DictInv' /\ PlaceInv' /\ NeedInv' /\ RoundInv'
    BY DEF IInv, BcjTemp, BufInv, CallInv, OutSize, Callers, Lzma2Places, Round, Over, Ends,
           DictInv, Written, PlaceInv, NeedInv, ResetComing, PropsKnown, Failed, RoundInv
  <1>5. TempInv' /\ RcInv' /\ ChunkInv'
    BY DEF IInv, BcjTemp, TempInv, RcInv, ChunkInv, InEnd, OutEnd, Written, Live
  <1> QED
    BY <1>1, <1>2, <1>3, <1>4, <1>5 DEF IInv

\* b->out is turned back, and the whole instructions are copied to it.
LEMMA BcjRestoreCore ==
    ASSUME IInv, BcjRestore, UNCHANGED stream_vars
    PROVE  BufInv' /\ MemInv' /\ BcjTypeOK' /\ CallInv'
  <1> DEFINE n == Whole(out_pos)
             done == IF ret = "XZ_STREAM_END" THEN out_pos ELSE n
             copy == Least(done, saved_size - saved_pos)
             t == Converted(mem["temp"], 0, n, bcj_pos)
  <1>0. Numbers
    BY NumbersKnown
  <1>1. /\ pc = "bcj_restore" /\ pc' = "block" /\ b_out' = "out" /\ out_size' = saved_size
        /\ UNCHANGED <<input, caller, bcj_start, saved_pos, saved_size>>
    BY DEF BcjRestore
  <1>2. /\ b_out = "temp" /\ out_size = TempSize /\ saved_pos <= saved_size
        /\ in_start <= in_pos /\ caller \in Callers /\ out_start <= saved_pos
        /\ OutSize = saved_size /\ OutSize' = saved_size
    BY <1>1 DEF IInv, CallInv, OutPos, OutSize
  <1>3. /\ bcj_pos \in Nat /\ filtered \in 0..TempSize /\ bcj_size \in 0..TempSize
        /\ bcj_start \in Nat
    BY DEF IInv, BcjTypeOK
  <1>4. n \in Nat /\ n <= out_pos
    BY <1>0, WholeNat DEF Numbers
  <1>5. done \in Nat /\ done <= out_pos
    BY <1>0, <1>4 DEF Numbers
  <1>6. copy \in Nat /\ copy <= done /\ copy <= saved_size - saved_pos
    <2>1. saved_size - saved_pos \in Nat
      BY <1>0, <1>2 DEF Numbers
    <2> HIDE DEF done
    <2> QED
      BY <1>5, <2>1, LeastNat
  <1>7. out_pos \in Nat /\ out_pos <= TempSize /\ TempSize \in Nat
        /\ saved_pos \in Nat /\ saved_size \in Nat
    BY <1>0, <1>2 DEF Numbers
  <1>8. /\ mem["out"] \in [0..(saved_size - 1) -> Byte]
        /\ mem["temp"] \in [0..(TempSize - 1) -> Byte]
        /\ DOMAIN mem = {"out", "temp"} /\ saved_size \in OutSizes
    BY <1>2 DEF IInv, MemInv
  <1>9. CASE /\ out_pos' = saved_pos /\ bcj_size' = out_pos
              /\ UNCHANGED <<mem, bcj_pos, filtered>>
    <2>1. OutPos' = saved_pos
      BY <1>1, <1>9 DEF OutPos
    <2>2. BufInv' /\ MemInv' /\ BcjTypeOK'
      BY <1>1, <1>2, <1>3, <1>7, <1>8, <1>9 DEF IInv, BufInv, MemInv, BcjTypeOK
    <2>3. CallInv'
      BY <1>1, <1>2, <2>1 DEF CallInv, Lzma2Places, Round
    <2> QED
      BY <2>2, <2>3
  <1>10. CASE /\ bcj_pos' = bcj_pos + n
              /\ filtered' = done - copy
              /\ bcj_size' = out_pos - copy
              /\ out_pos' = saved_pos + copy
              /\ mem' = [out |-> [x \in DOMAIN mem["out"] |->
                                     IF Within(x, saved_pos, copy)
                                     THEN t[x - saved_pos] ELSE mem["out"][x]],
                         temp |-> [x \in DOMAIN t |->
                                     IF x + copy \in DOMAIN t
                                     THEN t[x + copy] ELSE t[x]]]
    <2>1. OutPos' = saved_pos + copy
      BY <1>1, <1>10 DEF OutPos
    <2>2. t \in [0..(TempSize - 1) -> Byte]
      <3> HIDE DEF n
      <3> QED
        BY <1>3, <1>4, <1>7, <1>8, ConvertedBytes
    <2> HIDE DEF t, copy, done, n
    <2>3. MemInv'
      <3> DEFINE o == [x \in DOMAIN mem["out"] |->
                          IF Within(x, saved_pos, copy)
                          THEN t[x - saved_pos] ELSE mem["out"][x]]
                 r == [x \in DOMAIN t |->
                          IF x + copy \in DOMAIN t THEN t[x + copy] ELSE t[x]]
      <3>1. ASSUME NEW x \in 0..(saved_size - 1), Within(x, saved_pos, copy)
            PROVE  t[x - saved_pos] \in Byte
        <4>1. x - saved_pos \in 0..(TempSize - 1)
          BY <1>5, <1>6, <1>7, <3>1 DEF Within
        <4> QED
          BY <2>2, <4>1
      <3>2. o \in [0..(saved_size - 1) -> Byte]
        BY <1>8, <3>1
      <3>3. r \in [0..(TempSize - 1) -> Byte]
        BY <2>2
      <3>4. mem' = [out |-> o, temp |-> r]
        BY <1>10
      <3> HIDE DEF o, r
      <3>5. DOMAIN mem' = {"out", "temp"} /\ mem'["out"] = o /\ mem'["temp"] = r
        BY <3>4
      <3> QED
        BY <1>2, <1>8, <3>2, <3>3, <3>5 DEF MemInv
    <2>4. /\ bcj_pos + n \in Nat /\ done - copy \in 0..TempSize /\ out_pos - copy \in 0..TempSize
          /\ saved_pos + copy \in Nat /\ saved_pos + copy <= saved_size
          /\ out_start \in Nat => out_start <= saved_pos + copy
      BY <1>2, <1>3, <1>4, <1>5, <1>6, <1>7
    <2>5. BufInv' /\ BcjTypeOK'
      BY <1>1, <1>3, <1>7, <1>10, <2>4 DEF IInv, BufInv, BcjTypeOK
    <2>6. CallInv'
      BY <1>0, <1>1, <1>2, <1>10, <2>1, <2>4 DEF Numbers, CallInv, Lzma2Places, Round
    <2> QED
      BY <2>3, <2>5, <2>6
  <1> QED
    BY <1>9, <1>10 DEF BcjRestore

LEMMA BcjRestoreKeeps ==
    ASSUME IInv, BcjRestore, UNCHANGED stream_vars
    PROVE  IInv'
  <1>1. PcInv'
    BY DEF IInv, BcjRestore, PcInv
  <1>2. BufInv' /\ MemInv' /\ BcjTypeOK' /\ CallInv'
    BY BcjRestoreCore
  <1>3. Lzma2TypeOK' /\ StreamTypeOK'
    BY DEF IInv, BcjRestore, Lzma2TypeOK, StreamTypeOK
  <1>4. StreamInv'
    BY DEF IInv, BcjRestore, StreamInv, Callers, Over, Ends
  <1>5. DictInv'
    BY DEF IInv, BcjRestore, CallInv, OutSize, DictInv, Written
  <1>6. PlaceInv'
    BY DEF IInv, BcjRestore, PlaceInv, Round
  <1>7. NeedInv'
    BY DEF IInv, BcjRestore, NeedInv, ResetComing, PropsKnown, Failed, Over, Ends, Callers
  <1>8. RoundInv'
    BY DEF IInv, BcjRestore, RoundInv, Round, Failed, Over, Ends, Callers
  <1>9. TempInv' /\ RcInv' /\ ChunkInv'
    BY DEF IInv, BcjRestore, TempInv, RcInv, ChunkInv, Live, Lzma2Places, Round
  <1> QED
    BY <1>1, <1>2, <1>3, <1>4, <1>5, <1>6, <1>7, <1>8, <1>9 DEF IInv

-----------------------------------------------------------------------------
(* dec_main and xz_dec_run.                                                *)

\* A field that is cut off or wrong ends the decoding and changes nothing else.
LEMMA FailsKeeps ==
    ASSUME IInv, pc = "stream", NEW n \in Nat, n <= in_avail, NEW r, Fails(r, n)
    PROVE  IInv'
  <1>0. Numbers
    BY NumbersKnown
  <1>1. /\ in_pos' = in_pos + n /\ pc' = "run"
        /\ UNCHANGED <<in_size, output, mem, filter_vars, stream_vars, caller>>
    BY DEF Fails, Result
  <1>2. /\ in_pos + n \in Nat /\ in_pos <= in_pos + n /\ in_pos + n <= in_size
    BY <1>0 DEF Numbers
  <1>3. PcInv' /\ BufInv'
    BY <1>1, <1>2 DEF IInv, PcInv, BufInv
  <1>4. MemInv' /\ Lzma2TypeOK' /\ BcjTypeOK' /\ StreamTypeOK'
    BY <1>1 DEF IInv, MemInv, OutSize, Lzma2TypeOK, BcjTypeOK, StreamTypeOK
  <1>5. CallInv'
    <2>1. /\ in_start <= in_pos + n /\ OutPos' = OutPos
      BY <1>0, <1>1, <1>2 DEF Numbers, IInv, CallInv, OutPos
    <2> QED
      BY <1>1, <2>1 DEF IInv, CallInv, Lzma2Places, Round
  <1>6. StreamInv' /\ PlaceInv'
    BY <1>1 DEF IInv, StreamInv, PlaceInv, Round, Over, Ends, Callers
  <1>7. DictInv' /\ NeedInv' /\ RoundInv'
    BY <1>1 DEF IInv, DictInv, OutSize, Written, NeedInv, ResetComing, PropsKnown, Failed, Over,
                Ends, Callers, RoundInv, Round
  <1>8. TempInv' /\ RcInv' /\ ChunkInv'
    BY <1>1 DEF IInv, TempInv, RcInv, ChunkInv, Live, Lzma2Places, Round
  <1> QED
    BY <1>3, <1>4, <1>5, <1>6, <1>7, <1>8 DEF IInv

LEMMA CutOffKeeps ==
    ASSUME IInv, CutOff
    PROVE  IInv'
  <1>1. in_avail \in Nat
    BY NumbersKnown DEF Numbers
  <1> QED
    BY <1>1, FailsKeeps DEF CutOff

LEMMA DamagedKeeps ==
    ASSUME IInv, Damaged
    PROVE  IInv'
  <1> DEFINE n == IF sequence = "index" THEN Least(in_avail, 9) ELSE FieldSize
  <1>1. PICK r : Fails(r, n)
    BY DEF Damaged
  <1>2. pc = "stream" /\ (in_avail >= FieldSize \/ sequence = "index")
    BY DEF Damaged
  <1>3. in_avail \in Nat
    BY NumbersKnown DEF Numbers
  <1>4. n \in Nat /\ n <= in_avail
    <2>1. CASE sequence = "index"
      BY <1>3, <2>1, LeastNat
    <2>2. CASE sequence # "index"
      BY <1>2, <1>3, <2>2, FieldSizeNat
    <2> QED
      BY <2>1, <2>2
  <1> HIDE DEF n
  <1> QED
    BY <1>1, <1>2, <1>4, FailsKeeps

LEMMA StreamHeaderKeeps ==
    ASSUME IInv, StreamHeader
    PROVE  IInv'
  <1>1. PcInv' /\ BufInv'
    BY DEF IInv, StreamHeader, PcInv, BufInv
  <1>2. MemInv' /\ Lzma2TypeOK' /\ BcjTypeOK' /\ StreamTypeOK'
    BY SMTT(30) DEF IInv, StreamHeader, MemInv, OutSize, Lzma2TypeOK, BcjTypeOK,
                    StreamTypeOK
  <1>3. CallInv' /\ StreamInv'
    BY DEF IInv, StreamHeader, BufInv, StreamTypeOK, CallInv, OutPos, StreamInv, At
  <1>4. DictInv' /\ PlaceInv' /\ NeedInv' /\ RoundInv'
    BY DEF IInv, StreamHeader, DictInv, OutSize, Written, PlaceInv, NeedInv, ResetComing,
           PropsKnown, Failed, RoundInv
  <1>5. TempInv' /\ RcInv' /\ ChunkInv'
    BY DEF IInv, StreamHeader, TempInv, RcInv, ChunkInv, Live, Lzma2Places, Round, At
  <1> QED
    BY <1>1, <1>2, <1>3, <1>4, <1>5 DEF IInv

LEMMA IndexStartKeeps ==
    ASSUME IInv, IndexStart
    PROVE  IInv'
  <1>1. PcInv' /\ BufInv'
    BY DEF IInv, IndexStart, PcInv, BufInv
  <1>2. MemInv' /\ Lzma2TypeOK' /\ BcjTypeOK' /\ StreamTypeOK'
    BY SMTT(30) DEF IInv, IndexStart, BufInv, MemInv, OutSize, Lzma2TypeOK, BcjTypeOK,
                    StreamTypeOK
  <1>3. CallInv' /\ StreamInv'
    BY DEF IInv, IndexStart, BufInv, CallInv, OutPos, StreamInv, At
  <1>4. DictInv' /\ PlaceInv' /\ NeedInv' /\ RoundInv'
    BY DEF IInv, IndexStart, DictInv, OutSize, Written, PlaceInv, NeedInv, ResetComing,
           PropsKnown, Failed, RoundInv
  <1>5. TempInv' /\ RcInv' /\ ChunkInv'
    BY DEF IInv, IndexStart, TempInv, RcInv, ChunkInv, Live, Lzma2Places, Round, At
  <1> QED
    BY <1>1, <1>2, <1>3, <1>4, <1>5 DEF IInv

\* The size of the header is a number.
LEMMA BlockStartCore ==
    ASSUME IInv, BlockStart
    PROVE  StreamTypeOK'
  <1>1. PICK n \in HeaderSizes : header' = [header EXCEPT !.size = n]
    BY DEF BlockStart
  <1>2. n \in Nat
    BY XzDecAssumption
  <1>3. header \in [size : Nat, compressed : Declared \cup {UNKNOWN},
                      uncompressed : Declared \cup {UNKNOWN}]
    BY DEF IInv, StreamTypeOK
  <1>4. header' \in [size : Nat, compressed : Declared \cup {UNKNOWN},
                      uncompressed : Declared \cup {UNKNOWN}]
    BY <1>1, <1>2, <1>3
  <1> QED
    BY <1>4 DEF BlockStart, IInv, StreamTypeOK

LEMMA BlockStartKeeps ==
    ASSUME IInv, BlockStart
    PROVE  IInv'
  <1>1. PcInv' /\ BufInv'
    BY DEF IInv, BlockStart, PcInv, BufInv
  <1>2. MemInv'
    BY DEF IInv, BlockStart, MemInv, OutSize
  <1>3. Lzma2TypeOK'
    BY DEF IInv, BlockStart, Lzma2TypeOK
  <1>4. BcjTypeOK'
    BY DEF IInv, BlockStart, BcjTypeOK
  <1>5. StreamTypeOK'
    BY BlockStartCore
  <1>6. CallInv' /\ StreamInv'
    BY DEF IInv, BlockStart, CallInv, OutPos, StreamInv, At
  <1>7. DictInv' /\ PlaceInv' /\ NeedInv' /\ RoundInv'
    BY DEF IInv, BlockStart, DictInv, OutSize, Written, PlaceInv, NeedInv, ResetComing,
           PropsKnown, Failed, RoundInv
  <1>8. TempInv' /\ RcInv' /\ ChunkInv'
    BY DEF IInv, BlockStart, TempInv, RcInv, ChunkInv, Live, Lzma2Places, Round, At
  <1> QED
    BY <1>1, <1>2, <1>3, <1>4, <1>5, <1>6, <1>7, <1>8 DEF IInv

\* A block begins with new filters.
LEMMA BlockHeaderCore ==
    ASSUME IInv, BlockHeader
    PROVE  BufInv' /\ BcjTypeOK'
  <1>0. Numbers
    BY NumbersKnown
  <1>1. /\ in_avail >= header.size /\ in_pos' = in_pos + header.size
        /\ UNCHANGED <<in_size, output>> /\ header.size \in Nat
    BY DEF BlockHeader, IInv, StreamTypeOK
  <1>2. BcjReset \/ UNCHANGED bcj_vars
    BY DEF BlockHeader
  <1>3. BufInv'
    BY <1>0, <1>1 DEF Numbers, IInv, BufInv
  <1>4. BcjTypeOK'
    BY <1>0, <1>2 DEF Numbers, BcjReset, IInv, BcjTypeOK
  <1> QED
    BY <1>3, <1>4

LEMMA BlockHeaderKeeps ==
    ASSUME IInv, BlockHeader
    PROVE  IInv'
  <1>1. PcInv'
    BY DEF IInv, BlockHeader, PcInv
  <1>2. BufInv' /\ BcjTypeOK'
    BY BlockHeaderCore
  <1>3. MemInv' /\ Lzma2TypeOK' /\ StreamTypeOK'
    BY XzBufAssumption, Lzma2Assumption, BcjAssumption, XzDecAssumption, SMTT(60) DEF IInv,
                                                                                      BlockHeader,
                                                                                      PcInv,
                                                                                      BufInv,
                                                                                      MemInv,
                                                                                      OutSize,
                                                                                      Lzma2TypeOK,
                                                                                      BcjTypeOK,
                                                                                      StreamTypeOK,
                                                                                      CallInv,
                                                                                      OutPos,
                                                                                      Callers,
                                                                                      Lzma2Places,
                                                                                      Round,
                                                                                      StreamInv,
                                                                                      Over,
                                                                                      Ends,
                                                                                      PlaceInv,
                                                                                      At,
                                                                                      UNKNOWN,
                                                                                      HeaderFields,
                                                                                      BcjReset,
                                                                                      Lzma2Reset,
                                                                                      NoChunk
  <1>4. CallInv' /\ StreamInv'
    BY SMTT(30) DEF IInv, BlockHeader, BufInv, StreamTypeOK, CallInv, OutPos, StreamInv, At,
                    BcjReset, Lzma2Reset
  <1>5. DictInv' /\ PlaceInv' /\ NeedInv' /\ RoundInv'
    BY DEF IInv, BlockHeader, DictInv, OutSize, Written, PlaceInv, Round, NeedInv,
           PropsKnown, Failed, RoundInv, At, BcjReset, Lzma2Reset
  <1>6. TempInv' /\ RcInv' /\ ChunkInv'
    BY DEF IInv, BlockHeader, StreamInv, TempInv, RcInv, ChunkInv, At, Lzma2Reset
  <1> QED
    BY <1>1, <1>2, <1>3, <1>4, <1>5, <1>6 DEF IInv

LEMMA BlockKeeps ==
    ASSUME IInv, Block
    PROVE  IInv'
  <1>1. PcInv' /\ BufInv'
    BY DEF IInv, Block, PcInv, BufInv
  <1>2. MemInv' /\ Lzma2TypeOK' /\ BcjTypeOK' /\ StreamTypeOK'
    BY SMTT(30) DEF IInv, Block, BufInv, MemInv, OutSize, Lzma2TypeOK, BcjTypeOK,
                    StreamTypeOK, OutPos, Callers, Ends
  <1>3. CallInv' /\ StreamInv'
    BY DEF IInv, Block, BufInv, CallInv, OutPos, Callers, Lzma2Places, Round, StreamInv, At
  <1>4. DictInv' /\ PlaceInv' /\ NeedInv' /\ RoundInv'
    BY DEF IInv, Block, DictInv, OutSize, Written, PlaceInv, Round, NeedInv, ResetComing,
           PropsKnown, Failed, Over, Ends, Callers, RoundInv, At
  <1>5. TempInv' /\ RcInv' /\ ChunkInv'
    BY DEF IInv, Block, StreamInv, TempInv, RcInv, ChunkInv, At
  <1> QED
    BY <1>1, <1>2, <1>3, <1>4, <1>5 DEF IInv

\* The sizes of a block go to the index to come.
LEMMA BlockEndCore ==
    ASSUME IInv, BlockEnd
    PROVE  StreamTypeOK'
  <1>0. Numbers
    BY NumbersKnown
  <1> DEFINE c == block_compressed + (in_pos - in_start)
             u == block_uncompressed + (out_pos - out_start)
  <1>1. pc = "block" /\ block_compressed' = c /\ block_uncompressed' = u
        /\ UNCHANGED <<check_size, header, bcj_active, in_start, out_start, index_seq,
                       index_count, index_size, index_hash, index_unpadded>>
    BY DEF BlockEnd
  <1>2. c \in Nat /\ u \in Nat
    <2>1. /\ in_start <= in_pos /\ out_start <= out_pos
      BY <1>1 DEF IInv, BufInv, CallInv, OutPos, Lzma2Places, Round
    <2>2. block_compressed \in Nat /\ block_uncompressed \in Nat
      BY DEF IInv, StreamTypeOK
    <2> QED
      BY <1>0, <2>1, <2>2 DEF Numbers
  <1>3. Unpadded(c) \in Nat
    BY <1>2 DEF Unpadded, IInv, StreamTypeOK
  <1> HIDE DEF c, u
  <1>4. \/ UNCHANGED <<sequence, block_hash>>
        \/ /\ sequence' = "block_padding"
           /\ block_hash' = Append(block_hash, <<Unpadded(c), u>>)
    BY <1>1 DEF BlockEnd, Unpadded
  <1>5. block_hash' \in Seq(Nat \X Nat)
    <2>1. block_hash \in Seq(Nat \X Nat) /\ <<Unpadded(c), u>> \in Nat \X Nat
      BY <1>2, <1>3 DEF IInv, StreamTypeOK
    <2>2. Append(block_hash, <<Unpadded(c), u>>) \in Seq(Nat \X Nat)
      BY <2>1, AppendProperties
    <2> QED
      BY <1>4, <2>1, <2>2
  <1> QED
    BY <1>1, <1>2, <1>4, <1>5 DEF IInv, StreamTypeOK

LEMMA BlockEndKeeps ==
    ASSUME IInv, BlockEnd
    PROVE  IInv'
  <1>1. PcInv' /\ BufInv'
    BY DEF IInv, BlockEnd, PcInv, BufInv, Result, Goto
  <1>2. MemInv' /\ Lzma2TypeOK' /\ BcjTypeOK'
    BY SMTT(30) DEF IInv, BlockEnd, MemInv, OutSize, Lzma2TypeOK, BcjTypeOK
  <1>3. StreamTypeOK'
    BY BlockEndCore
  <1>4. CallInv' /\ StreamInv'
    BY DEF IInv, BlockEnd, CallInv, OutPos, Callers, Lzma2Places, Round, StreamInv, Over,
           Ends, Result, Goto
  <1>5. DictInv' /\ PlaceInv' /\ NeedInv' /\ RoundInv'
    BY DEF IInv, BlockEnd, DictInv, OutSize, Written, PlaceInv, Round, NeedInv, ResetComing,
           PropsKnown, Failed, Over, Ends, RoundInv, Result, Goto
  <1>6. TempInv' /\ RcInv' /\ ChunkInv'
    BY DEF IInv, BlockEnd, TempInv, RcInv, ChunkInv, Live, Lzma2Places, Round, Result, Goto
  <1> QED
    BY <1>1, <1>2, <1>3, <1>4, <1>5, <1>6 DEF IInv

\* The padding of a block is input.
LEMMA BlockPaddingCore ==
    ASSUME IInv, BlockPadding
    PROVE  BufInv' /\ StreamTypeOK' /\ CallInv'
  <1>0. Numbers
    BY NumbersKnown
  <1> DEFINE n == FieldSize
  <1>1. n \in Nat
    BY FieldSizeNat
  <1> HIDE DEF n
  <1>2. /\ pc = "stream" /\ in_avail >= n /\ in_pos' = in_pos + n
        /\ block_compressed' = block_compressed + n /\ sequence' = "block_check"
        /\ UNCHANGED <<in_size, output, ctl, mem, filter_vars, check_size, header,
                       bcj_active, in_start, out_start, block_uncompressed, block_hash,
                       index_seq, index_count, index_size, index_hash, index_unpadded>>
    BY DEF BlockPadding, At, n
  <1>3. in_pos + n \in Nat /\ in_pos <= in_pos + n /\ in_pos + n <= in_size
        /\ (block_compressed \in Nat => block_compressed + n \in Nat)
    BY <1>0, <1>1, <1>2 DEF Numbers
  <1>4. BufInv'
    BY <1>2, <1>3 DEF IInv, BufInv
  <1>5. StreamTypeOK'
    BY <1>2, <1>3 DEF IInv, StreamTypeOK
  <1>6. CallInv'
    <2>1. in_start <= in_pos + n /\ OutPos' = OutPos
      BY <1>0, <1>2, <1>3 DEF Numbers, IInv, CallInv, OutPos
    <2> QED
      BY <1>2, <2>1 DEF IInv, CallInv, Lzma2Places, Round
  <1> QED
    BY <1>4, <1>5, <1>6

LEMMA BlockPaddingKeeps ==
    ASSUME IInv, BlockPadding
    PROVE  IInv'
  <1>1. PcInv'
    BY DEF IInv, BlockPadding, PcInv
  <1>2. BufInv' /\ StreamTypeOK' /\ CallInv'
    BY BlockPaddingCore
  <1>3. MemInv'
    BY DEF IInv, BlockPadding, MemInv, OutSize
  <1>4. Lzma2TypeOK'
    BY DEF IInv, BlockPadding, Lzma2TypeOK
  <1>5. BcjTypeOK'
    BY DEF IInv, BlockPadding, BcjTypeOK
  <1>6. StreamInv'
    BY DEF IInv, BlockPadding, StreamInv, At
  <1>7. DictInv' /\ PlaceInv' /\ NeedInv' /\ RoundInv'
    BY DEF IInv, BlockPadding, DictInv, OutSize, Written, PlaceInv, NeedInv, ResetComing,
           PropsKnown, Failed, RoundInv
  <1>8. TempInv' /\ RcInv' /\ ChunkInv'
    BY DEF IInv, BlockPadding, TempInv, RcInv, ChunkInv, Live, Lzma2Places, Round, At
  <1> QED
    BY <1>1, <1>2, <1>3, <1>4, <1>5, <1>6, <1>7, <1>8 DEF IInv

LEMMA BlockCheckKeeps ==
    ASSUME IInv, BlockCheck
    PROVE  IInv'
  <1>1. PcInv' /\ BufInv'
    BY DEF IInv, BlockCheck, PcInv, BufInv, StreamTypeOK
  <1>2. MemInv' /\ Lzma2TypeOK' /\ BcjTypeOK' /\ StreamTypeOK'
    BY SMTT(30) DEF IInv, BlockCheck, PcInv, MemInv, OutSize, Lzma2TypeOK, BcjTypeOK,
                    StreamTypeOK, At
  <1>3. CallInv' /\ StreamInv'
    BY DEF IInv, BlockCheck, BufInv, StreamTypeOK, CallInv, OutPos, StreamInv, At
  <1>4. DictInv' /\ PlaceInv' /\ NeedInv' /\ RoundInv'
    BY DEF IInv, BlockCheck, DictInv, OutSize, Written, PlaceInv, NeedInv, ResetComing,
           PropsKnown, Failed, RoundInv
  <1>5. TempInv' /\ RcInv' /\ ChunkInv'
    BY DEF IInv, BlockCheck, TempInv, RcInv, ChunkInv, Live, Lzma2Places, Round, At
  <1> QED
    BY <1>1, <1>2, <1>3, <1>4, <1>5 DEF IInv

\* The numbers of the index, and how many are still to come.
LEMMA IndexFieldCore ==
    ASSUME IInv, IndexField
    PROVE  BufInv' /\ StreamTypeOK' /\ CallInv' /\ StreamInv'
  <1>0. Numbers
    BY NumbersKnown
  <1>1. /\ pc = "stream" /\ sequence = "index"
        /\ sequence' = IF index_count' = 0 /\ index_seq' = "unpadded"
                       THEN "index_padding" ELSE "index"
        /\ UNCHANGED <<in_size, output, mem, filter_vars, check_size, header, bcj_active,
                       in_start, out_start, block_compressed, block_uncompressed,
                       block_hash, index_size>>
    BY DEF IndexField, At
  <1>2. PICK n \in VliSizes, v \in IndexNumbers :
        /\ n <= in_avail
        /\ in_pos' = in_pos + n
        /\ \/ /\ index_seq = "count"
              /\ index_count' = v
              /\ index_seq' = "unpadded"
              /\ IF v # Len(block_hash)
                 THEN Result("XZ_DATA_ERROR") ELSE UNCHANGED ctl
              /\ UNCHANGED <<index_unpadded, index_hash>>
           \/ /\ index_seq = "unpadded"
              /\ index_unpadded' = v
              /\ index_seq' = "uncompressed"
              /\ UNCHANGED <<ctl, index_count, index_hash>>
           \/ /\ index_seq = "uncompressed"
              /\ index_hash' = Append(index_hash, <<index_unpadded, v>>)
              /\ index_count' = index_count - 1
              /\ index_seq' = "unpadded"
              /\ UNCHANGED <<ctl, index_unpadded>>
    BY DEF IndexField
  <1>3. /\ block_hash \in Seq(Nat \X Nat) /\ index_hash \in Seq(Nat \X Nat)
        /\ index_seq \in {"count", "unpadded", "uncompressed"}
        /\ index_count \in Nat /\ index_unpadded \in Nat
        /\ Len(block_hash) \in Nat /\ Len(index_hash) \in Nat
    <2>1. /\ block_hash \in Seq(Nat \X Nat) /\ index_hash \in Seq(Nat \X Nat)
          /\ index_seq \in {"count", "unpadded", "uncompressed"}
          /\ index_count \in Nat /\ index_unpadded \in Nat
      BY DEF IInv, StreamTypeOK
    <2> QED
      BY <2>1, LenProperties
  <1>4. /\ index_seq # "count" => index_count > 0 /\ Len(index_hash) + index_count = Len(block_hash)
        /\ index_seq = "count" => Len(index_hash) = 0
    BY <1>1 DEF IInv, StreamInv
  <1>5. v \in Nat /\ (index_seq = "count" => v \in {Len(block_hash), Len(block_hash) + 1})
    <2>1. CASE index_seq = "count"
      <3>1. v \in {Len(block_hash), Len(block_hash) + 1}
        BY <2>1, Zenon DEF IndexNumbers
      <3> QED
        BY <1>3, <3>1
    <2>2. CASE index_seq # "count"
      <3>1. Len(index_hash) + 1 \in 1..Len(block_hash)
        BY <1>3, <1>4, <2>2
      <3>2. block_hash[Len(index_hash) + 1] \in Nat \X Nat
        BY <1>3, <3>1, ElementOfSeq
      <3> DEFINE e == block_hash[Len(index_hash) + 1]
      <3>3. v \in {e[1], e[1] + 4} \/ v \in {e[2], e[2] + 1}
        BY <1>3, <2>2, Zenon DEF IndexNumbers
      <3> HIDE DEF e
      <3>4. e[1] \in Nat /\ e[2] \in Nat
        BY <3>2 DEF e
      <3> QED
        BY <2>2, <3>3, <3>4
    <2> QED
      BY <2>1, <2>2
  <1>6. n \in Nat
    BY XzDecAssumption
  <1>7. /\ in_pos + n \in Nat /\ in_pos <= in_pos + n /\ in_pos + n <= in_size
        /\ in_start <= in_pos + n /\ OutPos' = OutPos
    BY <1>0, <1>1, <1>2, <1>6 DEF Numbers, IInv, CallInv, OutPos
  <1>8. BufInv'
    BY <1>1, <1>2, <1>7 DEF IInv, BufInv
  <1>9. pc' \in {"stream", "run"} /\ caller' = caller
    BY <1>1, <1>2 DEF Result
  <1>10. CallInv'
    BY <1>1, <1>2, <1>7, <1>9 DEF IInv, CallInv, Lzma2Places, Round
  <1>11. /\ index_hash' \in Seq(Nat \X Nat) /\ index_count' \in Nat /\ index_unpadded' \in Nat
         /\ index_seq' \in {"unpadded", "uncompressed"}
         /\ pc' = "stream" => Len(index_hash') + index_count' = Len(block_hash)
         /\ index_seq' = "uncompressed" => index_count' > 0
    <2>1. CASE index_seq = "count"
      BY <1>1, <1>2, <1>3, <1>4, <1>5, <2>1 DEF Result
    <2>2. CASE index_seq = "unpadded"
      BY <1>2, <1>3, <1>4, <1>5, <2>2
    <2>3. CASE index_seq = "uncompressed"
      <3>1. <<index_unpadded, v>> \in Nat \X Nat
        BY <1>3, <1>5
      <3>2. /\ index_hash' = Append(index_hash, <<index_unpadded, v>>)
            /\ index_count' = index_count - 1 /\ index_seq' = "unpadded"
            /\ index_unpadded' = index_unpadded
        BY <1>2, <2>3
      <3>3. index_hash' \in Seq(Nat \X Nat) /\ Len(index_hash') = Len(index_hash) + 1
        BY <1>3, <3>1, <3>2, AppendProperties
      <3>4. index_count - 1 \in Nat /\ Len(index_hash) + 1 + (index_count - 1) = Len(block_hash)
        <4> DEFINE hashed == Len(index_hash)
                   all == Len(block_hash)
        <4>1. /\ hashed \in Nat /\ all \in Nat /\ index_count \in Nat
              /\ index_count > 0 /\ hashed + index_count = all
          BY <1>3, <1>4, <2>3
        <4> HIDE DEF hashed, all
        <4>2. index_count - 1 \in Nat /\ hashed + 1 + (index_count - 1) = all
          BY <4>1
        <4> QED
          BY <4>2 DEF hashed, all
      <3> QED
        BY <1>3, <3>2, <3>3, <3>4
    <2> QED
      BY <1>3, <2>1, <2>2, <2>3
  <1>12. StreamTypeOK'
    BY <1>1, <1>11 DEF IInv, StreamTypeOK
  <1>13. StreamInv'
    BY <1>1, <1>9, <1>11 DEF IInv, StreamInv, Over, Ends, Callers
  <1> QED
    BY <1>8, <1>10, <1>12, <1>13

LEMMA IndexFieldKeeps ==
    ASSUME IInv, IndexField
    PROVE  IInv'
  <1>1. PcInv'
    BY DEF IInv, IndexField, PcInv, Result
  <1>2. BufInv' /\ StreamTypeOK' /\ CallInv' /\ StreamInv'
    BY IndexFieldCore
  <1>3. MemInv'
    BY DEF IInv, IndexField, MemInv, OutSize
  <1>4. Lzma2TypeOK'
    BY DEF IInv, IndexField, Lzma2TypeOK
  <1>5. BcjTypeOK'
    BY DEF IInv, IndexField, BcjTypeOK
  <1>6. DictInv' /\ PlaceInv' /\ NeedInv' /\ RoundInv'
    BY DEF IInv, IndexField, DictInv, OutSize, Written, PlaceInv, Round, NeedInv,
           ResetComing, PropsKnown, Failed, Over, RoundInv, Result
  <1>7. TempInv' /\ RcInv' /\ ChunkInv'
    BY DEF IInv, IndexField, TempInv, RcInv, ChunkInv, Live, Lzma2Places, Round, At, Result
  <1> QED
    BY <1>1, <1>2, <1>3, <1>4, <1>5, <1>6, <1>7 DEF IInv

\* The padding of the index is input.
LEMMA IndexPaddingCore ==
    ASSUME IInv, IndexPadding
    PROVE  BufInv' /\ StreamTypeOK' /\ CallInv'
  <1>0. Numbers
    BY NumbersKnown
  <1> DEFINE n == FieldSize
  <1>1. n \in Nat
    BY FieldSizeNat
  <1> HIDE DEF n
  <1>2. /\ pc = "stream" /\ in_avail >= n /\ in_pos' = in_pos + n
        /\ index_size' = index_size + (in_pos' - in_start)
        /\ sequence' \in {sequence, "index_crc32"} /\ pc' \in {"stream", "run"}
        /\ UNCHANGED <<in_size, output, caller, mem, filter_vars, check_size, header,
                       bcj_active, in_start, out_start, block_compressed, block_uncompressed,
                       block_hash, index_seq, index_count, index_hash, index_unpadded>>
    <2>1. \/ sequence' = "index_crc32" /\ UNCHANGED ctl
          \/ pc' = "run" /\ UNCHANGED <<sequence, caller>>
      BY DEF IndexPadding, Result
    <2> QED
      BY <2>1 DEF IndexPadding, At, n
  <1>3. /\ in_pos + n \in Nat /\ in_pos <= in_pos + n /\ in_pos + n <= in_size
        /\ in_start <= in_pos + n /\ (in_pos + n) - in_start \in Nat /\ OutPos' = OutPos
    BY <1>0, <1>1, <1>2 DEF Numbers, IInv, CallInv, OutPos
  <1>4. BufInv'
    BY <1>2, <1>3 DEF IInv, BufInv
  <1>5. StreamTypeOK'
    <2> DEFINE k == (in_pos + n) - in_start
    <2>1. index_size \in Nat /\ k \in Nat
      BY <1>3 DEF IInv, StreamTypeOK
    <2>2. index_size' = index_size + k
      <3>1. in_pos' = in_pos + n
        BY <1>2
      <3>2. index_size' = index_size + (in_pos' - in_start)
        BY <1>2
      <3> QED
        BY <3>1, <3>2
    <2> HIDE DEF k
    <2>3. index_size + k \in Nat
      BY <2>1
    <2> QED
      BY <1>2, <2>2, <2>3 DEF IInv, StreamTypeOK
  <1>6. CallInv'
    BY <1>2, <1>3 DEF IInv, CallInv, Lzma2Places, Round
  <1> QED
    BY <1>4, <1>5, <1>6

LEMMA IndexPaddingKeeps ==
    ASSUME IInv, IndexPadding
    PROVE  IInv'
  <1>1. PcInv'
    BY DEF IInv, IndexPadding, PcInv, Result
  <1>2. BufInv' /\ StreamTypeOK' /\ CallInv'
    BY IndexPaddingCore
  <1>3. MemInv'
    BY DEF IInv, IndexPadding, MemInv, OutSize
  <1>4. Lzma2TypeOK'
    BY DEF IInv, IndexPadding, Lzma2TypeOK
  <1>5. BcjTypeOK'
    BY DEF IInv, IndexPadding, BcjTypeOK
  <1>6. StreamInv'
    BY DEF IInv, IndexPadding, StreamInv, Over, At, Result
  <1>7. DictInv' /\ PlaceInv' /\ NeedInv' /\ RoundInv'
    BY DEF IInv, IndexPadding, DictInv, OutSize, Written, PlaceInv, Round, NeedInv,
           ResetComing, PropsKnown, Failed, Over, RoundInv, Result
  <1>8. TempInv' /\ RcInv' /\ ChunkInv'
    BY DEF IInv, IndexPadding, TempInv, RcInv, ChunkInv, Live, Lzma2Places, Round, At,
           Result
  <1> QED
    BY <1>1, <1>2, <1>3, <1>4, <1>5, <1>6, <1>7, <1>8 DEF IInv

LEMMA IndexCrc32Keeps ==
    ASSUME IInv, IndexCrc32
    PROVE  IInv'
  <1>1. PcInv' /\ BufInv'
    BY DEF IInv, IndexCrc32, PcInv, BufInv
  <1>2. MemInv' /\ Lzma2TypeOK' /\ BcjTypeOK' /\ StreamTypeOK'
    BY SMTT(30) DEF IInv, IndexCrc32, MemInv, OutSize, Lzma2TypeOK, BcjTypeOK, StreamTypeOK
  <1>3. CallInv' /\ StreamInv'
    BY DEF IInv, IndexCrc32, BufInv, StreamTypeOK, CallInv, OutPos, StreamInv, At
  <1>4. DictInv' /\ PlaceInv' /\ NeedInv' /\ RoundInv'
    BY DEF IInv, IndexCrc32, DictInv, OutSize, Written, PlaceInv, NeedInv, ResetComing,
           PropsKnown, Failed, RoundInv
  <1>5. TempInv' /\ RcInv' /\ ChunkInv'
    BY DEF IInv, IndexCrc32, TempInv, RcInv, ChunkInv, Live, Lzma2Places, Round, At
  <1> QED
    BY <1>1, <1>2, <1>3, <1>4, <1>5 DEF IInv

LEMMA StreamFooterKeeps ==
    ASSUME IInv, StreamFooter
    PROVE  IInv'
  <1>1. PcInv' /\ BufInv'
    BY DEF IInv, StreamFooter, PcInv, BufInv, Result
  <1>2. MemInv' /\ Lzma2TypeOK' /\ BcjTypeOK' /\ StreamTypeOK'
    BY SMTT(30) DEF IInv, StreamFooter, MemInv, OutSize, Lzma2TypeOK, BcjTypeOK,
                    StreamTypeOK
  <1>3. CallInv' /\ StreamInv'
    BY DEF IInv, StreamFooter, BufInv, StreamTypeOK, CallInv, OutPos, Lzma2Places, Round,
           StreamInv, Over, At, Result
  <1>4. DictInv' /\ PlaceInv' /\ NeedInv' /\ RoundInv'
    BY DEF IInv, StreamFooter, DictInv, OutSize, Written, PlaceInv, Round, NeedInv,
           PropsKnown, Failed, Over, RoundInv, At, Result
  <1>5. TempInv' /\ RcInv' /\ ChunkInv'
    BY DEF IInv, StreamFooter, TempInv, RcInv, ChunkInv, Live, Lzma2Places, Round, Result
  <1> QED
    BY <1>1, <1>2, <1>3, <1>4, <1>5 DEF IInv

LEMMA RunEndKeeps ==
    ASSUME IInv, RunEnd
    PROVE  IInv'
  <1>1. PcInv' /\ BufInv'
    BY DEF IInv, RunEnd, PcInv, BufInv
  <1>2. MemInv' /\ Lzma2TypeOK' /\ BcjTypeOK' /\ StreamTypeOK'
    BY SMTT(30) DEF IInv, RunEnd, MemInv, OutSize, Lzma2TypeOK, BcjTypeOK, StreamTypeOK
  <1>3. CallInv' /\ StreamInv'
    BY DEF IInv, RunEnd, CallInv, OutPos, Callers, Lzma2Places, Round, StreamInv, Over, Ends
  <1>4. DictInv' /\ PlaceInv' /\ NeedInv' /\ RoundInv'
    BY DEF IInv, RunEnd, DictInv, OutSize, Written, PlaceInv, Round, NeedInv, ResetComing,
           PropsKnown, Failed, Over, Ends, RoundInv
  <1>5. TempInv' /\ RcInv' /\ ChunkInv'
    BY DEF IInv, RunEnd, TempInv, RcInv, ChunkInv, Live, Lzma2Places, Round
  <1> QED
    BY <1>1, <1>2, <1>3, <1>4, <1>5 DEF IInv

-----------------------------------------------------------------------------
(* Every step of the specification.                                        *)

LEMMA StutterKeeps ==
    ASSUME IInv, UNCHANGED vars
    PROVE  IInv'
  <1>1. UNCHANGED <<OutSize, OutPos, Written, InEnd, OutEnd>>
    BY DEF vars, OutSize, OutPos, Written, InEnd, OutEnd
  <1>2. PcInv' /\ BufInv' /\ MemInv'
    BY <1>1 DEF IInv, vars, PcInv, BufInv, MemInv
  <1>3. Lzma2TypeOK' /\ BcjTypeOK' /\ StreamTypeOK'
    BY DEF IInv, vars, Lzma2TypeOK, BcjTypeOK, StreamTypeOK
  <1>4. CallInv' /\ StreamInv' /\ DictInv' /\ PlaceInv'
    BY <1>1 DEF IInv, vars, CallInv, StreamInv, DictInv, PlaceInv
  <1>5. NeedInv' /\ RoundInv' /\ TempInv' /\ RcInv' /\ ChunkInv'
    BY <1>1 DEF IInv, vars, NeedInv, ResetComing, PropsKnown, Failed, RoundInv, TempInv, RcInv,
                ChunkInv, Live
  <1> QED
    BY <1>2, <1>3, <1>4, <1>5 DEF IInv

LEMMA NextKeeps ==
    ASSUME IInv, [Next]_vars
    PROVE  IInv'
  <1>1. CASE Lzma2Next /\ UNCHANGED <<bcj_vars, stream_vars>>
    <2> HIDE DEF bcj_vars, stream_vars
    <2>1. CASE Control
      BY <1>1, <2>1, Zenon, LoopEndKeeps, ControlEndKeeps, ControlRejectedKeeps,
         ControlChunkKeeps, SizeCutOffKeeps, UncompressedSizeKeeps, CompressedSizeKeeps,
         PropertiesBadKeeps, PropertiesKeeps, PrepareKeeps, RunLimitKeeps, FlushKeeps,
         CopyBeginKeeps, CopySomeKeeps, CopyEndKeeps
      DEF Control
    <2>2. CASE Lzma
      BY <1>1, <2>2, Zenon, TempSkipKeeps, TempFillKeeps, DirectKeeps, SaveKeeps, PendingKeeps,
         LiteralKeeps, MatchKeeps, MainEndKeeps
      DEF Lzma
    <2> QED
      BY <1>1, <2>1, <2>2 DEF Lzma2Next
  <1>2. CASE BcjNext /\ UNCHANGED stream_vars
    <2> HIDE DEF stream_vars
    <2> QED
      BY <1>2, Zenon, BcjOutKeeps, BcjFilterKeeps, BcjTempKeeps, BcjRestoreKeeps DEF BcjNext
  <1>3. CASE StreamNext
    BY <1>3, Zenon, CutOffKeeps, DamagedKeeps, StreamHeaderKeeps, IndexStartKeeps,
       BlockStartKeeps, BlockHeaderKeeps, BlockKeeps, BlockEndKeeps, BlockPaddingKeeps,
       BlockCheckKeeps, IndexFieldKeeps, IndexPaddingKeeps, IndexCrc32Keeps, StreamFooterKeeps
    DEF StreamNext
  <1>4. CASE RunEnd
    BY <1>4, RunEndKeeps
  <1>5. CASE UNCHANGED vars
    BY <1>5, StutterKeeps
  <1> QED
    BY <1>1, <1>2, <1>3, <1>4, <1>5, Zenon DEF Next

-----------------------------------------------------------------------------
(* Every byte of the program.  What the rest of the invariant says is      *)
(* about a program that may still be entered.                              *)

Decoded == {"XZ_OK", "XZ_STREAM_END"}

\* A block is being decoded, from the call of its first filter to the return of it.
Decoding == \/ pc \in Lzma2Places \cup {"bcj_temp"}
            \/ pc \in {"bcj_filter", "bcj_restore"} /\ ret \in Decoded

\* Nothing has gone wrong so far: in single-call mode a block must end in one call.
Alive == \/ Decoding
         \/ pc \in {"stream", "bcj", "entrypoint"}
         \/ pc \in {"block", "run"} /\ ret = "XZ_STREAM_END"

\* A block has been decoded and is not yet one of blocks.
Closing == pc = "stream" /\ sequence \in {"block_padding", "block_check"}

\* Where the blocks s end.
EndOf(s) == IF Len(s) = 0 THEN 0 ELSE s[Len(s)].out + s[Len(s)].size

\* The blocks s lie one after the other, and h has the sizes that they have.
Linked(s, h) ==
    \A i \in 1..Len(s) :
        /\ s[i].out = IF i = 1 THEN 0 ELSE s[i - 1].out + s[i - 1].size
        /\ s[i].out + s[i].size <= EndOf(s)
        /\ s[i].size = h[i][2]
        /\ s[i].end - s[i].begin \in h[i][1] .. (h[i][1] + 3)

\* What block_hash has of a block after which n bytes of padding have been read.
HashOf(n) == <<header.size + (in_pos - n - in_start) + check_size, out_pos - out_start>>

\* The index is compared with what the blocks are.
BlocksInv ==
    /\ blocks \in Seq([begin : Int, end : Int, out : Nat, size : Nat, bcj : BOOLEAN])
    /\ Linked(blocks, block_hash)
    /\ Len(block_hash) = Len(blocks) + (IF Closing THEN 1 ELSE 0)
    /\ pc \in {"run", "entrypoint"} => sequence = "stream_footer"
    /\ sequence \in {"index_crc32", "stream_footer"} => index_hash = block_hash
    /\ sequence = "block" => block_compressed = 0 /\ block_uncompressed = 0
    /\ Closing /\ sequence = "block_padding" =>
          block_hash[Len(block_hash)] = HashOf(0) /\ block_compressed = in_pos - in_start
    /\ Closing /\ sequence = "block_check" =>
          \E n \in 0..3 : block_hash[Len(block_hash)] = HashOf(n)

\* The filter has turned b->out to its own buffer, or is about to.
Turned == b_out = "temp" \/ pc = "bcj_temp"

\* Bytes of the dictionary that the position in the output does not count yet.
Unflushed == dict_pos - dict_start

\* The position in the output is that in the data.  In the filter's own buffer come the
\* bytes first that it has taken back from the output: an instruction cut in two.
PositionInv ==
    /\ Decoding => Written = OutPos + Unflushed
                               + (IF b_out = "temp" THEN out_pos
                                  ELSE IF pc = "bcj_temp" THEN bcj_size ELSE 0)
    /\ ~Decoding => Written = out_pos
    /\ Turned => /\ OutPos + bcj_size = OutSize /\ bcj_size < InstrSize
                 /\ OutPos - out_start = Whole(OutSize - out_start)
                 /\ b_out = "temp" => bcj_size <= out_pos
    /\ IF Decoding \/ pc = "block" \/ Closing
       THEN out_start = EndOf(blocks) ELSE out_pos = EndOf(blocks)
    /\ out_start <= Written

\* A dictionary that is not about to be reset is the block's own part of the output.
OwnDictInv ==
    /\ pc = "bcj" \/ (pc = "stream" /\ sequence = "block") => need_dict_reset
    /\ pc \in Lzma2Places /\ b_out = "out" /\ ~need_dict_reset =>
          /\ dict_buf = "out" /\ dict_base + dict_pos = Written
          /\ out_start <= dict_base

\* A block that is to be filtered is decoded by way of the filter, from its beginning.
FilterInv ==
    /\ pc \in Lzma2Places => (caller = "block" <=> ~bcj_active)
    /\ pc \in {"bcj", "bcj_filter", "bcj_temp", "bcj_restore"} => bcj_active
    /\ pc = "bcj" \/ (pc = "stream" /\ sequence = "block" /\ bcj_active) => bcj_pos = 0
    /\ pc = "bcj" => out_pos = out_start
    /\ pc = "bcj_filter" \/ (pc \in Lzma2Places /\ caller = "bcj_filter") =>
          bcj_pos = 0 /\ bcj_start = out_start

\* The bytes of f from lo on, up to hi, are those of the data v: not filtered ...
Raw(f, v, lo, hi) == \A x \in lo..(hi - 1) : f[x] = <<v[x + 1], 0>>

\* ... or filtered once, in a block that begins at a.
Taken(f, v, a, lo, hi) == \A x \in lo..(hi - 1) : f[x] = <<v[x + 1], x - a + 1>>

\* A block of n bytes lies at a, filtered if it is to be.
There(f, v, a, n, bcj) ==
    IF bcj THEN Taken(f, v, a, a, a + Whole(n)) /\ Raw(f, v, a + Whole(n), a + n)
    ELSE Raw(f, v, a, a + n)

AllThere(f, v, s) == \A i \in 1..Len(s) : There(f, v, s[i].out, s[i].size, s[i].bcj)

\* n bytes in f are those of v behind the first a, not filtered.
Waiting(f, v, a, n) == \A x \in 0..(n - 1) : f[x] = <<v[a + x + 1], 0>>

\* What is in the output, as long as no more has been decoded than it can hold.
BytesInv ==
    Written <= OutSize =>
        /\ AllThere(mem["out"], plain, blocks)
        /\ Closing \/ pc = "block" =>
              There(mem["out"], plain, out_start, out_pos - out_start, bcj_active)
        /\ Decoding /\ ~Turned => Raw(mem["out"], plain, out_start, Written)
        /\ Turned => /\ Taken(mem["out"], plain, out_start, out_start, OutPos)
                     /\ Waiting(mem["temp"], plain, OutPos, bcj_size)

DataInv == Alive => BlocksInv /\ PositionInv /\ OwnDictInv /\ FilterInv /\ BytesInv

-----------------------------------------------------------------------------
(* What becomes of bytes.                                                  *)

LEMMA NumbersKnownPrime == IInv' => Numbers'
  BY NumbersKnown, PTL

\* g and w go on where f and v are the same up to h.
LEMMA RawAgrees ==
    ASSUME NEW f, NEW g, NEW v, NEW w, NEW lo \in Nat, NEW hi \in Nat, NEW h \in Nat, hi <= h,
           \A x \in 0..(h - 1) : g[x] = f[x], \A x \in 1..h : w[x] = v[x],
           Raw(f, v, lo, hi)
    PROVE  Raw(g, w, lo, hi)
  <1>1. ASSUME NEW x \in lo..(hi - 1) PROVE g[x] = <<w[x + 1], 0>>
    <2>1. x \in 0..(h - 1) /\ x + 1 \in 1..h
      OBVIOUS
    <2>2. g[x] = f[x] /\ w[x + 1] = v[x + 1]
      BY <2>1
    <2>3. f[x] = <<v[x + 1], 0>>
      BY DEF Raw
    <2> QED
      BY <2>2, <2>3
  <1> QED
    BY <1>1 DEF Raw

LEMMA TakenAgrees ==
    ASSUME NEW f, NEW g, NEW v, NEW w, NEW a \in Nat, NEW lo \in Nat, NEW hi \in Nat,
           NEW h \in Nat, hi <= h,
           \A x \in 0..(h - 1) : g[x] = f[x], \A x \in 1..h : w[x] = v[x],
           Taken(f, v, a, lo, hi)
    PROVE  Taken(g, w, a, lo, hi)
  <1>1. ASSUME NEW x \in lo..(hi - 1) PROVE g[x] = <<w[x + 1], x - a + 1>>
    <2>1. x \in 0..(h - 1) /\ x + 1 \in 1..h
      OBVIOUS
    <2>2. g[x] = f[x] /\ w[x + 1] = v[x + 1]
      BY <2>1
    <2>3. f[x] = <<v[x + 1], x - a + 1>>
      BY DEF Taken
    <2> QED
      BY <2>2, <2>3
  <1> QED
    BY <1>1 DEF Taken

LEMMA ThereAgrees ==
    ASSUME NEW f, NEW g, NEW v, NEW w, NEW a \in Nat, NEW n \in Nat, NEW bcj,
           NEW h \in Nat, a + n <= h,
           \A x \in 0..(h - 1) : g[x] = f[x], \A x \in 1..h : w[x] = v[x],
           There(f, v, a, n, bcj)
    PROVE  There(g, w, a, n, bcj)
  <1>1. a + n \in Nat /\ a + Whole(n) \in Nat /\ a + Whole(n) <= h
    BY WholeNat
  <1>2. CASE bcj
    <2>1. Taken(f, v, a, a, a + Whole(n)) /\ Raw(f, v, a + Whole(n), a + n)
      BY <1>2, Zenon DEF There
    <2>2. Taken(g, w, a, a, a + Whole(n))
      BY <1>1, <2>1, TakenAgrees
    <2>3. Raw(g, w, a + Whole(n), a + n)
      BY <1>1, <2>1, RawAgrees
    <2> QED
      BY <1>2, <2>2, <2>3, Zenon DEF There
  <1>3. CASE ~bcj
    <2>1. Raw(f, v, a, a + n)
      BY <1>3, Zenon DEF There
    <2>2. Raw(g, w, a, a + n)
      BY <1>1, <2>1, RawAgrees
    <2> QED
      BY <1>3, <2>2, Zenon DEF There
  <1> QED
    BY <1>2, <1>3

\* A list of blocks.
Blocks == Seq([begin : Int, end : Int, out : Nat, size : Nat, bcj : BOOLEAN])

LEMMA BlockAt ==
    ASSUME NEW s \in Blocks, NEW i \in 1..Len(s)
    PROVE  s[i].out \in Nat /\ s[i].size \in Nat /\ s[i].begin \in Int /\ s[i].end \in Int
  <1>1. s[i] \in [begin : Int, end : Int, out : Nat, size : Nat, bcj : BOOLEAN]
    BY ElementOfSeq DEF Blocks
  <1> QED
    BY <1>1

LEMMA EndOfNat ==
    ASSUME NEW s \in Blocks
    PROVE  EndOf(s) \in Nat
  <1>1. Len(s) \in Nat
    BY LenProperties DEF Blocks
  <1>2. CASE Len(s) = 0
    BY <1>2 DEF EndOf
  <1>3. CASE Len(s) # 0
    <2>1. Len(s) \in 1..Len(s)
      BY <1>1, <1>3
    <2>2. s[Len(s)].out \in Nat /\ s[Len(s)].size \in Nat
      BY <2>1, BlockAt
    <2> QED
      BY <1>3, <2>2 DEF EndOf
  <1> QED
    BY <1>2, <1>3

\* What is written behind the blocks leaves them as they are.
LEMMA AllAgree ==
    ASSUME NEW f, NEW g, NEW v, NEW w, NEW s \in Blocks, NEW t, NEW h \in Nat,
           Linked(s, t), EndOf(s) <= h,
           \A x \in 0..(h - 1) : g[x] = f[x], \A x \in 1..h : w[x] = v[x],
           AllThere(f, v, s)
    PROVE  AllThere(g, w, s)
  <1>1. ASSUME NEW i \in 1..Len(s) PROVE There(g, w, s[i].out, s[i].size, s[i].bcj)
    <2> DEFINE a == s[i].out
               n == s[i].size
               bcj == s[i].bcj
    <2>1. a \in Nat /\ n \in Nat /\ EndOf(s) \in Nat
      BY BlockAt, EndOfNat
    <2>2. a + n <= EndOf(s)
      BY Zenon DEF Linked
    <2>3. There(f, v, a, n, bcj)
      BY Zenon DEF AllThere
    <2> HIDE DEF a, n, bcj
    <2>4. a + n <= h
      BY <2>1, <2>2
    <2>5. There(g, w, a, n, bcj)
      BY <2>1, <2>3, <2>4, ThereAgrees
    <2> QED
      BY <2>5 DEF a, n, bcj
  <1> QED
    BY <1>1, Zenon DEF AllThere

-----------------------------------------------------------------------------
(* Steps of xz_dec_lzma2_run.                                              *)

\* Where b->out stands during such a step, and behind it.
LEMMA Lzma2Turned ==
    ASSUME IInv, IInv', pc \in Lzma2Places, UNCHANGED <<caller, b_out, stream_vars>>,
           pc' \in Lzma2Places \/ pc' = caller
    PROVE  /\ Decoding /\ sequence = "block" /\ ~Closing /\ ~Closing'
           /\ Turned <=> b_out = "temp"
           /\ Turned' <=> b_out = "temp"
           /\ b_out = "temp" <=> caller = "bcj_restore"
           /\ pc' \in Lzma2Places \/ (pc' \in Callers /\ pc' = caller)
           /\ Alive' => (Decoding' <=> pc' # "block")
           /\ Alive' /\ pc' \notin Lzma2Places => dict_start' = dict_pos'
           /\ b_out \in {"out", "temp"}
  <1>1. /\ caller \in Callers /\ b_out \in {"out", "temp"}
        /\ b_out = "temp" <=> pc = "bcj_restore" \/ (pc \in Lzma2Places /\ caller = "bcj_restore")
    BY Zenon DEF IInv, BufInv, CallInv
  <1>2. sequence = "block"
    BY DEF IInv, StreamInv, Lzma2Places, Round, Over, Ends
  <1>3. Decoding
    BY DEF Decoding
  <1>4. /\ ~Closing /\ ~Closing'
        /\ Turned <=> b_out = "temp"
        /\ Turned' <=> b_out = "temp"
        /\ b_out = "temp" <=> caller = "bcj_restore"
    BY <1>1, <1>2 DEF Closing, Turned, Lzma2Places, Round, Callers
  <1>5. pc' \in Lzma2Places \/ (pc' \in Callers /\ pc' = caller)
    BY <1>1
  <1>6. Alive' => (Decoding' <=> pc' # "block")
    BY <1>5 DEF Alive, Decoding, Callers, Lzma2Places, Round
  <1>7. ASSUME Alive', pc' \notin Lzma2Places PROVE dict_start' = dict_pos'
    <2>1. ~Failed' /\ pc' \notin Round
      BY <1>5, <1>7 DEF Alive, Decoding, Decoded, Failed, Over, Ends, Callers, Lzma2Places, Round
    <2> QED
      BY <2>1, Zenon DEF IInv, RoundInv
  <1> QED
    BY <1>1, <1>2, <1>3, <1>4, <1>5, <1>6, <1>7, Zenon

LEMMA NothingLeft == \A x \in Nat : x - x = 0
  OBVIOUS

LEMMA FromTo ==
    ASSUME NEW x \in Nat, NEW y \in Nat
    PROVE  x + (y - x) = y
  OBVIOUS

\* A step that decodes n bytes and flushes m.
Moves(n, m) ==
    /\ Written' = Written + n /\ out_pos' = out_pos + m
    /\ Unflushed' = Unflushed + n - m

\* The dictionary is in its place, and the right bytes have been written.
BytesKept ==
    /\ b_out = "out" /\ ~need_dict_reset' =>
           /\ dict_buf' = "out" /\ dict_base' + dict_pos' = Written'
           /\ out_start <= dict_base'
    /\ Written' <= OutSize =>
           /\ AllThere(mem'["out"], plain', blocks)
           /\ b_out = "out" => Raw(mem'["out"], plain', out_start, Written')
           /\ b_out = "temp" => /\ plain' = plain
                                 /\ mem'["out"] = mem["out"] /\ mem'["temp"] = mem["temp"]

LEMMA Lzma2StepData ==
    ASSUME IInv, IInv', DataInv, pc \in Lzma2Places,
           UNCHANGED <<caller, b_out, out_size, bcj_vars, stream_vars>>,
           pc' \in Lzma2Places \/ pc' = caller,
           NEW n \in Nat, NEW m \in Nat, Moves(n, m), BytesKept
    PROVE  DataInv'
  <1> SUFFICES ASSUME Alive'
               PROVE  BlocksInv' /\ PositionInv' /\ OwnDictInv' /\ FilterInv' /\ BytesInv'
    BY Zenon DEF DataInv
  <1>0. Numbers /\ Numbers'
    BY NumbersKnown, NumbersKnownPrime
  <1>9. /\ out_pos \in Nat /\ Written \in Nat /\ out_pos' \in Nat /\ Written' \in Nat
        /\ out_start \in Nat /\ OutSize \in Nat
    BY <1>0, Zenon DEF Numbers
  <1>10. Unflushed \in Int /\ (dict_start' = dict_pos' => Unflushed' = 0)
    <2>1. Unflushed \in Int
      BY <1>0 DEF Numbers, Unflushed
    <2>2. dict_pos' \in Nat
      BY <1>0, Zenon DEF Numbers
    <2>3. dict_pos' - dict_pos' = 0
      BY <2>2, NothingLeft, Zenon
    <2>4. Unflushed' = dict_pos' - dict_start'
      BY DEF Unflushed
    <2> QED
      BY <2>1, <2>3, <2>4
  <1>1. /\ Decoding /\ sequence = "block" /\ ~Closing /\ ~Closing'
        /\ Turned <=> b_out = "temp"
        /\ Turned' <=> b_out = "temp"
        /\ b_out = "temp" <=> caller = "bcj_restore"
        /\ pc' \in Lzma2Places \/ (pc' \in Callers /\ pc' = caller)
        /\ Decoding' <=> pc' # "block"
        /\ pc' \notin Lzma2Places => dict_start' = dict_pos'
        /\ b_out \in {"out", "temp"}
    BY Lzma2Turned, Zenon
  <1>2. BlocksInv /\ PositionInv /\ OwnDictInv /\ FilterInv /\ BytesInv
    BY <1>1, Zenon DEF DataInv, Alive
  <1>3. OutSize' = OutSize /\ pc # "bcj_temp" /\ pc' # "bcj_temp" /\ pc # "block"
    BY <1>1 DEF OutSize, Lzma2Places, Round, Callers
  <1>4. BlocksInv'
    <2>1. pc' \notin {"stream", "run", "entrypoint"}
      BY <1>1 DEF Lzma2Places, Round, Callers
    <2> QED
      BY <1>1, <1>2, <2>1 DEF BlocksInv
  <1>5. PositionInv'
    <2>1. /\ Written = OutPos + Unflushed + (IF b_out = "temp" THEN out_pos ELSE 0)
          /\ out_start = EndOf(blocks) /\ out_start <= Written
      BY <1>1, <1>2, <1>3 DEF PositionInv
    <2>2. OutPos' = IF b_out = "temp" THEN OutPos ELSE out_pos + m
      BY <1>1 DEF OutPos, Moves
    <2>3. OutPos = IF b_out = "temp" THEN OutPos ELSE out_pos
      BY <1>1 DEF OutPos
    <2>4. OutPos \in Nat
      BY <1>0, <1>1 DEF OutPos, Numbers
    <2>5. Written' = OutPos' + Unflushed' + (IF b_out = "temp" THEN out_pos' ELSE 0)
      BY <1>1, <1>9, <1>10, <2>1, <2>2, <2>3, <2>4 DEF Moves
    <2>6. ~Decoding' => Written' = out_pos'
      <3>1. ASSUME ~Decoding' PROVE b_out = "out" /\ Unflushed' = 0
        BY <1>1, <1>10, <3>1 DEF Callers, Lzma2Places, Round
      <3> QED
        BY <1>9, <2>2, <2>5, <3>1 DEF Moves
    <2>7. b_out = "temp" =>
              /\ OutPos' + bcj_size = OutSize /\ bcj_size < InstrSize
              /\ OutPos' - out_start = Whole(OutSize - out_start)
              /\ bcj_size <= out_pos'
      <3>1. bcj_size \in Nat
        BY BcjAssumption, XzBufAssumption DEF IInv, BcjTypeOK
      <3> QED
        BY <1>1, <1>2, <1>9, <2>2, <3>1 DEF PositionInv, Moves
    <2>8. out_start <= Written'
      BY <1>9, <2>1 DEF Moves
    <2> QED
      BY <1>1, <1>3, <2>1, <2>5, <2>6, <2>7, <2>8 DEF PositionInv
  <1>6. OwnDictInv'
    BY <1>1 DEF BytesKept, OwnDictInv, Callers, Lzma2Places, Round
  <1>7. FilterInv'
    BY <1>1, <1>2 DEF FilterInv, Callers, Lzma2Places, Round
  <1>8. BytesInv'
    <2> SUFFICES ASSUME Written' <= OutSize
                 PROVE  /\ AllThere(mem["out"], plain, blocks)'
                        /\ pc' = "block" => There(mem["out"], plain, out_start,
                                                  out_pos - out_start, bcj_active)'
                        /\ b_out = "out" => Raw(mem["out"], plain, out_start, Written)'
                        /\ b_out = "temp" =>
                              /\ Taken(mem["out"], plain, out_start, out_start, OutPos)'
                              /\ Waiting(mem["temp"], plain, OutPos, bcj_size)'
      BY <1>1, <1>3, Zenon DEF BytesInv
    <2>1. /\ AllThere(mem'["out"], plain', blocks)
          /\ b_out = "out" => Raw(mem'["out"], plain', out_start, Written')
          /\ b_out = "temp" => /\ plain' = plain
                                 /\ mem'["out"] = mem["out"] /\ mem'["temp"] = mem["temp"]
      BY DEF BytesKept
    <2>2. ASSUME pc' = "block" PROVE There(mem["out"], plain, out_start, out_pos - out_start, bcj_active)'
      <3>1. caller = "block" /\ b_out = "out" /\ ~bcj_active
        BY <1>1, <1>2, <2>2 DEF FilterInv, Lzma2Places, Round, Callers
      <3>2. Written' = out_pos'
        BY <1>1, <1>5, <2>2 DEF PositionInv
      <3>3. out_start + (out_pos' - out_start) = out_pos'
        BY <1>9, FromTo, Zenon
      <3> QED
        BY <2>1, <3>1, <3>2, <3>3, Zenon DEF There
    <2>3. ASSUME b_out = "temp"
          PROVE  /\ Taken(mem["out"], plain, out_start, out_start, OutPos)'
                 /\ Waiting(mem["temp"], plain, OutPos, bcj_size)'
      <3>1. Written <= OutSize
        BY <1>9 DEF Moves
      <3>2. OutPos' = OutPos
        BY <2>3 DEF OutPos
      <3> QED
        BY <1>1, <1>2, <2>1, <2>3, <3>1, <3>2, Zenon DEF BytesInv
    <2> QED
      BY <2>1, <2>2, <2>3, Zenon
  <1> QED
    BY <1>4, <1>5, <1>6, <1>7, <1>8

\* A step that only reads.
LEMMA QuietData ==
    ASSUME IInv, IInv', DataInv, pc \in Lzma2Places,
           UNCHANGED <<caller, output, mem, plain, dict_buf, dict_base, dict_start, dict_pos,
                       need_dict_reset, bcj_vars, stream_vars>>,
           pc' \in Lzma2Places \/ pc' = caller
    PROVE  DataInv'
  <1>0. Numbers
    BY NumbersKnown
  <1>1. /\ Decoding /\ ~Closing
        /\ Turned <=> b_out = "temp"
        /\ b_out \in {"out", "temp"}
    BY Lzma2Turned, Zenon
  <1>2. PositionInv /\ OwnDictInv /\ BytesInv
    BY <1>1, Zenon DEF DataInv, Alive
  <1>3. Written' = Written
    BY DEF Written
  <1>4. BytesKept
    BY <1>1, <1>2, <1>3 DEF BytesKept, OwnDictInv, BytesInv
  <1>5. Moves(0, 0)
    BY <1>0, <1>3 DEF Numbers, Unflushed, Moves
  <1> QED
    BY <1>4, <1>5, Lzma2StepData

\* The steps that only read, or look at what they have read.
Quiet ==
    /\ pc \in Lzma2Places /\ pc' \in Lzma2Places \cup {caller}
    /\ UNCHANGED <<caller, output, mem, plain, dict_buf, dict_base, dict_start, dict_pos,
                   need_dict_reset>>

LEMMA QuietSteps ==
    /\ LoopEnd \/ ControlEnd \/ ControlRejected \/ SizeCutOff \/ UncompressedSize => Quiet
    /\ CompressedSize \/ PropertiesBad \/ Properties \/ Prepare \/ RunLimit => Quiet
    /\ CopyBegin \/ CopyEnd \/ TempSkip \/ TempFill \/ Direct \/ Save \/ MainEnd => Quiet
  <1>1. LoopEnd \/ ControlEnd \/ ControlRejected \/ SizeCutOff \/ UncompressedSize => Quiet
    BY DEF LoopEnd, ControlEnd, ControlRejected, SizeCutOff, UncompressedSize, Runs, In, Return,
           Quiet, Lzma2Places
  <1>2. CompressedSize \/ PropertiesBad \/ Properties \/ RunLimit => Quiet
    BY DEF CompressedSize, PropertiesBad, Properties, RunLimit, Runs, In, Return, Goto,
           Quiet, Lzma2Places, Round
  <1>3. Prepare => Quiet
    BY DEF Prepare, Runs, In, Return, Goto, Quiet, Lzma2Places
  <1>4. CopyBegin \/ CopyEnd \/ TempSkip \/ Direct \/ Save => Quiet
    BY DEF CopyBegin, CopyEnd, TempSkip, Direct, Save, Runs, In, Return, Goto, Quiet,
           Lzma2Places, Round
  <1>5. TempFill => Quiet
    BY DEF TempFill, Goto, Quiet, Lzma2Places, Round
  <1>6. MainEnd => Quiet
    <2> SUFFICES ASSUME MainEnd PROVE Quiet
      OBVIOUS
    <2>1. /\ pc = "symbols" /\ caller' = caller
          /\ pc' \in {caller, "flush", "direct", "save"}
      BY Zenon DEF MainEnd, Return, Goto
    <2>2. UNCHANGED <<output, mem, plain, dict_buf, dict_base, dict_start, dict_pos,
                      need_dict_reset>>
      BY DEF MainEnd
    <2> QED
      BY <2>1, <2>2 DEF Quiet, Lzma2Places, Round
  <1> QED
    BY <1>1, <1>2, <1>3, <1>4, <1>5, <1>6

LEMMA QuietKeepsData ==
    ASSUME IInv, IInv', DataInv, UNCHANGED <<bcj_vars, stream_vars>>, Quiet
    PROVE  DataInv'
  BY QuietData DEF Quiet

\* A reset of the dictionary lets it begin where the data has come to.
LEMMA ControlChunkData ==
    ASSUME IInv, IInv', DataInv, ControlChunk, UNCHANGED <<bcj_vars, stream_vars>>
    PROVE  DataInv'
  <1>0. Numbers
    BY NumbersKnown
  <1>1. /\ pc = "lzma2" /\ pc' = "lzma2" /\ pc \in Lzma2Places /\ pc' \in Lzma2Places
        /\ UNCHANGED <<output, caller, mem, plain>>
    BY DEF ControlChunk, Runs, In, Lzma2Places
  <1>2. /\ Decoding /\ ~Closing
        /\ Turned <=> b_out = "temp"
        /\ b_out \in {"out", "temp"}
    BY <1>1, Lzma2Turned, Zenon
  <1>3. PositionInv /\ OwnDictInv /\ BytesInv
    BY <1>2, Zenon DEF DataInv, Alive
  <1>4. Written' = Written
    BY <1>1 DEF Written
  <1>5. dict_start = dict_pos
    BY <1>1 DEF IInv, RoundInv, Round, Failed, Over, Ends, Callers
  <1>6. Unflushed = 0
    BY <1>0, <1>5, NothingLeft, Zenon DEF Unflushed, Numbers
  <1>7. \/ /\ UNCHANGED <<dict_buf, dict_base, dict_start, dict_pos>>
           /\ ~need_dict_reset
        \/ /\ dict_buf' = b_out /\ dict_base' = out_pos
           /\ dict_start' = 0 /\ dict_pos' = 0
    BY DEF ControlChunk, Rejected, dict_reset
  <1>8. Unflushed' = 0
    <2>1. CASE UNCHANGED <<dict_buf, dict_base, dict_start, dict_pos>>
      BY <1>6, <2>1 DEF Unflushed
    <2>2. CASE dict_start' = 0 /\ dict_pos' = 0
      BY <2>2 DEF Unflushed
    <2> QED
      BY <1>7, <2>1, <2>2
  <1>9. Moves(0, 0)
    BY <1>0, <1>1, <1>4, <1>6, <1>8 DEF Numbers, Moves
  <1>10. b_out = "out" =>
            /\ dict_buf' = "out" /\ dict_base' + dict_pos' = Written /\ out_start <= dict_base'
    <2>1. CASE UNCHANGED <<dict_buf, dict_base, dict_start, dict_pos>> /\ ~need_dict_reset
      BY <1>1, <1>3, <2>1 DEF OwnDictInv
    <2>2. CASE /\ dict_buf' = b_out /\ dict_base' = out_pos
               /\ dict_start' = 0 /\ dict_pos' = 0
      <3>1. b_out = "out" => Written = out_pos /\ out_start <= out_pos
        BY <1>0, <1>1, <1>2, <1>3, <1>6 DEF PositionInv, OutPos, Numbers
      <3> QED
        BY <1>0, <2>2, <3>1 DEF Numbers
    <2> QED
      BY <1>7, <2>1, <2>2
  <1>11. BytesKept
    BY <1>1, <1>2, <1>3, <1>4, <1>10 DEF BytesKept, BytesInv
  <1> QED
    BY <1>1, <1>9, <1>11, Lzma2StepData

LEMMA FlushData ==
    ASSUME IInv, IInv', DataInv, Flush, UNCHANGED <<bcj_vars, stream_vars>>
    PROVE  DataInv'
  <1>0. Numbers
    BY NumbersKnown
  <1> DEFINE n == dict_pos - dict_start
  <1>1. /\ pc = "flush" /\ pc \in Lzma2Places /\ pc' \in Lzma2Places \cup {caller}
        /\ out_pos' = out_pos + n /\ dict_start' = dict_pos
        /\ UNCHANGED <<b_out, out_size, caller, place, write, needs>>
    BY DEF Flush, Return, Goto, Lzma2Places, Round
  <1>2. /\ Decoding /\ ~Closing
        /\ Turned <=> b_out = "temp"
        /\ b_out \in {"out", "temp"}
    BY <1>1, Lzma2Turned, Zenon
  <1>3. PositionInv /\ OwnDictInv /\ BytesInv
    BY <1>2, Zenon DEF DataInv, Alive
  <1>4. Written' = Written
    BY <1>1 DEF Written
  <1>5. n \in Nat /\ Unflushed = n
    BY <1>0 DEF IInv, DictInv, Numbers, Unflushed
  <1>6. Unflushed' = 0
    <2>1. dict_pos' = dict_pos /\ dict_start' = dict_pos /\ dict_pos \in Nat
      BY <1>0, <1>1 DEF Numbers
    <2> QED
      BY <2>1, NothingLeft DEF Unflushed
  <1> HIDE DEF n
  <1>7. Moves(0, n)
    BY <1>0, <1>1, <1>4, <1>5, <1>6 DEF Numbers, Moves
  <1>8. BytesKept
    BY <1>1, <1>2, <1>3, <1>4 DEF BytesKept, OwnDictInv, BytesInv
  <1> QED
    BY <1>1, <1>5, <1>7, <1>8, Lzma2StepData

\* A turned b->out has as much behind it as the output can hold, or more.
LEMMA TurnedIsFull ==
    ASSUME IInv, PositionInv, Decoding, b_out = "temp"
    PROVE  OutSize <= Written
  <1>0. Numbers
    BY NumbersKnown
  <1>1. /\ Written = OutPos + Unflushed + out_pos
        /\ OutPos + bcj_size = OutSize /\ bcj_size <= out_pos
    BY DEF PositionInv, Turned
  <1>2. bcj_size \in Nat /\ OutPos \in Nat /\ out_pos \in Nat
    BY <1>0, XzBufAssumption DEF Numbers, OutPos, IInv, BcjTypeOK
  <1>3. Unflushed \in Nat
    BY <1>0 DEF Numbers, Unflushed, IInv, DictInv
  <1> QED
    BY <1>1, <1>2, <1>3

\* What is put into the dictionary lands behind the data, or is nothing.
LEMMA PutBytes ==
    ASSUME IInv, DataInv, pc \in Lzma2Places, ~need_dict_reset,
           NEW n \in Nat, NEW v, NEW more \in Seq(Nat), DictPut(v, n), Put(n),
           Len(more) = n, plain' = plain \o more,
           b_out = "out" => \A j \in 0..(n - 1) : v[j] = <<more[j + 1], 0>>,
           UNCHANGED <<b_out, place, needs>>
    PROVE  BytesKept
  <1>0. Numbers
    BY NumbersKnown
  <1>1. Decoding /\ b_out \in {"out", "temp"} /\ pc # "block" /\ ~Closing /\ pc # "bcj_temp"
    BY DEF Decoding, IInv, BufInv, Lzma2Places, Round, Closing
  <1>2. BlocksInv /\ PositionInv /\ OwnDictInv /\ BytesInv
    BY <1>1, Zenon DEF DataInv, Alive
  <1>3. Written' = Written + n /\ Written \in Nat /\ OutSize \in Nat /\ out_start \in Nat
    BY <1>0, Zenon DEF Numbers, Put
  <1>4. /\ out_start = EndOf(blocks) /\ out_start <= Written
    BY <1>1, <1>2 DEF PositionInv
  <1>5. b_out = "out" => dict_buf = "out" /\ dict_base + dict_pos = Written /\ out_start <= dict_base
    BY <1>2 DEF OwnDictInv
  <1>6. b_out = "out" =>
            /\ dict_buf' = "out" /\ dict_base' + dict_pos' = Written' /\ out_start <= dict_base'
    <2>1. dict_pos' = dict_pos + n
      BY DEF Put
    <2> QED
      BY <1>0, <1>3, <1>5, <2>1 DEF Numbers
  <1>7. /\ mem["out"] \in [0..(OutSize - 1) -> Byte] /\ mem["temp"] \in [0..(TempSize - 1) -> Byte]
        /\ DOMAIN mem = {"out", "temp"} /\ dict_buf \in {"out", "temp"}
        /\ plain \in Seq(Nat)
    BY DEF IInv, MemInv, Lzma2TypeOK
  <1>8. /\ \A x \in 1..Written : plain'[x] = plain[x]
        /\ \A x \in (Written + 1)..(Written + n) : plain'[x] = more[x - Written]
    BY <1>3, <1>7, ConcatProperties DEF Written
  <1>9. ASSUME Written' <= OutSize, b_out = "out"
        PROVE  /\ AllThere(mem'["out"], plain', blocks)
               /\ Raw(mem'["out"], plain', out_start, Written')
    <2>1. /\ AllThere(mem["out"], plain, blocks) /\ Raw(mem["out"], plain, out_start, Written)
      BY <1>1, <1>2, <1>3, <1>9 DEF BytesInv, Turned
    <2>2. mem'["out"] = [x \in 0..(OutSize - 1) |->
                            IF Within(x, Written, n) THEN v[x - Written] ELSE mem["out"][x]]
      BY <1>5, <1>7, <1>9 DEF DictPut
    <2>3. \A x \in 0..(Written - 1) : mem'["out"][x] = mem["out"][x]
      BY <1>3, <1>9, <2>2 DEF Within
    <2>4. ASSUME NEW x \in Written..(Written + n - 1)
          PROVE  mem'["out"][x] = <<plain'[x + 1], 0>>
      <3>1. x - Written \in 0..(n - 1) /\ x \in 0..(OutSize - 1) /\ Within(x, Written, n)
        BY <1>3, <1>9 DEF Within
      <3>2. mem'["out"][x] = v[x - Written]
        BY <2>2, <3>1
      <3>3. v[x - Written] = <<more[(x - Written) + 1], 0>>
        BY <1>9, <3>1
      <3>4. x + 1 \in (Written + 1)..(Written + n) /\ (x - Written) + 1 = (x + 1) - Written
        BY <1>3
      <3>5. plain'[x + 1] = more[(x + 1) - Written]
        BY <1>8, <3>4
      <3> QED
        BY <3>2, <3>3, <3>4, <3>5
    <2> DEFINE f == mem["out"]
               g == mem'["out"]
               w == plain'
               h == Written
    <2>5. /\ AllThere(g, w, blocks) /\ Raw(g, w, out_start, h)
      <3>1. blocks \in Blocks /\ Linked(blocks, block_hash)
        BY <1>2, Zenon DEF BlocksInv, Blocks
      <3>2. h \in Nat /\ EndOf(blocks) <= h /\ out_start \in Nat /\ h <= h
        BY <1>3, <1>4
      <3>3. AllThere(f, plain, blocks) /\ Raw(f, plain, out_start, h)
        BY <2>1
      <3>4. \A x \in 0..(h - 1) : g[x] = f[x]
        BY <2>3
      <3>5. \A x \in 1..h : w[x] = plain[x]
        BY <1>8
      <3> HIDE DEF f, g, w, h
      <3>6. AllThere(g, w, blocks)
        BY <3>1, <3>2, <3>3, <3>4, <3>5, AllAgree
      <3>7. Raw(g, w, out_start, h)
        BY <3>2, <3>3, <3>4, <3>5, RawAgrees
      <3> QED
        BY <3>6, <3>7
    <2>6. Raw(mem'["out"], plain', out_start, Written)
      BY <2>5
    <2>7. ASSUME NEW x \in out_start..(Written' - 1) PROVE mem'["out"][x] = <<plain'[x + 1], 0>>
      <3>1. x \in out_start..(Written - 1) \/ x \in Written..(Written + n - 1)
        BY <1>3
      <3> QED
        BY <2>4, <2>6, <3>1 DEF Raw
    <2> QED
      BY <2>5, <2>7 DEF Raw
  <1>10. ASSUME Written' <= OutSize, b_out = "temp"
         PROVE  /\ AllThere(mem'["out"], plain', blocks)
                /\ plain' = plain /\ mem'["out"] = mem["out"] /\ mem'["temp"] = mem["temp"]
    <2>1. n = 0 /\ Written <= OutSize
      BY <1>1, <1>2, <1>3, <1>10, TurnedIsFull
    <2>2. more = <<>>
      BY <2>1, EmptySeq
    <2>3. plain' = plain
      BY <1>7, <2>2, ConcatEmptySeq
    <2>4. mem' = [mem EXCEPT ![dict_buf] = [x \in DOMAIN mem[dict_buf] |-> mem[dict_buf][x]]]
      <3>1. \A x \in DOMAIN mem[dict_buf] : ~Within(x, dict_base + dict_pos, n)
        <4>1. DOMAIN mem[dict_buf] \subseteq Int
          <5>1. TempSize \in Nat
            BY XzBufAssumption
          <5>2. DOMAIN mem["out"] \subseteq Int /\ DOMAIN mem["temp"] \subseteq Int
            BY <1>3, <1>7, <5>1
          <5> QED
            BY <1>7, <5>2
        <4>2. \A x \in Int : ~Within(x, dict_base + dict_pos, n)
          BY <1>0, <2>1 DEF Numbers, Within
        <4> QED
          BY <4>1, <4>2
      <3> QED
        BY <3>1 DEF DictPut
    <2>5. [x \in DOMAIN mem[dict_buf] |-> mem[dict_buf][x]] = mem[dict_buf]
      BY <1>7
    <2>6. mem'["out"] = mem["out"] /\ mem'["temp"] = mem["temp"]
      BY <1>7, <2>4, <2>5
    <2>7. AllThere(mem["out"], plain, blocks)
      BY <1>2, <2>1, Zenon DEF BytesInv
    <2> QED
      BY <2>3, <2>6, <2>7
  <1> QED
    BY <1>1, <1>6, <1>9, <1>10 DEF BytesKept

\* Bytes that the packed data holds.
LEMMA NewData ==
    ASSUME IInv, DataInv, pc \in Lzma2Places, ~need_dict_reset,
           NEW n \in Nat, DictPutNew(n), UNCHANGED <<b_out, place, needs>>
    PROVE  Put(n) /\ BytesKept
  <1> DEFINE v == NewBytes(n)
             more == [j \in 1..n |-> Len(plain) + j]
  <1>1. Len(plain) \in Nat
    BY NumbersKnown DEF Numbers, Written
  <1>2. Put(n)
    BY PutNew
  <1>3. DictPut(v, n) /\ plain' = plain \o more
    BY DEF DictPutNew
  <1>4. more \in Seq(Nat) /\ Len(more) = n
    BY <1>1
  <1>5. ASSUME NEW j \in 0..(n - 1) PROVE v[j] = <<more[j + 1], 0>>
    <2>1. v[j] = <<Len(plain) + 1 + j, 0>>
      BY DEF NewBytes
    <2>2. j + 1 \in 1..n
      OBVIOUS
    <2>3. more[j + 1] = Len(plain) + (j + 1)
      BY <2>2
    <2>4. Len(plain) + 1 + j = Len(plain) + (j + 1)
      BY <1>1
    <2> QED
      BY <2>1, <2>3, <2>4, Zenon
  <1> HIDE DEF v, more
  <1>6. BytesKept
    BY <1>2, <1>3, <1>4, <1>5, PutBytes
  <1> QED
    BY <1>2, <1>6

\* Bytes that a match repeats: they are of the block, for the dictionary is.
LEMMA OldData ==
    ASSUME IInv, DataInv, pc \in Lzma2Places, ~need_dict_reset,
           NEW dist \in Nat, NEW n \in Nat, DictRepeat(dist, n), dist < dict_full,
           UNCHANGED <<b_out, place, needs>>
    PROVE  Put(n) /\ BytesKept
  <1> DEFINE back == dict_pos - dist - 1
             from(j) == dict_base + back + (j % (dist + 1))
             old(j) == Len(plain) - dist + ((j - 1) % (dist + 1))
             v == [j \in 0..(n - 1) |-> mem[dict_buf][from(j)]]
             more == [j \in 1..n |-> plain[old(j)]]
  <1>0. Numbers
    BY NumbersKnown
  <1>1. /\ Written \in Nat /\ dict_pos \in Nat /\ dict_base \in Nat /\ out_start \in Nat
        /\ OutSize \in Nat /\ dist + 1 \in Nat \ {0} /\ dist < dict_pos /\ dict_pos <= Written
        /\ dict_pos <= dict_end /\ dict_end \in Nat
        /\ dict_buf = "out" => dict_base + dict_end <= OutSize
    BY <1>0 DEF Numbers, IInv, DictInv
  <1>2. ASSUME NEW x \in Nat, NEW d \in Nat \ {0} PROVE x % d \in Nat /\ x % d < d
    OBVIOUS
  <1>3. Put(n)
    BY PutOld
  <1>4. DictPut(v, n) /\ plain' = plain \o more
    BY DEF DictRepeat
  <1>5. more \in Seq(Nat) /\ Len(more) = n
    <2>1. ASSUME NEW j \in 1..n PROVE plain[old(j)] \in Nat
      <3>1. j - 1 \in Nat
        OBVIOUS
      <3>2. (j - 1) % (dist + 1) \in Nat /\ (j - 1) % (dist + 1) < dist + 1
        BY <1>1, <1>2, <3>1
      <3>3. old(j) \in 1..Len(plain)
        BY <1>1, <3>2 DEF Written
      <3> QED
        BY <3>3, ElementOfSeq DEF IInv, Lzma2TypeOK
    <2> QED
      BY <2>1
  <1>6. Decoding /\ (b_out = "out" => ~Turned)
    BY DEF Decoding, Turned, Lzma2Places, Round
  <1>7. OwnDictInv /\ BytesInv
    BY <1>6, Zenon DEF DataInv, Alive
  <1>8. ASSUME b_out = "out" PROVE \A j \in 0..(n - 1) : v[j] = <<more[j + 1], 0>>
    <2>1. dict_buf = "out" /\ dict_base + dict_pos = Written /\ out_start <= dict_base
      BY <1>7, <1>8 DEF OwnDictInv
    <2>2. Written <= OutSize
      BY <1>1, <2>1
    <2>3. Raw(mem["out"], plain, out_start, Written)
      BY <1>6, <1>7, <1>8, <2>2, Zenon DEF BytesInv
    <2>4. ASSUME NEW j \in 0..(n - 1) PROVE v[j] = <<more[j + 1], 0>>
      <3> DEFINE r == j % (dist + 1)
                 x == from(j)
      <3>1. r \in Nat /\ r < dist + 1
        BY <1>1, <1>2
      <3>2. v[j] = mem["out"][x] /\ x = dict_base + back + r
        BY <2>1
      <3>3. more[j + 1] = plain[Len(plain) - dist + r]
        <4>1. j + 1 \in 1..n /\ (j + 1) - 1 = j
          OBVIOUS
        <4>2. more[j + 1] = plain[Len(plain) - dist + (((j + 1) - 1) % (dist + 1))]
          BY <4>1
        <4> QED
          BY <4>1, <4>2, Zenon
      <3> HIDE DEF r, x, v, more
      <3>4. x \in out_start..(Written - 1) /\ Written - dist + r = x + 1
        BY <1>1, <2>1, <3>1, <3>2
      <3>5. mem["out"][x] = <<plain[x + 1], 0>>
        BY <2>3, <3>4 DEF Raw
      <3> QED
        BY <3>2, <3>3, <3>4, <3>5, Zenon DEF Written
    <2> QED
      BY <2>4
  <1> HIDE DEF v, more
  <1>9. BytesKept
    BY <1>3, <1>4, <1>5, <1>8, PutBytes
  <1> QED
    BY <1>3, <1>9

\* A match for as far as there is space.
LEMMA RepeatData ==
    ASSUME IInv, DataInv, pc \in Lzma2Places, ~need_dict_reset,
           NEW dist \in Nat, NEW n \in Nat, Repeat(dist, n), dist < dict_full,
           dict_pos <= dict_limit, UNCHANGED <<b_out, place, needs>>
    PROVE  \E left \in Nat : Put(left) /\ BytesKept
  <1> DEFINE left == Least(dict_limit - dict_pos, n)
  <1>1. left \in Nat
    <2>1. dict_limit - dict_pos \in Nat
      BY NumbersKnown DEF Numbers
    <2> QED
      BY <2>1, LeastNat
  <1>2. DictRepeat(dist, left)
    BY DEF Repeat
  <1> HIDE DEF left
  <1>3. Put(left) /\ BytesKept
    BY <1>1, <1>2, OldData
  <1> QED
    BY <1>1, <1>3

\* Within a round, what is written is not flushed.
LEMMA PutMoves ==
    ASSUME IInv, NEW n \in Nat, Put(n), UNCHANGED <<out_pos, dict_start>>
    PROVE  Moves(n, 0)
  <1>0. Numbers
    BY NumbersKnown
  <1>1. out_pos \in Nat /\ dict_pos \in Nat /\ dict_start \in Nat
    BY <1>0, Zenon DEF Numbers
  <1>2. Written' = Written + n /\ dict_pos' = dict_pos + n
    BY DEF Put
  <1>3. Unflushed' = (dict_pos + n) - dict_start
    BY <1>2 DEF Unflushed
  <1>4. (dict_pos + n) - dict_start = Unflushed + n - 0
    BY <1>1 DEF Unflushed
  <1>5. out_pos' = out_pos + 0
    BY <1>1
  <1> QED
    BY <1>2, <1>3, <1>4, <1>5, Zenon DEF Moves

\* Where symbols are decoded, the dictionary has been reset.
LEMMA DictKnown ==
    ASSUME IInv, pc \in Round \cup {"copy"}
    PROVE  ~need_dict_reset /\ pc \in Lzma2Places
  <1>1. lzma2_seq \in {"lzma_run", "copy"}
    BY DEF IInv, PlaceInv
  <1> QED
    BY <1>1 DEF IInv, NeedInv, Lzma2Places

LEMMA CopySomeData ==
    ASSUME IInv, IInv', DataInv, CopySome, UNCHANGED <<bcj_vars, stream_vars>>
    PROVE  DataInv'
  <1> DEFINE n == Least(Least(in_avail, out_avail), Least(dict_end - dict_pos, compressed))
  <1>0. Numbers
    BY NumbersKnown
  <1>1. n \in Nat
    <2>1. in_avail \in Nat /\ out_avail \in Nat /\ dict_end - dict_pos \in Nat /\ compressed \in Nat
      BY <1>0 DEF Numbers, IInv, DictInv
    <2> QED
      BY <2>1, LeastNat
  <1>2. /\ pc = "copy" /\ pc' = pc /\ DictPutNew(n)
        /\ out_pos' = out_pos + n /\ dict_start' = dict_pos'
        /\ UNCHANGED <<b_out, out_size, caller, place, needs>>
    BY DEF CopySome
  <1> HIDE DEF n
  <1>3. ~need_dict_reset /\ pc \in Lzma2Places
    BY <1>2, DictKnown
  <1>4. Put(n) /\ BytesKept
    BY <1>1, <1>2, <1>3, NewData
  <1>5. dict_start = dict_pos
    BY <1>2 DEF IInv, RoundInv, Round, Failed, Over, Ends, Callers
  <1>6. Moves(n, n)
    <2>1. Unflushed = 0
      BY <1>0, <1>5, NothingLeft, Zenon DEF Unflushed, Numbers
    <2>2. Unflushed' = 0
      <3>1. dict_pos' = dict_pos + n /\ dict_pos + n \in Nat
        BY <1>0, <1>1, <1>4 DEF Put, Numbers
      <3>2. Unflushed' = (dict_pos + n) - (dict_pos + n)
        BY <1>2, <3>1 DEF Unflushed
      <3> QED
        BY <3>1, <3>2, NothingLeft
    <2> QED
      BY <1>1, <1>2, <1>4, <2>1, <2>2 DEF Moves, Put
  <1> QED
    BY <1>1, <1>2, <1>3, <1>4, <1>6, Lzma2StepData

\* A step within lzma_main that has written.
LEMMA SymbolData ==
    ASSUME IInv, IInv', DataInv, pc \in Lzma2Places, pc' \in Lzma2Places,
           UNCHANGED <<caller, output, dict_start, bcj_vars, stream_vars>>,
           NEW n \in Nat, Put(n), BytesKept
    PROVE  DataInv'
  <1>1. Moves(n, 0)
    BY PutMoves
  <1> QED
    BY <1>1, Lzma2StepData

LEMMA PendingData ==
    ASSUME IInv, IInv', DataInv, Pending, UNCHANGED <<bcj_vars, stream_vars>>
    PROVE  DataInv'
  <1>1. /\ pc = "lzma_main" /\ pc' = "symbols"
        /\ UNCHANGED <<caller, b, place, needs, dict_start, dict_limit>>
    BY DEF Pending, Goto
  <1>2. ~need_dict_reset /\ pc \in Lzma2Places /\ pc' \in Lzma2Places
    BY <1>1, DictKnown DEF Round, Lzma2Places
  <1>3. CASE Repeat(rep0, len) /\ DistanceOk(rep0)
    <2>1. rep0 \in Nat /\ len \in Nat /\ rep0 < dict_full /\ dict_pos <= dict_limit
      BY <1>1, <1>3, NumbersKnown DEF Numbers, DistanceOk, IInv, RoundInv, Round
    <2>2. PICK left \in Nat : Put(left) /\ BytesKept
      BY <1>1, <1>2, <1>3, <2>1, RepeatData
    <2> QED
      BY <1>1, <1>2, <2>2, SymbolData
  <1>4. CASE UNCHANGED <<write, len>>
    <2>1. Quiet
      BY <1>1, <1>2, <1>4 DEF Quiet
    <2> QED
      BY <2>1, QuietKeepsData
  <1> QED
    BY <1>3, <1>4 DEF Pending

LEMMA LiteralData ==
    ASSUME IInv, IInv', DataInv, Literal, UNCHANGED <<bcj_vars, stream_vars>>
    PROVE  DataInv'
  <1>1. /\ pc = "symbols" /\ pc' = "symbols" /\ DictPutNew(1)
        /\ UNCHANGED <<caller, b, place, needs, dict_start>>
    BY DEF Literal, Symbol
  <1>2. ~need_dict_reset /\ pc \in Lzma2Places /\ pc' \in Lzma2Places
    BY <1>1, DictKnown DEF Round, Lzma2Places
  <1>3. Put(1) /\ BytesKept
    BY <1>1, <1>2, NewData
  <1> QED
    BY <1>1, <1>2, <1>3, SymbolData

LEMMA MatchData ==
    ASSUME IInv, IInv', DataInv, Match, UNCHANGED <<bcj_vars, stream_vars>>
    PROVE  DataInv'
  <1>1. /\ pc = "symbols" /\ dict_pos < dict_limit
        /\ UNCHANGED <<b, place, needs, dict_start, dict_limit>>
    BY DEF Match, Symbol, MoreSymbols, dict_has_space
  <1>2. ~need_dict_reset /\ pc \in Lzma2Places
    BY <1>1, DictKnown DEF Round
  <1>3. PICK dist \in Distances, n \in Lengths :
            IF DistanceOk(dist)
            THEN Repeat(dist, n) /\ UNCHANGED ctl
            ELSE Return("XZ_DATA_ERROR") /\ UNCHANGED write
    BY DEF Match
  <1>4. dist \in Nat /\ n \in Nat
    BY Lzma2Assumption
  <1>5. CASE DistanceOk(dist)
    <2>1. dist < dict_full /\ dict_pos <= dict_limit
      BY <1>1, <1>5, NumbersKnown DEF Numbers, DistanceOk
    <2>2. PICK left \in Nat : Put(left) /\ BytesKept
      BY <1>1, <1>2, <1>3, <1>4, <1>5, <2>1, RepeatData
    <2>3. pc' \in Lzma2Places /\ caller' = caller
      BY <1>1, <1>3, <1>5 DEF Lzma2Places, Round
    <2> QED
      BY <1>1, <1>2, <2>2, <2>3, SymbolData
  <1>6. CASE ~DistanceOk(dist)
    <2>1. Quiet
      BY <1>1, <1>2, <1>3, <1>6 DEF Quiet, Return
    <2> QED
      BY <2>1, QuietKeepsData
  <1> QED
    BY <1>5, <1>6

LEMMA Lzma2Data ==
    ASSUME IInv, IInv', DataInv, Lzma2Next, UNCHANGED <<bcj_vars, stream_vars>>
    PROVE  DataInv'
  <1> HIDE DEF bcj_vars, stream_vars
  <1>1. Quiet => DataInv'
    BY QuietKeepsData
  <1>2. CASE Control
    <2>1. Quiet \/ ControlChunk \/ Flush \/ CopySome
      BY <1>2, QuietSteps, Zenon DEF Control
    <2> QED
      BY <1>1, <2>1, ControlChunkData, FlushData, CopySomeData, Zenon
  <1>3. CASE Lzma
    <2>1. Quiet \/ Pending \/ Literal \/ Match
      BY <1>3, QuietSteps, Zenon DEF Lzma
    <2> QED
      BY <1>1, <2>1, PendingData, LiteralData, MatchData, Zenon
  <1> QED
    BY <1>2, <1>3 DEF Lzma2Next

-----------------------------------------------------------------------------
(* Steps of the filter.                                                    *)

\* Nothing is unflushed when a decoder returns well, or has not been called.
LEMMA AllFlushed ==
    ASSUME IInv, pc \notin Round, ~Failed
    PROVE  Unflushed = 0
  <1>1. dict_start = dict_pos /\ dict_pos \in Nat
    BY NumbersKnown DEF IInv, RoundInv, Numbers
  <1> QED
    BY <1>1, NothingLeft DEF Unflushed

\* The filter begins at the start of the block, with nothing.
LEMMA BcjOutData ==
    ASSUME IInv, IInv', DataInv, BcjOut, UNCHANGED stream_vars
    PROVE  DataInv'
  <1>0. Numbers
    BY NumbersKnown
  <1>1. /\ pc = "bcj" /\ pc' = "lzma2" /\ caller' = "bcj_filter" /\ bcj_start' = out_pos
        /\ UNCHANGED <<b, mem, plain, dict_buf, dict_base, dict_start, dict_pos, need_dict_reset,
                       bcj_pos, bcj_size, stream_vars>>
    BY DEF BcjOut
  <1>2. b_out = "out" /\ sequence = "block" /\ Unflushed = 0
    <2>1. pc \notin Round /\ ~Failed
      BY <1>1 DEF Round, Failed, Over, Ends, Callers
    <2>2. b_out = "out" /\ sequence = "block"
      BY <1>1 DEF IInv, BufInv, CallInv, StreamInv, Lzma2Places, Round, Over, Ends
    <2> QED
      BY <2>1, <2>2, AllFlushed
  <1>3. /\ Alive /\ ~Decoding /\ ~Closing /\ ~Turned
        /\ Decoding' /\ ~Closing' /\ ~Turned'
    BY <1>1, <1>2 DEF Alive, Decoding, Closing, Turned, Lzma2Places, Round
  <1>4. BlocksInv /\ PositionInv /\ OwnDictInv /\ FilterInv /\ BytesInv
    BY <1>3, Zenon DEF DataInv
  <1>5. /\ Written' = Written /\ OutPos' = out_pos /\ Unflushed' = Unflushed
        /\ OutSize' = OutSize
    BY <1>1, <1>2 DEF Written, OutPos, OutSize, Unflushed
  <1>6. /\ out_pos = out_start /\ Written = out_pos /\ out_pos = EndOf(blocks)
        /\ need_dict_reset /\ bcj_active /\ bcj_pos = 0
        /\ out_pos \in Nat
    BY <1>0, <1>1, <1>3, <1>4 DEF Numbers, PositionInv, FilterInv, OwnDictInv
  <1>7. BlocksInv'
    BY <1>1, <1>3, <1>4 DEF BlocksInv
  <1>8. PositionInv'
    BY <1>1, <1>2, <1>3, <1>5, <1>6 DEF PositionInv
  <1>9. OwnDictInv' /\ FilterInv'
    BY <1>1, <1>6 DEF OwnDictInv, FilterInv, Lzma2Places, Round
  <1>10. BytesInv'
    <2>1. Raw(mem["out"], plain, out_start, Written)'
      <3>1. \A x \in out_start..(out_start - 1) : FALSE
        BY <1>6
      <3> QED
        BY <1>1, <1>5, <1>6, <3>1 DEF Raw
    <2> QED
      BY <1>1, <1>3, <1>4, <1>5, <2>1, Zenon DEF BytesInv
  <1> QED
    BY <1>7, <1>8, <1>9, <1>10 DEF DataInv

\* b->out is turned to the filter's buffer.
LEMMA BcjTempData ==
    ASSUME IInv, IInv', DataInv, BcjTemp, UNCHANGED stream_vars
    PROVE  DataInv'
  <1>0. Numbers
    BY NumbersKnown
  <1>1. /\ pc = "bcj_temp" /\ pc' = "lzma2" /\ caller' = "bcj_restore"
        /\ saved_pos' = out_pos /\ saved_size' = out_size
        /\ b_out' = "temp" /\ out_pos' = bcj_size
        /\ UNCHANGED <<mem, plain, dict_buf, dict_base, dict_start, dict_pos, need_dict_reset,
                       bcj_pos, bcj_size, stream_vars>>
    BY DEF BcjTemp
  <1>2. b_out = "out" /\ sequence = "block" /\ Unflushed = 0
    <2>1. pc \notin Round /\ ~Failed
      BY <1>1 DEF Round, Failed, Over, Ends, Callers
    <2>2. b_out = "out" /\ sequence = "block"
      BY <1>1 DEF IInv, BufInv, CallInv, StreamInv, Lzma2Places, Round, Over, Ends
    <2> QED
      BY <2>1, <2>2, AllFlushed
  <1>3. /\ Alive /\ Decoding /\ ~Closing /\ Turned /\ Decoding' /\ ~Closing' /\ Turned'
    BY <1>1, <1>2 DEF Alive, Decoding, Closing, Turned, Lzma2Places, Round
  <1>4. BlocksInv /\ PositionInv /\ OwnDictInv /\ FilterInv /\ BytesInv
    BY <1>3, Zenon DEF DataInv
  <1>5. /\ Written' = Written /\ OutPos' = OutPos /\ Unflushed' = Unflushed
        /\ OutSize' = OutSize /\ OutPos = out_pos
    BY <1>1, <1>2 DEF Written, OutPos, OutSize, Unflushed
  <1>6. BlocksInv'
    BY <1>1, <1>3, <1>4 DEF BlocksInv
  <1>7. PositionInv'
    <2>1. bcj_size \in Nat
      BY BcjAssumption, XzBufAssumption DEF IInv, BcjTypeOK
    <2> QED
      BY <1>1, <1>2, <1>3, <1>4, <1>5, <2>1 DEF PositionInv
  <1>8. OwnDictInv' /\ FilterInv'
    BY <1>1, <1>4 DEF OwnDictInv, FilterInv, Lzma2Places, Round
  <1>9. BytesInv'
    BY <1>1, <1>3, <1>4, <1>5, Zenon DEF BytesInv
  <1> QED
    BY <1>6, <1>7, <1>8, <1>9 DEF DataInv

\* The filter takes each byte of whole instructions once, and leaves the others.
LEMMA TakenOnce ==
    ASSUME NEW f, NEW v, NEW a \in Nat, NEW n \in Nat, NEW hi \in Nat, a + n <= hi,
           \A x \in 0..(hi - 1) : x \in DOMAIN f, Raw(f, v, a, hi),
           NEW g, g = Converted(f, a, n, 0)
    PROVE  Taken(g, v, a, a, a + n) /\ Raw(g, v, a + n, hi)
  <1>1. /\ DOMAIN g = DOMAIN f
        /\ \A x \in DOMAIN f :
              g[x] = IF Within(x, a, n)
                     THEN <<f[x][1], IF f[x][2] = 0 THEN 0 + (x - a) + 1 ELSE -1>>
                     ELSE f[x]
    BY DEF Converted
  <1>2. ASSUME NEW x \in a..(a + n - 1) PROVE g[x] = <<v[x + 1], x - a + 1>>
    <2>1. x \in DOMAIN f /\ Within(x, a, n) /\ x \in a..(hi - 1)
      BY DEF Within
    <2>2. f[x] = <<v[x + 1], 0>>
      BY <2>1 DEF Raw
    <2>3. f[x][1] = v[x + 1] /\ f[x][2] = 0
      BY <2>2
    <2>4. g[x] = <<f[x][1], 0 + (x - a) + 1>>
      BY <1>1, <2>1, <2>3
    <2>5. 0 + (x - a) + 1 = x - a + 1
      OBVIOUS
    <2> QED
      BY <2>3, <2>4, <2>5
  <1>3. ASSUME NEW x \in (a + n)..(hi - 1) PROVE g[x] = <<v[x + 1], 0>>
    <2>1. x \in DOMAIN f /\ ~Within(x, a, n) /\ x \in a..(hi - 1)
      BY DEF Within
    <2>2. f[x] = <<v[x + 1], 0>>
      BY <2>1 DEF Raw
    <2> QED
      BY <1>1, <2>1, <2>2
  <1> QED
    BY <1>2, <1>3 DEF Taken, Raw

\* What the filter has done when a block or the output ends.
LEMMA BcjFilterData ==
    ASSUME IInv, IInv', DataInv, BcjFilter, UNCHANGED stream_vars
    PROVE  DataInv'
  <1> DEFINE size == out_pos - bcj_start
             n == Whole(size)
             rest == size - n
             out == Converted(mem["out"], bcj_start, n, bcj_pos)
  <1>0. Numbers
    BY NumbersKnown
  <1>1. /\ pc = "bcj_filter" /\ pc' \in {"block", "bcj_temp"}
        /\ UNCHANGED <<input, b_out, out_size, ret, caller, plain, dict_buf, dict_base, dict_start,
                       dict_pos, need_dict_reset, bcj_start, stream_vars>>
        /\ b_out = "out" /\ sequence = "block"
    <2>1. /\ pc = "bcj_filter" /\ pc' \in {"block", "bcj_temp"}
          /\ UNCHANGED <<ret, caller, plain, dict_buf, dict_base, dict_start,
                         dict_pos, need_dict_reset, bcj_start, stream_vars>>
      BY DEF BcjFilter, Goto
    <2>2. UNCHANGED <<input, b_out, out_size>>
      BY DEF BcjFilter
    <2>3. b_out = "out" /\ sequence = "block"
      BY <2>1 DEF IInv, BufInv, CallInv, StreamInv, Lzma2Places, Round, Over, Ends
    <2> QED
      BY <2>1, <2>2, <2>3
  <1> SUFFICES ASSUME Alive'
               PROVE  BlocksInv' /\ PositionInv' /\ OwnDictInv' /\ FilterInv' /\ BytesInv'
    BY Zenon DEF DataInv
  <1>2. ret \in Decoded /\ (pc' = "bcj_temp" \/ ret = "XZ_STREAM_END")
    <2>1. pc' = "bcj_temp" => ret = "XZ_OK"
      BY <1>1 DEF BcjFilter, Goto
    <2>2. pc' = "block" => ret = "XZ_STREAM_END"
      BY <1>1 DEF Alive, Decoding, Lzma2Places, Round
    <2> QED
      BY <1>1, <2>1, <2>2 DEF Decoded
  <1>3. /\ \/ /\ ret = "XZ_STREAM_END" /\ pc' = "block"
              /\ mem' = [mem EXCEPT !["out"] = out] /\ UNCHANGED <<out_pos, bcj_size>>
           \/ /\ pc' = "bcj_temp" /\ out_pos' = out_pos - rest /\ bcj_size' = rest
              /\ ~(out_pos < out_size)
              /\ mem' = [out |-> out,
                         temp |-> [x \in DOMAIN mem["temp"] |->
                                      IF x < rest THEN out[out_pos' + x]
                                      ELSE mem["temp"][x]]]
    <2>1. single_call = FALSE
      BY DEF single_call
    <2> HIDE DEF size
    <2>2. WholeOut(size) = n
      BY DEF WholeOut
    <2>3. \/ /\ ret = "XZ_STREAM_END" /\ pc' = "block"
             /\ mem' = [mem EXCEPT !["out"] = Converted(mem["out"], bcj_start, WholeOut(size), bcj_pos)]
             /\ UNCHANGED <<out_pos, bcj_size>>
          \/ /\ pc' \in {"bcj_temp", "block"} /\ ret = "XZ_OK"
             /\ out_pos' = out_pos - (size - WholeOut(size))
             /\ bcj_size' = size - WholeOut(size)
             /\ pc' = "bcj_temp" => ~(out_pos < out_size)
             /\ mem' = [out |-> Converted(mem["out"], bcj_start, WholeOut(size), bcj_pos),
                        temp |-> [x \in DOMAIN mem["temp"] |->
                           IF x < size - WholeOut(size)
                           THEN Converted(mem["out"], bcj_start, WholeOut(size), bcj_pos)[out_pos' + x]
                           ELSE mem["temp"][x]]]
      BY <1>2, <2>1 DEF BcjFilter, Goto, Decoded, size
    <2> QED
      BY <1>2, <2>2, <2>3
  <1>4. /\ Alive /\ Decoding /\ ~Closing /\ ~Closing' /\ ~Turned
        /\ Decoding' <=> pc' = "bcj_temp"
        /\ Turned' <=> pc' = "bcj_temp"
    BY <1>1, <1>2 DEF Alive, Decoding, Closing, Turned, Lzma2Places, Round
  <1>5. BlocksInv /\ PositionInv /\ OwnDictInv /\ FilterInv /\ BytesInv
    BY <1>4, Zenon DEF DataInv
  <1>6. Unflushed = 0 /\ Unflushed' = 0
    <2>1. pc \notin Round /\ ~Failed
      BY <1>1, <1>2 DEF Round, Failed, Over, Ends, Callers, Decoded
    <2>2. Unflushed = 0
      BY <2>1, AllFlushed
    <2>3. Unflushed' = Unflushed
      BY <1>1 DEF Unflushed
    <2> QED
      BY <2>2, <2>3
  <1>7. /\ out_pos \in Nat /\ out_size \in Nat /\ out_pos <= out_size /\ out_start \in Nat
        /\ TempSize \in Nat
        /\ bcj_start = out_start /\ bcj_pos = 0 /\ bcj_active
        /\ Written = out_pos /\ out_start = EndOf(blocks) /\ out_start <= out_pos
    BY <1>0, <1>1, <1>4, <1>5, <1>6 DEF Numbers, PositionInv, FilterInv, OutPos
  <1>8. /\ Written' = out_pos /\ OutSize = out_size /\ OutSize' = out_size
    BY <1>1, <1>7 DEF Written, OutSize
  <1>9. /\ size \in Nat /\ n \in Nat /\ n <= size /\ rest \in Nat /\ rest < InstrSize
        /\ size = out_pos - out_start /\ rest = size - n /\ n = Whole(size)
        /\ out = Converted(mem["out"], out_start, n, 0)
        /\ out_start + n = out_pos - rest
    <2>1. size \in Nat /\ size = out_pos - out_start
      BY <1>7
    <2> HIDE DEF size
    <2>2. n \in Nat /\ n <= size /\ size - n < InstrSize
      BY <2>1, WholeNat
    <2>3. out = Converted(mem["out"], out_start, n, 0)
      BY <1>7, Zenon
    <2> HIDE DEF n, out
    <2>4. rest \in Nat /\ rest < InstrSize /\ out_start + n = out_pos - rest
      BY <1>7, <2>1, <2>2
    <2> QED
      BY <2>1, <2>2, <2>3, <2>4 DEF n
  <1> HIDE DEF size, n, rest, out
  <1>10. /\ DOMAIN mem["out"] = 0..(out_size - 1) /\ DOMAIN mem["temp"] = 0..(TempSize - 1)
         /\ DOMAIN mem = {"out", "temp"}
    BY <1>8 DEF IInv, MemInv
  <1>11. /\ AllThere(mem["out"], plain, blocks) /\ Raw(mem["out"], plain, out_start, out_pos)
    BY <1>4, <1>5, <1>7, <1>8 DEF BytesInv
  <1>12. /\ DOMAIN out = 0..(out_size - 1)
         /\ Taken(out, plain, out_start, out_start, out_start + n)
         /\ Raw(out, plain, out_start + n, out_pos)
         /\ \A x \in 0..(out_start - 1) : out[x] = mem["out"][x]
    <2>1. out_start + n <= out_pos
      BY <1>7, <1>9
    <2> DEFINE f == mem["out"]
    <2>2. DOMAIN f = 0..(out_size - 1) /\ Raw(f, plain, out_start, out_pos)
      BY <1>10, <1>11
    <2>3. \A x \in 0..(out_pos - 1) : x \in DOMAIN f
      BY <1>7, <2>2
    <2>4. out = Converted(f, out_start, n, 0)
      BY <1>9
    <2>5. out_start \in Nat /\ n \in Nat /\ out_pos \in Nat
      BY <1>7, <1>9
    <2> HIDE DEF f
    <2>6. Taken(out, plain, out_start, out_start, out_start + n) /\ Raw(out, plain, out_start + n, out_pos)
      BY <2>1, <2>2, <2>3, <2>4, <2>5, TakenOnce
    <2>7. DOMAIN out = 0..(out_size - 1)
      BY <2>2, <2>4 DEF Converted
    <2>8. ASSUME NEW x \in 0..(out_start - 1) PROVE out[x] = f[x]
      <3>1. x \in DOMAIN f /\ ~Within(x, out_start, n)
        BY <1>7, <2>2, <2>5 DEF Within
      <3> QED
        BY <2>4, <3>1 DEF Converted
    <2> QED
      BY <2>6, <2>7, <2>8 DEF f
  <1>13. AllThere(out, plain, blocks)
    <2> DEFINE f == mem["out"]
    <2>1. blocks \in Blocks /\ Linked(blocks, block_hash)
      BY <1>5, Zenon DEF BlocksInv, Blocks
    <2>2. AllThere(f, plain, blocks) /\ \A x \in 0..(out_start - 1) : out[x] = f[x]
      BY <1>11, <1>12
    <2>3. EndOf(blocks) <= out_start /\ out_start \in Nat
      BY <1>7
    <2>4. \A x \in 1..out_start : plain[x] = plain[x]
      OBVIOUS
    <2> HIDE DEF f
    <2> QED
      BY <2>1, <2>2, <2>3, <2>4, AllAgree
  <1>14. BlocksInv'
    BY <1>1, <1>4, <1>5 DEF BlocksInv
  <1>15. OwnDictInv' /\ FilterInv'
    BY <1>1, <1>5 DEF OwnDictInv, FilterInv, Lzma2Places, Round
  <1>16. CASE ret = "XZ_STREAM_END" /\ pc' = "block"
    <2>1. mem' = [mem EXCEPT !["out"] = out] /\ out_pos' = out_pos
      BY <1>3, <1>16
    <2>2. mem'["out"] = out
      BY <1>10, <2>1
    <2>3. PositionInv'
      BY <1>1, <1>4, <1>7, <1>8, <1>16, <2>1 DEF PositionInv
    <2>4. There(out, plain, out_start, out_pos - out_start, bcj_active)
      <3>1. out_start + Whole(out_pos - out_start) = out_start + n
        BY <1>9
      <3>2. out_start + (out_pos - out_start) = out_pos
        BY <1>7, FromTo, Zenon
      <3> QED
        BY <1>7, <1>12, <3>1, <3>2, Zenon DEF There
    <2>5. BytesInv'
      BY <1>1, <1>4, <1>13, <1>16, <2>1, <2>2, <2>4, Zenon DEF BytesInv
    <2> QED
      BY <1>14, <1>15, <2>3, <2>5
  <1>17. CASE pc' = "bcj_temp"
    <2>1. /\ out_pos' = out_pos - rest /\ bcj_size' = rest /\ out_pos = out_size
          /\ mem' = [out |-> out,
                     temp |-> [x \in DOMAIN mem["temp"] |->
                                  IF x < rest THEN out[(out_pos - rest) + x]
                                  ELSE mem["temp"][x]]]
      BY <1>3, <1>7, <1>17
    <2>2. /\ mem'["out"] = out
          /\ \A x \in 0..(rest - 1) : mem'["temp"][x] = out[(out_pos - rest) + x]
      <3>1. \A x \in 0..(rest - 1) : x \in 0..(TempSize - 1) /\ x < rest
        BY <1>7, <1>9, BcjAssumption
      <3> QED
        BY <1>10, <2>1, <3>1
    <2>3. OutPos' = out_pos - rest /\ out_pos - rest \in Nat
      BY <1>1, <1>7, <1>9, <2>1 DEF OutPos
    <2>4. PositionInv'
      <3>1. (out_pos - rest) + 0 + rest = out_pos /\ (out_pos - rest) + rest = out_size
        BY <1>7, <1>9, <2>1
      <3>2. (out_pos - rest) - out_start = Whole(out_size - out_start)
        <4>1. (out_pos - rest) - out_start = n
          BY <1>7, <1>9
        <4>2. out_size - out_start = size
          BY <1>9, <2>1
        <4> QED
          BY <1>9, <4>1, <4>2
      <3> QED
        BY <1>1, <1>4, <1>6, <1>7, <1>8, <1>9, <1>17, <2>1, <2>3, <3>1, <3>2 DEF PositionInv
    <2>5. BytesInv'
      <3>1. Taken(out, plain, out_start, out_start, out_pos - rest)
        BY <1>9, <1>12
      <3>2. ASSUME NEW x \in 0..(rest - 1)
            PROVE  mem'["temp"][x] = <<plain[(out_pos - rest) + x + 1], 0>>
        <4>1. (out_pos - rest) + x \in (out_start + n)..(out_pos - 1)
          BY <1>7, <1>9
        <4>2. out[(out_pos - rest) + x] = <<plain[(out_pos - rest) + x + 1], 0>>
          BY <1>12, <4>1 DEF Raw
        <4> QED
          BY <2>2, <4>2
      <3>3. Waiting(mem'["temp"], plain, out_pos - rest, rest)
        BY <3>2 DEF Waiting
      <3> QED
        BY <1>1, <1>4, <1>13, <1>17, <2>1, <2>2, <2>3, <3>1, <3>3, Zenon DEF BytesInv
    <2> QED
      BY <1>14, <1>15, <2>4, <2>5
  <1> QED
    BY <1>2, <1>3, <1>16, <1>17

\* If the block has ended with what the filter's buffer holds, all of it is less than an
\* instruction: it is given back to the output as it is.
LEMMA BcjRestoreData ==
    ASSUME IInv, IInv', DataInv, BcjRestore, UNCHANGED stream_vars
    PROVE  DataInv'
  <1> DEFINE n == Whole(out_pos)
             done == IF ret = "XZ_STREAM_END" THEN out_pos ELSE n
             copy == Least(done, saved_size - saved_pos)
             t == Converted(mem["temp"], 0, n, bcj_pos)
  <1>0. Numbers
    BY NumbersKnown
  <1> SUFFICES ASSUME Alive'
               PROVE  BlocksInv' /\ PositionInv' /\ OwnDictInv' /\ FilterInv' /\ BytesInv'
    BY Zenon DEF DataInv
  <1>1. /\ pc = "bcj_restore" /\ pc' = "block" /\ b_out' = "out" /\ out_size' = saved_size
        /\ UNCHANGED <<plain, dict_start, dict_pos, saved_pos, saved_size, stream_vars>>
        /\ b_out = "temp" /\ saved_pos <= saved_size
        /\ sequence = "block"
    <2>1. /\ pc = "bcj_restore" /\ pc' = "block" /\ b_out' = "out" /\ out_size' = saved_size
          /\ UNCHANGED <<plain, dict_start, dict_pos, saved_pos, saved_size, stream_vars>>
      BY DEF BcjRestore
    <2> QED
      BY <2>1 DEF IInv, CallInv, StreamInv, Over, Ends
  <1>2. ret' = "XZ_STREAM_END"
    BY <1>1 DEF Alive, Decoding, Lzma2Places, Round
  <1>3. /\ ret = "XZ_STREAM_END" /\ ~(done - copy > 0)
        /\ out_pos' = saved_pos + copy
        /\ mem' = [out |-> [x \in DOMAIN mem["out"] |->
                               IF Within(x, saved_pos, copy)
                               THEN t[x - saved_pos] ELSE mem["out"][x]],
                   temp |-> [x \in DOMAIN t |->
                               IF x + copy \in DOMAIN t
                               THEN t[x + copy] ELSE t[x]]]
    <2> HIDE DEF n, copy, done, t
    <2>1. ret \in {"XZ_OK", "XZ_STREAM_END"}
      BY <1>2 DEF BcjRestore
    <2>2. /\ filtered' = done - copy /\ out_pos' = saved_pos + copy
          /\ ret' = IF filtered' > 0 THEN "XZ_OK" ELSE ret
          /\ mem' = [out |-> [x \in DOMAIN mem["out"] |->
                               IF Within(x, saved_pos, copy)
                               THEN t[x - saved_pos] ELSE mem["out"][x]],
                     temp |-> [x \in DOMAIN t |->
                               IF x + copy \in DOMAIN t
                               THEN t[x + copy] ELSE t[x]]]
      BY <2>1, Zenon DEF BcjRestore, n, copy, done, t
    <2>3. ~(filtered' > 0) /\ ret = "XZ_STREAM_END"
      BY <1>2, <2>2
    <2> QED
      BY <2>2, <2>3
  <1>4. /\ Alive /\ Decoding /\ ~Closing /\ Turned
        /\ ~Decoding' /\ ~Closing' /\ ~Turned'
    BY <1>1, <1>3 DEF Alive, Decoding, Decoded, Closing, Turned, Lzma2Places, Round
  <1>5. BlocksInv /\ PositionInv /\ OwnDictInv /\ FilterInv /\ BytesInv
    BY <1>4, Zenon DEF DataInv
  <1>6. Unflushed = 0
    <2>1. pc \notin Round /\ ~Failed
      BY <1>1, <1>3 DEF Round, Failed, Over, Ends, Callers
    <2> QED
      BY <2>1, AllFlushed
  <1>7. /\ OutPos = saved_pos /\ OutSize = saved_size /\ OutSize' = saved_size
        /\ Written' = Written
    BY <1>1 DEF OutPos, OutSize, Written
  <1>8. /\ out_pos \in Nat /\ saved_pos \in Nat /\ saved_size \in Nat /\ out_start \in Nat
        /\ bcj_size \in Nat /\ TempSize \in Nat
    BY <1>0, XzBufAssumption DEF Numbers, IInv, BcjTypeOK
  <1>9. /\ Written = saved_pos + out_pos /\ saved_pos + bcj_size = saved_size
        /\ bcj_size < InstrSize /\ bcj_size <= out_pos
        /\ saved_pos - out_start = Whole(saved_size - out_start)
        /\ out_start = EndOf(blocks) /\ out_start <= Written /\ bcj_active
        /\ out_start <= saved_pos
    <2>1. Written = saved_pos + 0 + out_pos
      BY <1>1, <1>4, <1>5, <1>6, <1>7 DEF PositionInv
    <2>2. out_start <= saved_pos
      BY <1>1, <1>7 DEF IInv, CallInv
    <2> QED
      BY <1>1, <1>4, <1>5, <1>7, <1>8, <2>1, <2>2 DEF PositionInv, FilterInv
  <1>10. done = out_pos /\ copy = out_pos /\ out_pos = bcj_size /\ n = 0
    <2>1. done = out_pos
      BY <1>3
    <2>2. copy = Least(out_pos, bcj_size)
      <3>1. saved_size - saved_pos = bcj_size
        BY <1>8, <1>9
      <3> QED
        BY <2>1, <3>1, Zenon
    <2>3. copy = out_pos /\ out_pos = bcj_size
      <3> HIDE DEF copy, done
      <3>1. copy \in Nat /\ copy <= out_pos /\ copy <= bcj_size
        BY <1>8, <2>2, LeastNat
      <3>2. ~(out_pos - copy > 0)
        BY <1>3, <2>1
      <3> QED
        BY <1>8, <1>9, <3>1, <3>2
    <2>4. out_pos < InstrSize
      BY <1>9, <2>3
    <2>5. out_pos % InstrSize = out_pos
      BY <1>8, <2>4, BcjAssumption
    <2>6. n = 0
      BY <1>8, <2>5, NothingLeft DEF Whole
    <2> QED
      BY <2>1, <2>3, <2>6
  <1>11. /\ DOMAIN mem["out"] = 0..(saved_size - 1) /\ DOMAIN mem["temp"] = 0..(TempSize - 1)
         /\ out_pos <= TempSize
    BY <1>1, <1>7, <1>8 DEF IInv, MemInv, CallInv, BufInv
  <1>12. \A x \in 0..(TempSize - 1) : t[x] = mem["temp"][x]
    <2>1. \A x \in 0..(TempSize - 1) : ~Within(x, 0, n)
      BY <1>8, <1>10 DEF Within
    <2> QED
      BY <1>11, <2>1 DEF Converted
  <1>13. /\ out_pos' = saved_size /\ Written = saved_size /\ saved_pos + out_pos = saved_size
    BY <1>3, <1>8, <1>9, <1>10
  <1> DEFINE out == [x \in 0..(saved_size - 1) |->
                        IF Within(x, saved_pos, out_pos)
                        THEN t[x - saved_pos] ELSE mem["out"][x]]
  <1>14. mem'["out"] = out
    <2> HIDE DEF t, copy
    <2> QED
      BY <1>3, <1>10, <1>11
  <1> HIDE DEF n, done, copy, t
  <1>15. /\ AllThere(mem["out"], plain, blocks)
         /\ Taken(mem["out"], plain, out_start, out_start, saved_pos)
         /\ Waiting(mem["temp"], plain, saved_pos, out_pos)
    <2>1. Written <= OutSize
      BY <1>7, <1>8, <1>13
    <2> QED
      BY <1>4, <1>5, <1>7, <1>10, <2>1, Zenon DEF BytesInv
  <1>16. \A x \in 0..(saved_pos - 1) : out[x] = mem["out"][x]
    <2>1. ASSUME NEW x \in 0..(saved_pos - 1)
          PROVE  x \in 0..(saved_size - 1) /\ ~Within(x, saved_pos, out_pos)
      BY <1>1, <1>8 DEF Within
    <2> QED
      BY <2>1
  <1>17. ASSUME NEW x \in saved_pos..(saved_size - 1) PROVE out[x] = <<plain[x + 1], 0>>
    <2>1. /\ x \in 0..(saved_size - 1) /\ Within(x, saved_pos, out_pos)
          /\ x - saved_pos \in 0..(out_pos - 1) /\ x - saved_pos \in 0..(TempSize - 1)
          /\ saved_pos + (x - saved_pos) + 1 = x + 1
      BY <1>8, <1>11, <1>13 DEF Within
    <2>2. out[x] = t[x - saved_pos]
      BY <2>1
    <2>3. t[x - saved_pos] = mem["temp"][x - saved_pos]
      BY <1>12, <2>1
    <2>4. mem["temp"][x - saved_pos] = <<plain[saved_pos + (x - saved_pos) + 1], 0>>
      BY <1>15, <2>1 DEF Waiting
    <2> QED
      BY <2>1, <2>2, <2>3, <2>4, Zenon
  <1> HIDE DEF out
  <1>18. AllThere(out, plain, blocks) /\ Taken(out, plain, out_start, out_start, saved_pos)
    <2> DEFINE f == mem["out"]
    <2>1. blocks \in Blocks /\ Linked(blocks, block_hash)
      BY <1>5, Zenon DEF BlocksInv, Blocks
    <2>2. AllThere(f, plain, blocks) /\ Taken(f, plain, out_start, out_start, saved_pos)
      BY <1>15
    <2>3. \A x \in 0..(saved_pos - 1) : out[x] = f[x]
      BY <1>16
    <2>4. EndOf(blocks) <= saved_pos /\ saved_pos <= saved_pos /\ saved_pos \in Nat /\ out_start \in Nat
      BY <1>8, <1>9
    <2>5. \A x \in 1..saved_pos : plain[x] = plain[x]
      OBVIOUS
    <2> HIDE DEF f
    <2>6. AllThere(out, plain, blocks)
      BY <2>1, <2>2, <2>3, <2>4, <2>5, AllAgree
    <2>7. Taken(out, plain, out_start, out_start, saved_pos)
      BY <2>2, <2>3, <2>4, <2>5, TakenAgrees
    <2> QED
      BY <2>6, <2>7
  <1>19. There(out, plain, out_start, saved_size - out_start, bcj_active)
    <2>1. out_start + Whole(saved_size - out_start) = saved_pos
      BY <1>8, <1>9
    <2>2. out_start + (saved_size - out_start) = saved_size
      BY <1>8, FromTo, Zenon
    <2>3. Raw(out, plain, saved_pos, saved_size)
      BY <1>17 DEF Raw
    <2> QED
      BY <1>9, <1>18, <2>1, <2>2, <2>3, Zenon DEF There
  <1>20. BlocksInv'
    BY <1>1, <1>4, <1>5 DEF BlocksInv
  <1>21. PositionInv'
    BY <1>1, <1>4, <1>7, <1>9, <1>13 DEF PositionInv
  <1>22. OwnDictInv' /\ FilterInv'
    BY <1>1 DEF OwnDictInv, FilterInv, Lzma2Places, Round
  <1>23. BytesInv'
    BY <1>1, <1>4, <1>13, <1>14, <1>18, <1>19, Zenon DEF BytesInv
  <1> QED
    BY <1>20, <1>21, <1>22, <1>23

LEMMA BcjData ==
    ASSUME IInv, IInv', DataInv, BcjNext, UNCHANGED stream_vars
    PROVE  DataInv'
  <1> HIDE DEF stream_vars
  <1> QED
    BY BcjOutData, BcjFilterData, BcjTempData, BcjRestoreData, Zenon DEF BcjNext

-----------------------------------------------------------------------------
(* Steps of dec_main and xz_dec_run.                                       *)

\* What goes wrong is not gone on with.
LEMMA DeadData ==
    ASSUME pc' \in {"run", "return"}, pc' = "run" => ret' # "XZ_STREAM_END"
    PROVE  DataInv'
  <1>1. ~Alive'
    BY DEF Alive, Decoding, Lzma2Places, Round
  <1> QED
    BY <1>1, Zenon DEF DataInv

\* Between two blocks, or behind them all, only the fields of the container are read.
Between == /\ pc \in {"stream", "run", "entrypoint"}
           /\ pc = "stream" => sequence \notin {"block", "block_padding", "block_check"}

LEMMA BetweenData ==
    ASSUME IInv, IInv', DataInv, Between, Between', Alive,
           UNCHANGED <<output, mem, plain, out_start, block_hash, blocks>>,
           pc' \in {"run", "entrypoint"} => sequence' = "stream_footer",
           sequence' \in {"index_crc32", "stream_footer"} => index_hash' = block_hash,
           sequence' # "block"
    PROVE  DataInv'
  <1>1. b_out = "out" /\ b_out' = "out"
    BY DEF Between, IInv, BufInv, CallInv, Lzma2Places, Round
  <1>2. /\ ~Decoding /\ ~Closing /\ ~Turned /\ pc # "block"
        /\ ~Decoding' /\ ~Closing' /\ ~Turned' /\ pc' # "block"
    BY <1>1 DEF Between, Decoding, Closing, Turned, Lzma2Places, Round
  <1>3. BlocksInv /\ PositionInv /\ OwnDictInv /\ FilterInv /\ BytesInv
    BY Zenon DEF DataInv
  <1>4. /\ Written' = Written /\ OutSize' = OutSize
    BY <1>1 DEF Written, OutSize
  <1>5. BlocksInv'
    BY <1>2, <1>3 DEF BlocksInv
  <1>6. PositionInv'
    BY <1>1, <1>2, <1>3, <1>4 DEF PositionInv
  <1>7. OwnDictInv' /\ FilterInv'
    BY <1>1 DEF Between, OwnDictInv, FilterInv, Lzma2Places, Round
  <1>8. BytesInv'
    BY <1>2, <1>3, <1>4, Zenon DEF BytesInv
  <1> QED
    BY <1>5, <1>6, <1>7, <1>8 DEF DataInv

LEMMA FieldData ==
    ASSUME IInv, IInv', DataInv,
           StreamHeader \/ IndexStart \/ BlockStart \/ IndexField \/ IndexPadding
               \/ IndexCrc32 \/ StreamFooter
    PROVE  DataInv'
  <1> DEFINE Goes ==
               /\ pc = "stream" /\ sequence # "block"
               /\ UNCHANGED <<output, mem, plain, out_start, block_hash, blocks>>
               /\ Between /\ Between'
               /\ pc' \in {"run", "entrypoint"} => sequence' = "stream_footer"
               /\ sequence' \in {"index_crc32", "stream_footer"} =>
                     \/ index_hash' = block_hash
                     \/ sequence \in {"index_crc32", "stream_footer"} /\ UNCHANGED index_hash
               /\ sequence' # "block"
  <1>1. Goes => DataInv'
    <2> SUFFICES ASSUME Goes PROVE DataInv'
      OBVIOUS
    <2>1. Alive
      BY DEF Alive
    <2>2. BlocksInv
      BY <2>1, Zenon DEF DataInv
    <2>3. sequence' \in {"index_crc32", "stream_footer"} => index_hash' = block_hash
      BY <2>2 DEF BlocksInv
    <2> QED
      BY <2>1, <2>3, BetweenData
  <1>2. CASE StreamHeader
    <2>1. Goes
      BY <1>2 DEF StreamHeader, At, Between
    <2> QED
      BY <1>1, <2>1
  <1>3. CASE IndexStart
    <2>1. Goes
      BY <1>3 DEF IndexStart, At, Between
    <2> QED
      BY <1>1, <2>1
  <1>4. CASE BlockStart
    <2>1. Goes
      BY <1>4 DEF BlockStart, At, Between
    <2> QED
      BY <1>1, <2>1
  <1>5. CASE IndexField
    <2>1. /\ pc = "stream" /\ sequence = "index" /\ sequence' \in {"index", "index_padding"}
          /\ UNCHANGED <<output, mem, plain, out_start, block_hash, blocks>>
      BY <1>5 DEF IndexField, At
    <2>2. pc' = "stream" \/ (pc' = "run" /\ ret' = "XZ_DATA_ERROR")
      BY <1>5 DEF IndexField, At, Result
    <2>3. CASE pc' = "stream"
      BY <1>1, <2>1, <2>3 DEF Between
    <2> QED
      BY <2>2, <2>3, DeadData
  <1>6. CASE IndexPadding
    <2>1. /\ pc = "stream" /\ sequence = "index_padding"
          /\ UNCHANGED <<output, mem, plain, out_start, block_hash, index_hash, blocks>>
      BY <1>6 DEF IndexPadding, At
    <2>2. \/ pc' = "run" /\ ret' = "XZ_DATA_ERROR"
          \/ pc' = "stream" /\ sequence' = "index_crc32" /\ index_hash = block_hash
      BY <1>6, <2>1 DEF IndexPadding, At, Result
    <2>3. CASE pc' = "stream" /\ sequence' = "index_crc32" /\ index_hash = block_hash
      BY <1>1, <2>1, <2>3 DEF Between
    <2> QED
      BY <2>2, <2>3, DeadData
  <1>7. CASE IndexCrc32
    <2>1. Goes
      BY <1>7 DEF IndexCrc32, At, Between
    <2> QED
      BY <1>1, <2>1
  <1>8. CASE StreamFooter
    <2>1. Goes
      BY <1>8 DEF StreamFooter, At, Between, Result
    <2> QED
      BY <1>1, <2>1
  <1> QED
    BY <1>2, <1>3, <1>4, <1>5, <1>6, <1>7, <1>8

\* The program is entered only with what the footer has confirmed.
LEMMA RunEndData ==
    ASSUME IInv, IInv', DataInv, RunEnd
    PROVE  DataInv'
  <1>1. /\ pc = "run" /\ ret' = RunResult /\ pc' \in {"entrypoint", "return"}
        /\ UNCHANGED <<b_out, out_size, mem, plain, out_start, block_hash, blocks, sequence,
                       index_hash>>
        /\ pc' = "entrypoint" => ret' = "XZ_STREAM_END" /\ UNCHANGED out_pos
    BY DEF RunEnd
  <1>2. CASE pc' = "entrypoint"
    <2>1. ret = "XZ_STREAM_END"
      BY <1>1, <1>2 DEF RunResult
    <2>2. Alive
      BY <1>1, <2>1 DEF Alive
    <2>3. BlocksInv
      BY <2>2, Zenon DEF DataInv
    <2>4. sequence = "stream_footer" /\ index_hash = block_hash
      BY <1>1, <2>3 DEF BlocksInv
    <2>5. Between /\ Between'
      BY <1>1, <1>2 DEF Between
    <2> QED
      BY <1>1, <1>2, <2>2, <2>4, <2>5, BetweenData
  <1>3. CASE pc' = "return"
    BY <1>3, DeadData
  <1> QED
    BY <1>1, <1>2, <1>3

LEMMA FailsData ==
    ASSUME CutOff \/ Damaged
    PROVE  DataInv'
  <1>1. CASE CutOff
    BY <1>1, DeadData DEF CutOff, Fails, Result
  <1>2. CASE Damaged
    <2>1. pc' = "run" /\ ret' # "XZ_STREAM_END"
      <3>1. PICK r \in CASE sequence = "stream_header" ->
                        {"XZ_FORMAT_ERROR", "XZ_DATA_ERROR", "XZ_OPTIONS_ERROR"}
                  [] sequence = "block_header" ->
                        {"XZ_DATA_ERROR", "XZ_OPTIONS_ERROR"}
                  [] OTHER -> {"XZ_DATA_ERROR"} :
                pc' = "run" /\ ret' = r
        BY <1>2, Zenon DEF Damaged, Fails, Result
      <3>2. r \in {"XZ_FORMAT_ERROR", "XZ_DATA_ERROR", "XZ_OPTIONS_ERROR"}
        BY Zenon
      <3> QED
        BY <3>1, <3>2
    <2> QED
      BY <2>1, DeadData
  <1> QED
    BY <1>1, <1>2

\* A block begins with its filters reset.
LEMMA BlockHeaderData ==
    ASSUME IInv, IInv', DataInv, BlockHeader
    PROVE  DataInv'
  <1>1. /\ pc = "stream" /\ pc' = "stream" /\ sequence = "block_header" /\ sequence' = "block"
        /\ UNCHANGED <<output, mem, plain, blocks, block_hash, out_start>>
        /\ block_compressed' = 0 /\ block_uncompressed' = 0 /\ need_dict_reset'
        /\ bcj_active' => bcj_pos' = 0
    BY DEF BlockHeader, At, BcjReset, Lzma2Reset
  <1>2. b_out = "out"
    BY <1>1 DEF IInv, BufInv, CallInv, Lzma2Places, Round
  <1>3. /\ Alive /\ ~Decoding /\ ~Closing /\ ~Turned /\ ~Decoding' /\ ~Closing' /\ ~Turned'
    BY <1>1, <1>2 DEF Alive, Decoding, Closing, Turned, Lzma2Places, Round
  <1>4. BlocksInv /\ PositionInv /\ OwnDictInv /\ FilterInv /\ BytesInv
    BY <1>3, Zenon DEF DataInv
  <1>5. /\ Written' = Written /\ OutSize' = OutSize
    BY <1>1, <1>2 DEF Written, OutSize
  <1>6. BlocksInv'
    BY <1>1, <1>3, <1>4 DEF BlocksInv
  <1>7. PositionInv'
    BY <1>1, <1>3, <1>4, <1>5 DEF PositionInv
  <1>8. OwnDictInv' /\ FilterInv'
    BY <1>1 DEF OwnDictInv, FilterInv, Lzma2Places, Round
  <1>9. BytesInv'
    BY <1>1, <1>3, <1>4, <1>5, Zenon DEF BytesInv
  <1> QED
    BY <1>6, <1>7, <1>8, <1>9 DEF DataInv

LEMMA BlockData ==
    ASSUME IInv, IInv', DataInv, Block
    PROVE  DataInv'
  <1>0. Numbers
    BY NumbersKnown
  <1>1. /\ pc = "stream" /\ sequence = "block" /\ out_start' = out_pos /\ caller' = "block"
        /\ pc' = IF bcj_active THEN "bcj" ELSE "lzma2"
        /\ UNCHANGED <<output, mem, plain, dict_start, dict_pos, need_dict_reset, bcj_pos,
                       sequence, bcj_active, block_compressed, block_uncompressed,
                       block_hash, blocks>>
    BY DEF Block, At
  <1>2. b_out = "out"
    BY <1>1 DEF IInv, BufInv, CallInv, Lzma2Places, Round
  <1>3. /\ Alive /\ ~Decoding /\ ~Closing /\ ~Turned /\ ~Closing' /\ ~Turned'
        /\ Decoding' <=> ~bcj_active
    BY <1>1, <1>2 DEF Alive, Decoding, Closing, Turned, Lzma2Places, Round
  <1>4. BlocksInv /\ PositionInv /\ OwnDictInv /\ FilterInv /\ BytesInv
    BY <1>3, Zenon DEF DataInv
  <1>5. Unflushed = 0 /\ Unflushed' = Unflushed
    <2>1. pc \notin Round /\ ~Failed
      BY <1>1 DEF Round, Failed, Over, Ends, Callers
    <2> QED
      BY <1>1, <2>1, AllFlushed DEF Unflushed
  <1>6. /\ Written' = Written /\ OutSize' = OutSize /\ OutPos' = out_pos
    BY <1>1, <1>2 DEF Written, OutSize, OutPos
  <1>7. /\ out_pos = EndOf(blocks) /\ Written = out_pos /\ out_pos \in Nat
        /\ need_dict_reset /\ bcj_active => bcj_pos = 0
    BY <1>0, <1>1, <1>3, <1>4 DEF Numbers, PositionInv, OwnDictInv, FilterInv
  <1>8. BlocksInv'
    BY <1>1, <1>3, <1>4 DEF BlocksInv
  <1>9. PositionInv'
    BY <1>1, <1>2, <1>3, <1>5, <1>6, <1>7 DEF PositionInv
  <1>10. OwnDictInv' /\ FilterInv'
    BY <1>1, <1>4, <1>7 DEF OwnDictInv, FilterInv, Lzma2Places, Round
  <1>11. BytesInv'
    <2>1. Raw(mem["out"], plain, out_pos, out_pos)
      <3>1. \A x \in out_pos..(out_pos - 1) : FALSE
        BY <1>7
      <3> QED
        BY <3>1 DEF Raw
    <2>2. pc' # "block"
      BY <1>1
    <2> QED
      BY <1>1, <1>3, <1>4, <1>6, <1>7, <2>1, <2>2, Zenon DEF BytesInv
  <1> QED
    BY <1>8, <1>9, <1>10, <1>11 DEF DataInv

\* A block that has ended well is hashed with the sizes that it has.
LEMMA BlockEndData ==
    ASSUME IInv, IInv', DataInv, BlockEnd
    PROVE  DataInv'
  <1>0. Numbers
    BY NumbersKnown
  <1> DEFINE e == <<Unpadded(block_compressed'), block_uncompressed'>>
  <1>1. /\ pc = "block"
        /\ block_compressed' = block_compressed + (in_pos - in_start)
        /\ block_uncompressed' = block_uncompressed + (out_pos - out_start)
        /\ UNCHANGED <<b, mem, plain, check_size, header, bcj_active, in_start, out_start,
                       dict_start, dict_pos, blocks>>
    BY DEF BlockEnd
  <1>2. \/ pc' = "run" /\ ret' # "XZ_STREAM_END"
        \/ /\ ret = "XZ_STREAM_END" /\ pc' = "stream" /\ sequence' = "block_padding"
           /\ block_hash' = Append(block_hash, e)
    BY DEF BlockEnd, Result, Goto
  <1>3. CASE pc' = "run" /\ ret' # "XZ_STREAM_END"
    BY <1>3, DeadData
  <1>4. CASE /\ ret = "XZ_STREAM_END" /\ pc' = "stream" /\ sequence' = "block_padding"
             /\ block_hash' = Append(block_hash, e)
    <2>1. b_out = "out" /\ sequence = "block"
      BY <1>1 DEF IInv, BufInv, CallInv, StreamInv, Lzma2Places, Round, Over, Ends
    <2>2. /\ Alive /\ ~Decoding /\ ~Closing /\ ~Turned /\ ~Decoding' /\ Closing' /\ ~Turned'
      BY <1>1, <1>4, <2>1 DEF Alive, Decoding, Closing, Turned, Lzma2Places, Round
    <2>3. BlocksInv /\ PositionInv /\ OwnDictInv /\ FilterInv /\ BytesInv
      BY <2>2, Zenon DEF DataInv
    <2>4. /\ Written' = Written /\ OutSize' = OutSize
      BY <1>1, <2>1 DEF Written, OutSize
    <2>5. /\ in_pos - in_start \in Int /\ out_pos - out_start \in Int
          /\ block_compressed = 0 /\ block_uncompressed = 0
          /\ header.size \in Nat /\ check_size \in Nat /\ in_pos \in Nat /\ in_start \in Nat
      BY <1>0, <2>1, <2>3 DEF Numbers, BlocksInv, IInv, StreamTypeOK
    <2>6. block_compressed' = in_pos - in_start /\ block_uncompressed' = out_pos - out_start
      BY <1>1, <2>5
    <2>7. e = HashOf(0)'
      <3>1. e = <<header.size + (in_pos - in_start) + check_size, out_pos - out_start>>
        BY <1>1, <2>6 DEF Unpadded
      <3>2. HashOf(0)' = <<header.size + (in_pos - 0 - in_start) + check_size, out_pos - out_start>>
        BY <1>1 DEF HashOf
      <3>3. in_pos - 0 - in_start = in_pos - in_start
        BY <2>5
      <3> QED
        BY <3>1, <3>2, <3>3
    <2>8. /\ blocks \in Blocks /\ block_hash \in Seq(Nat \X Nat) /\ Len(block_hash) = Len(blocks)
          /\ Len(blocks) \in Nat
      <3>1. Len(block_hash) = Len(blocks) + 0 /\ blocks \in Blocks
        BY <2>2, <2>3 DEF BlocksInv, Blocks
      <3>2. Len(blocks) \in Nat
        BY <3>1, LenProperties DEF Blocks
      <3> QED
        BY <3>1, <3>2 DEF IInv, StreamTypeOK
    <2> HIDE DEF e
    <2>9. /\ Len(block_hash') = Len(blocks) + 1 /\ block_hash'[Len(blocks) + 1] = e
          /\ \A i \in 1..Len(blocks) : block_hash'[i] = block_hash[i]
      BY <1>4, <2>8, AppendProperties
    <2>10. Linked(blocks, block_hash')
      BY <2>3, <2>9, Zenon DEF BlocksInv, Linked
    <2>11. BlocksInv'
      BY <1>1, <1>4, <2>2, <2>3, <2>6, <2>7, <2>9, <2>10 DEF BlocksInv
    <2>12. PositionInv'
      BY <1>1, <2>2, <2>3, <2>4 DEF PositionInv
    <2>13. OwnDictInv' /\ FilterInv'
      BY <1>4 DEF OwnDictInv, FilterInv, Lzma2Places, Round
    <2>14. BytesInv'
      BY <1>1, <1>4, <2>2, <2>3, <2>4, Zenon DEF BytesInv
    <2> QED
      BY <2>11, <2>12, <2>13, <2>14 DEF DataInv
  <1> QED
    BY <1>2, <1>3, <1>4

\* At most three bytes of padding follow.
LEMMA BlockPaddingData ==
    ASSUME IInv, IInv', DataInv, BlockPadding
    PROVE  DataInv'
  <1>0. Numbers
    BY NumbersKnown
  <1>1. /\ pc = "stream" /\ pc' = "stream"
        /\ sequence = "block_padding" /\ sequence' = "block_check"
        /\ in_pos' = in_pos + FieldSize
        /\ UNCHANGED <<output, mem, plain, check_size, header, bcj_active, in_start, out_start,
                       block_hash, blocks>>
    BY DEF BlockPadding, At
  <1>2. PICK n \in 0..3 : in_pos' = in_pos + n
    <2>1. FieldSize = (-block_compressed) % 4
      BY <1>1 DEF FieldSize
    <2>2. block_compressed \in Int
      BY DEF IInv, StreamTypeOK
    <2>3. \A x \in Int : (-x) % 4 \in 0..3
      OBVIOUS
    <2> QED
      BY <1>1, <2>1, <2>2, <2>3
  <1>3. b_out = "out"
    BY <1>1 DEF IInv, BufInv, CallInv, Lzma2Places, Round
  <1>4. /\ Alive /\ ~Decoding /\ Closing /\ ~Turned /\ ~Decoding' /\ Closing' /\ ~Turned'
    BY <1>1, <1>3 DEF Alive, Decoding, Closing, Turned, Lzma2Places, Round
  <1>5. BlocksInv /\ PositionInv /\ OwnDictInv /\ FilterInv /\ BytesInv
    BY <1>4, Zenon DEF DataInv
  <1>6. /\ Written' = Written /\ OutSize' = OutSize
    BY <1>1, <1>3 DEF Written, OutSize
  <1>7. block_hash[Len(block_hash)] = HashOf(n)'
    <2>1. block_hash[Len(block_hash)] = HashOf(0)
      BY <1>1, <1>4, <1>5 DEF BlocksInv
    <2>2. HashOf(n)' = <<header.size + ((in_pos + n) - n - in_start) + check_size, out_pos - out_start>>
      BY <1>1, <1>2 DEF HashOf
    <2>3. (in_pos + n) - n - in_start = in_pos - 0 - in_start
      BY <1>0, <1>2 DEF Numbers
    <2> QED
      BY <2>1, <2>2, <2>3, Zenon DEF HashOf
  <1>8. BlocksInv'
    BY <1>1, <1>2, <1>4, <1>5, <1>7 DEF BlocksInv
  <1>9. PositionInv'
    BY <1>1, <1>4, <1>5, <1>6 DEF PositionInv
  <1>10. OwnDictInv' /\ FilterInv'
    BY <1>1 DEF OwnDictInv, FilterInv, Lzma2Places, Round
  <1>11. BytesInv'
    BY <1>1, <1>4, <1>5, <1>6, Zenon DEF BytesInv
  <1> QED
    BY <1>8, <1>9, <1>10, <1>11 DEF DataInv

\* The new block lies behind the others, and the hash has its sizes.
LEMMA LinkedOn ==
    ASSUME NEW s \in Blocks, NEW h, Linked(s, h),
           NEW k \in [begin : Int, end : Int, out : Nat, size : Nat, bcj : BOOLEAN],
           k.out = EndOf(s), k.size = h[Len(s) + 1][2],
           k.end - k.begin \in h[Len(s) + 1][1] .. (h[Len(s) + 1][1] + 3)
    PROVE  /\ Append(s, k) \in Blocks /\ Linked(Append(s, k), h)
           /\ EndOf(Append(s, k)) = k.out + k.size
  <1> DEFINE t == Append(s, k)
             last == Len(s)
  <1>1. /\ t \in Blocks /\ last \in Nat /\ Len(t) = last + 1
        /\ t[last + 1] = k /\ \A i \in 1..last : t[i] = s[i]
    BY AppendProperties, LenProperties DEF Blocks
  <1>2. k.out \in Nat /\ k.size \in Nat
    OBVIOUS
  <1> DEFINE end == k.out + k.size
  <1>3. EndOf(t) = end
    <2>1. Len(t) # 0 /\ t[Len(t)] = k
      BY <1>1
    <2> QED
      BY <2>1 DEF EndOf
  <1>4. EndOf(s) <= end /\ EndOf(s) \in Nat
    BY <1>2
  <1>5. ASSUME NEW i \in 1..last
        PROVE  /\ t[i].out = IF i = 1 THEN 0 ELSE t[i - 1].out + t[i - 1].size
               /\ t[i].out + t[i].size <= EndOf(t)
               /\ t[i].size = h[i][2]
               /\ t[i].end - t[i].begin \in h[i][1] .. (h[i][1] + 3)
    <2>1. t[i] = s[i] /\ (i # 1 => t[i - 1] = s[i - 1])
      BY <1>1
    <2>2. /\ s[i].out = IF i = 1 THEN 0 ELSE s[i - 1].out + s[i - 1].size
          /\ s[i].out + s[i].size <= EndOf(s)
          /\ s[i].size = h[i][2]
          /\ s[i].end - s[i].begin \in h[i][1] .. (h[i][1] + 3)
      BY Zenon DEF Linked
    <2>3. s[i].out + s[i].size <= end
      <3>1. s[i].out \in Nat /\ s[i].size \in Nat
        BY BlockAt
      <3> DEFINE o == s[i].out
                 z == s[i].size
                 here == EndOf(s)
      <3>2. o \in Nat /\ z \in Nat /\ here \in Nat
        BY <1>4, <3>1
      <3>3. o + z <= here /\ here <= end
        BY <1>4, <2>2, Zenon
      <3>4. end \in Nat
        BY <1>2
      <3> HIDE DEF o, z, here, end
      <3>5. o + z <= end
        BY <3>2, <3>3, <3>4
      <3> QED
        BY <3>5 DEF o, z
    <2> HIDE DEF t, end
    <2> QED
      BY <1>3, <2>1, <2>2, <2>3, Zenon
  <1>6. /\ k.out = IF last + 1 = 1 THEN 0 ELSE t[(last + 1) - 1].out + t[(last + 1) - 1].size
        /\ k.out + k.size <= EndOf(t)
    <2>1. k.out + k.size <= EndOf(t)
      BY <1>2, <1>3
    <2>2. CASE last = 0
      BY <2>1, <2>2 DEF EndOf
    <2>3. CASE last # 0
      <3>1. (last + 1) - 1 = last /\ last \in 1..last
        BY <1>1, <2>3
      <3>2. t[last] = s[last]
        BY <1>1, <3>1
      <3>3. EndOf(s) = s[last].out + s[last].size
        BY <2>3, Zenon DEF EndOf
      <3> QED
        BY <1>1, <2>1, <2>3, <3>1, <3>2, <3>3
    <2> QED
      BY <2>2, <2>3
  <1>7. Linked(t, h)
    <2> HIDE DEF t
    <2>1. ASSUME NEW i \in 1..Len(t)
          PROVE  /\ t[i].out = IF i = 1 THEN 0 ELSE t[i - 1].out + t[i - 1].size
                 /\ t[i].out + t[i].size <= EndOf(t)
                 /\ t[i].size = h[i][2]
                 /\ t[i].end - t[i].begin \in h[i][1] .. (h[i][1] + 3)
      <3>1. CASE i \in 1..last
        BY <1>5, <3>1, Zenon
      <3>2. CASE i = last + 1
        BY <1>1, <1>6, <3>2, Zenon
      <3> QED
        BY <1>1, <3>1, <3>2
    <2> QED
      BY <2>1, Zenon DEF Linked
  <1> QED
    BY <1>1, <1>3, <1>7

LEMMA BlockCheckData ==
    ASSUME IInv, IInv', DataInv, BlockCheck
    PROVE  DataInv'
  <1>0. Numbers
    BY NumbersKnown
  <1> DEFINE k == [begin |-> in_start - header.size, end |-> in_pos + check_size,
                   out |-> out_start, size |-> out_pos - out_start, bcj |-> bcj_active]
             last == Len(blocks)
  <1>1. /\ pc = "stream" /\ pc' = "stream" /\ sequence = "block_check" /\ sequence' = "block_start"
        /\ blocks' = Append(blocks, k)
        /\ UNCHANGED <<output, mem, plain, block_hash, out_start>>
    BY DEF BlockCheck, At
  <1>2. b_out = "out"
    BY <1>1 DEF IInv, BufInv, CallInv, Lzma2Places, Round
  <1>3. /\ Alive /\ ~Decoding /\ Closing /\ ~Turned /\ ~Decoding' /\ ~Closing' /\ ~Turned'
    BY <1>1, <1>2 DEF Alive, Decoding, Closing, Turned, Lzma2Places, Round
  <1>4. BlocksInv /\ PositionInv /\ BytesInv
    BY <1>3, Zenon DEF DataInv
  <1>5. /\ Written' = Written /\ OutSize' = OutSize
    BY <1>1, <1>2 DEF Written, OutSize
  <1>6. /\ blocks \in Blocks /\ Linked(blocks, block_hash) /\ Len(block_hash) = last + 1
        /\ \E n \in 0..3 : block_hash[last + 1] = HashOf(n)
        /\ last \in Nat
    <2>1. /\ blocks \in Blocks /\ Linked(blocks, block_hash) /\ Len(block_hash) = last + 1
          /\ \E n \in 0..3 : block_hash[Len(block_hash)] = HashOf(n)
      BY <1>1, <1>3, <1>4 DEF BlocksInv, Blocks
    <2>2. last \in Nat
      BY <2>1, LenProperties DEF Blocks
    <2> QED
      BY <2>1, <2>2, Zenon
  <1>7. /\ out_start = EndOf(blocks) /\ Written = out_pos /\ out_start <= out_pos
        /\ out_pos \in Nat /\ out_start \in Nat /\ in_pos \in Nat /\ in_start \in Nat
        /\ header.size \in Nat /\ check_size \in Nat /\ bcj_active \in BOOLEAN
    BY <1>0, <1>3, <1>4 DEF Numbers, PositionInv, IInv, StreamTypeOK
  <1>8. PICK n \in 0..3 : block_hash[last + 1] = HashOf(n)
    BY <1>6
  <1>9. /\ block_hash[last + 1][1] = header.size + (in_pos - n - in_start) + check_size
        /\ block_hash[last + 1][2] = out_pos - out_start
    BY <1>8 DEF HashOf
  <1>10. /\ k \in [begin : Int, end : Int, out : Nat, size : Nat, bcj : BOOLEAN]
         /\ k.out = out_start /\ k.size = out_pos - out_start /\ k.bcj = bcj_active
         /\ k.begin = in_start - header.size /\ k.end = in_pos + check_size
    BY <1>7
  <1> HIDE DEF k
  <1>11. k.end - k.begin \in block_hash[last + 1][1] .. (block_hash[last + 1][1] + 3)
    <2>1. k.end - k.begin = (in_pos + check_size) - (in_start - header.size)
      BY <1>10
    <2>2. (in_pos + check_size) - (in_start - header.size)
              \in (header.size + (in_pos - n - in_start) + check_size)
                  .. ((header.size + (in_pos - n - in_start) + check_size) + 3)
      BY <1>7
    <2> QED
      BY <1>9, <2>1, <2>2, Zenon
  <1>12. /\ Append(blocks, k) \in Blocks /\ Linked(Append(blocks, k), block_hash)
         /\ EndOf(Append(blocks, k)) = k.out + k.size
    BY <1>6, <1>7, <1>9, <1>10, <1>11, LinkedOn
  <1>13. /\ blocks' \in Blocks /\ Linked(blocks', block_hash) /\ EndOf(blocks') = out_pos
         /\ Len(blocks') = last + 1 /\ blocks'[last + 1] = k
         /\ \A i \in 1..last : blocks'[i] = blocks[i]
    <2>1. out_start + (out_pos - out_start) = out_pos
      BY <1>7, FromTo, Zenon
    <2>2. EndOf(blocks') = out_pos
      BY <1>1, <1>10, <1>12, <2>1
    <2> QED
      BY <1>1, <1>6, <1>12, <2>2, AppendProperties DEF Blocks
  <1>14. BlocksInv'
    BY <1>1, <1>3, <1>6, <1>13 DEF BlocksInv, Blocks
  <1>15. PositionInv'
    BY <1>1, <1>3, <1>5, <1>7, <1>13 DEF PositionInv
  <1>16. OwnDictInv' /\ FilterInv'
    BY <1>1 DEF OwnDictInv, FilterInv, Lzma2Places, Round
  <1>17. BytesInv'
    <2> SUFFICES ASSUME Written' <= OutSize'
                 PROVE  AllThere(mem["out"], plain, blocks')
      BY <1>1, <1>3, Zenon DEF BytesInv
    <2>1. Written <= OutSize
      BY <1>5
    <2>2. /\ AllThere(mem["out"], plain, blocks)
          /\ There(mem["out"], plain, out_start, out_pos - out_start, bcj_active)
      BY <1>3, <1>4, <2>1, Zenon DEF BytesInv
    <2>3. ASSUME NEW i \in 1..Len(blocks')
          PROVE  There(mem["out"], plain, blocks'[i].out, blocks'[i].size, blocks'[i].bcj)
      <3>1. CASE i \in 1..last
        BY <1>13, <2>2, <3>1, Zenon DEF AllThere
      <3>2. CASE i = last + 1
        BY <1>10, <1>13, <2>2, <3>2, Zenon
      <3> QED
        BY <1>6, <1>13, <3>1, <3>2
    <2> QED
      BY <2>3, Zenon DEF AllThere
  <1> QED
    BY <1>14, <1>15, <1>16, <1>17 DEF DataInv

LEMMA StreamData ==
    ASSUME IInv, IInv', DataInv, StreamNext
    PROVE  DataInv'
  BY FailsData, FieldData, BlockHeaderData, BlockData, BlockEndData, BlockPaddingData,
     BlockCheckData, Zenon DEF StreamNext

LEMMA StutterData ==
    ASSUME DataInv, UNCHANGED vars
    PROVE  DataInv'
  <1>1. UNCHANGED <<OutSize, OutPos, Written, Unflushed, Decoding, Closing, Turned>>
    BY DEF vars, OutSize, OutPos, Written, Unflushed, Decoding, Closing, Turned
  <1>2. Alive' => Alive
    BY <1>1 DEF vars, Alive
  <1>3. BlocksInv => BlocksInv'
    BY <1>1 DEF vars, BlocksInv, HashOf
  <1>4. PositionInv => PositionInv'
    BY <1>1 DEF vars, PositionInv
  <1>5. (OwnDictInv => OwnDictInv') /\ (FilterInv => FilterInv')
    BY <1>1 DEF vars, OwnDictInv, FilterInv
  <1>6. BytesInv => BytesInv'
    BY <1>1 DEF vars, BytesInv
  <1> QED
    BY <1>2, <1>3, <1>4, <1>5, <1>6, Zenon DEF DataInv

LEMMA NextData ==
    ASSUME IInv, IInv', DataInv, [Next]_vars
    PROVE  DataInv'
  <1> HIDE DEF bcj_vars, stream_vars
  <1> QED
    BY Lzma2Data, BcjData, StreamData, RunEndData, StutterData, Zenon DEF Next

LEMMA InitData == Init => DataInv
  <1> SUFFICES ASSUME Init PROVE DataInv
    OBVIOUS
  <1>1. /\ pc = "stream" /\ sequence = "stream_header" /\ b_out = "out" /\ out_pos = 0
        /\ out_start = 0 /\ plain = <<>> /\ blocks = <<>> /\ block_hash = <<>>
    BY DEF Init, Lzma2Init
  <1>2. ~Decoding /\ ~Closing /\ ~Turned
    BY <1>1 DEF Decoding, Closing, Turned, Lzma2Places, Round
  <1>3. Written = 0 /\ EndOf(blocks) = 0 /\ Len(blocks) = 0 /\ Len(block_hash) = 0
    BY <1>1 DEF Written, EndOf
  <1>4. BlocksInv
    <2>1. blocks \in Blocks
      BY <1>1 DEF Blocks
    <2>2. Linked(blocks, block_hash)
      BY <1>3 DEF Linked
    <2> QED
      BY <1>1, <1>2, <1>3, <2>1, <2>2 DEF BlocksInv, Blocks
  <1>5. PositionInv /\ OwnDictInv /\ FilterInv
    BY <1>1, <1>2, <1>3 DEF PositionInv, OwnDictInv, FilterInv, Lzma2Places, Round
  <1>6. BytesInv
    BY <1>1, <1>2, <1>3 DEF BytesInv, AllThere
  <1> QED
    BY <1>4, <1>5, <1>6 DEF DataInv

\* The bytes of block k in the file f are those of the program v.
Unpacked(f, v, k) ==
    \A x \in 0..(k.size - 1) : f[k.out + x] = <<v[k.out + x + 1], Filtered(k, x)>>

\* Where the bytes of a block are, whether it is filtered or not.
LEMMA ThereIsFiltered ==
    ASSUME NEW f, NEW v, NEW k, k.out \in Nat, k.size \in Nat,
           There(f, v, k.out, k.size, k.bcj)
    PROVE  Unpacked(f, v, k)
  <1> SUFFICES ASSUME NEW x \in 0..(k.size - 1)
               PROVE  f[k.out + x] = <<v[k.out + x + 1], Filtered(k, x)>>
    BY Zenon DEF Unpacked
  <1> DEFINE a == k.out
             n == k.size
             w == Whole(n)
             y == a + x
  <1>1. a \in Nat /\ n \in Nat /\ w \in Nat /\ w <= n /\ x \in Nat /\ x < n
    BY WholeNat
  <1>2. CASE k.bcj
    <2>1. Taken(f, v, a, a, a + w) /\ Raw(f, v, a + w, a + n)
      BY <1>2, Zenon DEF There
    <2>2. Filtered(k, x) = IF x < w THEN x + 1 ELSE 0
      BY <1>2, Zenon DEF Filtered
    <2> HIDE DEF a, n, w
    <2>3. /\ x < w => y \in a..((a + w) - 1) /\ y - a + 1 = x + 1
          /\ ~(x < w) => y \in (a + w)..((a + n) - 1)
      BY <1>1
    <2> HIDE DEF y
    <2>4. CASE x < w
      <3>1. f[y] = <<v[y + 1], y - a + 1>>
        BY <2>1, <2>3, <2>4, Zenon DEF Taken
      <3> QED
        BY <2>2, <2>3, <2>4, <3>1, Zenon DEF y, a
    <2>5. CASE ~(x < w)
      <3>1. f[y] = <<v[y + 1], 0>>
        BY <2>1, <2>3, <2>5, Zenon DEF Raw
      <3> QED
        BY <2>2, <2>5, <3>1, Zenon DEF y, a
    <2> QED
      BY <2>4, <2>5
  <1>3. CASE ~k.bcj
    <2>1. Raw(f, v, a, a + n)
      BY <1>3, Zenon DEF There
    <2>2. Filtered(k, x) = 0
      BY <1>3 DEF Filtered
    <2> HIDE DEF a, n, w
    <2>3. y \in a..((a + n) - 1)
      BY <1>1
    <2> HIDE DEF y
    <2>4. f[y] = <<v[y + 1], 0>>
      BY <2>1, <2>3, Zenon DEF Raw
    <2> QED
      BY <2>2, <2>4, Zenon DEF y, a
  <1> QED
    BY <1>2, <1>3

-----------------------------------------------------------------------------
(* The theorems.                                                           *)

\* The inductive invariant of the decoders holds whatever the packed data is, wherever
\* it ends, and whatever a symbol, a chunk or a field of the container is.
THEOREM UnpackInvariant == Spec => []IInv
  BY InitInv, NextKeeps, PTL DEF Spec

\* Every variable keeps its type: no size, count or position of the decoders becomes
\* negative, where the code computes with size_t and uint32_t.
THEOREM UnpackTypes == Spec => []TypeOK
  <1>1. IInv => TypeOK
    <2> SUFFICES ASSUME IInv PROVE TypeOK
      OBVIOUS
    <2>1. XzBufTypeOK
      <3>1. /\ OutSize \in OutSizes /\ mem["out"] \in [0..(OutSize - 1) -> Byte]
            /\ DOMAIN mem = {"out", "temp"} /\ mem["temp"] \in [0..(TempSize - 1) -> Byte]
        BY DEF IInv, MemInv
      <3>2. \E n \in OutSizes : mem["out"] \in [0..(n - 1) -> Byte]
        BY <3>1
      <3> QED
        BY <3>1, <3>2 DEF IInv, BufInv, XzBufTypeOK
    <2> QED
      BY <2>1 DEF IInv, PcInv, TypeOK, Ends
  <1> QED
    BY <1>1, UnpackInvariant, PTL

\* lzma_main reads neither beyond the packed program nor beyond s->temp.buf, and the
\* dictionary lies within the buffer that it is in: the lookahead of
\* LZMA_IN_REQUIRED bytes is enough for every symbol and every cut of the input.
THEOREM StaysWithinBuffers == Spec => []WithinBuffers
  <1>1. IInv => WithinBuffers
    <2> SUFFICES ASSUME IInv PROVE WithinBuffers
      OBVIOUS
    <2>1. /\ rc_pos <= (IF rc_in = "in" THEN in_size ELSE 3 * LZMA_IN_REQUIRED)
          /\ temp_size <= compressed \/ lzma2_seq # "lzma_run"
          /\ dict_pos <= dict_end
      BY DEF IInv, RcInv, TempInv, DictInv
    <2>2. ASSUME NEW x \in dict_base .. (dict_base + dict_end - 1)
          PROVE  x \in DOMAIN mem[dict_buf]
      <3>1. /\ dict_base \in Nat /\ dict_end \in Nat /\ OutSize \in Nat /\ TempSize \in Nat
            /\ x \in Nat /\ x <= dict_base + dict_end - 1
        BY NumbersKnown DEF Numbers
      <3>2. /\ dict_base + dict_end <= (IF dict_buf = "out" THEN OutSize ELSE TempSize)
            /\ dict_buf \in {"out", "temp"}
        BY DEF IInv, DictInv, Lzma2TypeOK
      <3>3. DOMAIN mem["out"] = 0..(OutSize - 1) /\ DOMAIN mem["temp"] = 0..(TempSize - 1)
        BY DEF IInv, MemInv
      <3>4. CASE dict_buf = "out"
        BY <3>1, <3>2, <3>3, <3>4
      <3>5. CASE dict_buf = "temp"
        BY <3>1, <3>2, <3>3, <3>5
      <3> QED
        BY <3>2, <3>4, <3>5
    <2> QED
      BY <2>1, <2>2 DEF WithinBuffers
  <1> QED
    BY <1>1, UnpackInvariant, PTL

\* The distance that a literal after a match takes as it is, and that the next
\* repeated match begins with, is one of the dictionary's, across chunks and resets.
THEOREM DistancesStayValid == Spec => []DistancesValid
  <1>1. IInv => DistancesValid
    <2> SUFFICES ASSUME IInv, pc = "symbols" PROVE rep0 = 0 \/ rep0 < dict_full
      BY DEF DistancesValid
    <2>1. lzma2_seq = "lzma_run"
      BY DEF IInv, PlaceInv, Round
    <2>2. ~need_dict_reset /\ ~need_props /\ ~ResetComing /\ ~Failed
      BY <2>1 DEF IInv, NeedInv, PropsKnown, ResetComing, Failed, Over, Ends, Callers
    <2> QED
      BY <2>2 DEF IInv, NeedInv
  <1> QED
    BY <1>1, UnpackInvariant, PTL

\* A chunk that ends well has taken the bytes and yielded the bytes that it says, even
\* if it was cut into rounds by the output buffer and read through s->temp.
THEOREM ChunksAreExact == Spec => []ChunksExact
  <1>1. IInv => ChunksExact
    <2> SUFFICES ASSUME IInv, pc = "lzma2", lzma2_seq = "control", chunk # NoChunk
                 PROVE  /\ in_pos = chunk.in + chunk.csize
                        /\ Len(plain) = chunk.out + chunk.usize
                        /\ len = 0 /\ temp_size = 0
      BY DEF ChunksExact
    <2>1. in_pos = InEnd /\ Written = OutEnd
      BY DEF IInv, ChunkInv, Live, Lzma2Places
    <2> QED
      BY <2>1 DEF IInv, TempInv, InEnd, OutEnd, Written
  <1> QED
    BY <1>1, UnpackInvariant, PTL

\* While nothing has gone wrong, every byte decoded is in its place, filtered or not as
\* its block asks for, even where the filter decodes by way of its own buffer, and the
\* hash the index is compared with has the sizes of the blocks.
THEOREM DataInvariant == Spec => [](IInv /\ DataInv)
  <1>1. Init => IInv /\ DataInv
    BY InitInv, InitData
  <1>2. IInv /\ DataInv /\ [Next]_vars => (IInv /\ DataInv)'
    BY NextKeeps, NextData
  <1> QED
    BY <1>1, <1>2, PTL DEF Spec

\* The program that main enters is the one that was packed, byte by byte, however its
\* blocks and chunks are cut and wherever the output ends within an instruction; the
\* blocks lie one after the other and are those of the index.
THEOREM ProgramIsUnpacked == Spec => []UnpackedIsExact
  <1>1. IInv /\ DataInv => UnpackedIsExact
    <2> SUFFICES ASSUME IInv, DataInv, pc = "entrypoint"
                 PROVE  /\ out_pos = Len(plain)
                        /\ \A i \in DOMAIN blocks :
                              LET k == blocks[i]
                              IN  /\ k.out = IF i = 1 THEN 0
                                             ELSE blocks[i - 1].out + blocks[i - 1].size
                                  /\ \A x \in 0..(k.size - 1) :
                                        mem["out"][k.out + x]
                                            = <<plain[k.out + x + 1], Filtered(k, x)>>
                                  /\ k.end - k.begin
                                        \in index_hash[i][1] .. (index_hash[i][1] + 3)
                                  /\ k.size = index_hash[i][2]
                        /\ Len(index_hash) = Len(blocks)
                        /\ out_pos = IF blocks = <<>> THEN 0
                                     ELSE blocks[Len(blocks)].out + blocks[Len(blocks)].size
      BY Zenon DEF UnpackedIsExact
    <2>1. b_out = "out" /\ Alive /\ ~Decoding /\ ~Closing
      BY DEF IInv, BufInv, CallInv, Alive, Decoding, Closing, Lzma2Places, Round
    <2>2. BlocksInv /\ PositionInv /\ BytesInv
      BY <2>1, Zenon DEF DataInv
    <2>3. /\ Written = out_pos /\ out_pos = EndOf(blocks)
      BY <2>1, <2>2 DEF PositionInv
    <2>4. Written <= OutSize
      BY <2>1, <2>3 DEF OutSize, IInv, BufInv
    <2>5. /\ blocks \in Blocks /\ Linked(blocks, index_hash)
          /\ Len(index_hash) = Len(blocks) /\ DOMAIN blocks = 1..Len(blocks) /\ Len(blocks) \in Nat
      <3>1. blocks \in Blocks /\ index_hash = block_hash
        BY <2>1, <2>2 DEF BlocksInv, Blocks
      <3>2. DOMAIN blocks = 1..Len(blocks) /\ Len(blocks) \in Nat
        BY <3>1, LenProperties DEF Blocks
      <3>3. Len(block_hash) = Len(blocks) + 0 /\ Linked(blocks, block_hash)
        BY <2>1, <2>2 DEF BlocksInv
      <3> QED
        BY <3>1, <3>2, <3>3
    <2>6. AllThere(mem["out"], plain, blocks)
      BY <2>2, <2>4, Zenon DEF BytesInv
    <2>7. ASSUME NEW i \in 1..Len(blocks)
          PROVE  /\ blocks[i].out = IF i = 1 THEN 0
                                    ELSE blocks[i - 1].out + blocks[i - 1].size
                 /\ \A x \in 0..(blocks[i].size - 1) :
                       mem["out"][blocks[i].out + x]
                           = <<plain[blocks[i].out + x + 1], Filtered(blocks[i], x)>>
                 /\ blocks[i].end - blocks[i].begin
                       \in index_hash[i][1] .. (index_hash[i][1] + 3)
                 /\ blocks[i].size = index_hash[i][2]
      <3> DEFINE k == blocks[i]
                 f == mem["out"]
      <3>1. k.out \in Nat /\ k.size \in Nat
        BY <2>5, BlockAt
      <3>2. There(f, plain, k.out, k.size, k.bcj)
        BY <2>6, Zenon DEF AllThere
      <3> HIDE DEF k, f
      <3>3. Unpacked(f, plain, k)
        BY <3>1, <3>2, ThereIsFiltered, Zenon
      <3>4. \A x \in 0..(k.size - 1) :
               f[k.out + x] = <<plain[k.out + x + 1], Filtered(k, x)>>
        BY <3>3, Zenon DEF Unpacked
      <3> QED
        BY <2>5, <3>4, Zenon DEF Linked, k, f
    <2>8. out_pos = IF blocks = <<>> THEN 0
                    ELSE blocks[Len(blocks)].out + blocks[Len(blocks)].size
      <3>1. blocks = <<>> <=> Len(blocks) = 0
        BY <2>5, EmptySeq DEF Blocks
      <3> QED
        BY <2>3, <3>1, Zenon DEF EndOf
    <2> QED
      BY <2>3, <2>5, <2>7, <2>8, Zenon DEF Written
  <1> QED
    BY <1>1, DataInvariant, PTL
=============================================================================
