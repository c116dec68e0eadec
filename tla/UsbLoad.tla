------------------------------ MODULE UsbLoad ------------------------------
(***************************************************************************)
(* Loading a DOL from a PC through a USB Gecko: load_usb of source/main.c. *)
(* The PC's side is outside the repository: it is modelled as the mirror   *)
(* image of what load_usb expects, a host that says it is ready, answers a *)
(* ready console, and then sends the size and the file.                    *)
(*                                                                         *)
(* An element of a channel is a byte together with what its sender meant   *)
(* by it: load_usb sees the byte only (Value).                             *)
(***************************************************************************)
EXTENDS Integers, Sequences, FiniteSets

CONSTANTS
    Base,        \* values of a byte: 256 in the code
    PC_READY, PC_OK, GC_READY, GC_OK,   \* 0x80, 0x81, 0x88, 0x89
    Chunk,       \* largest receive: 0xF7D8 in the code
    Timeout,     \* seconds load_usb waits for an answer: 5 in the code
    Memory,      \* bound: bytes that memalign can hand out
    HostSizes,   \* bound: sizes of the file the host may have
    Fifo,        \* bytes of a running transfer the USB Gecko takes before load_usb reads
    MaxStale     \* bound: bytes left over from an earlier session

ASSUME UsbLoadAssumption ==
    /\ Base \in Nat /\ Base > 1
    /\ {PC_READY, PC_OK} \subseteq 0..(Base - 1)
    /\ PC_READY # PC_OK
    /\ {PC_READY, PC_OK} \cap {GC_READY, GC_OK} = {}
    /\ Chunk \in Nat \ {0}
    /\ Timeout \in Nat
    /\ Memory \in Nat
    /\ HostSizes \subseteq Nat
    /\ \A f \in HostSizes : f < Base * Base * Base * Base   \* four bytes can say it
    /\ Fifo \in Nat \ {0}
    /\ MaxStale \in Nat

Byte == 0..(Base - 1)
Word == [1..4 -> Byte]           \* four bytes in the order of their addresses

VARIABLES
    alive,      \* a USB Gecko is in the slot
    toGC, toPC, \* bytes on their way
    host,       \* "off", "hello": said ready, "sending", "gone"
    file,       \* size of the host's file
    sent,       \* elements of size and file the host has sent
    stale,      \* bytes of an earlier session that have come in
    lost,       \* the bytes the host missed
    pc,
    data,       \* the last byte of the handshake
    ack,        \* the element that ended the wait
    elapsed,    \* seconds since start_time
    word,       \* the elements read as the size
    size,       \* bytes still to be received
    alloc,      \* bytes allocated at dol; 0 is a null dol
    pointer,    \* pointer - dol
    buffer,     \* what has been received into *dol
    want,       \* end of the receive under way, as an offset from dol
    res

link   == <<alive, toGC, toPC>>
pcside == <<host, file, sent, stale, lost>>
shake  == <<data, ack, elapsed, word>>
store  == <<size, alloc, pointer, buffer, want>>
vars   == <<link, pcside, pc, shake, store, res>>

Elem(t, k) == [tag |-> t, n |-> k]
NoElem     == Elem("none", 0)
Elems      == [tag : {"none", "stale", "ready", "ok", "size", "data"}, n : Nat]

\* The bytes of a size, lowest first, as the host sends them.
SizeByte(s, k) ==
    IF k = 1 THEN s % Base
    ELSE IF k = 2 THEN (s \div Base) % Base
    ELSE IF k = 3 THEN ((s \div Base) \div Base) % Base
    ELSE (((s \div Base) \div Base) \div Base) % Base

\* The byte load_usb sees.  Data bytes only matter when they are misread.
Value(e) ==
    CASE e.tag = "ready" -> PC_READY
      [] e.tag = "ok"    -> PC_OK
      [] e.tag = "size"  -> SizeByte(file, e.n)
      [] e.tag = "stale" -> e.n
      [] OTHER           -> 0

\* convert_int reverses the bytes of a word in memory; the word is then read as
\* an int of a big-endian machine, in two's complement.
convert_int(b) == <<b[4], b[3], b[2], b[1]>>
Unsigned(b) == Base * (Base * (Base * b[1] + b[2]) + b[3]) + b[4]
Int32(b) ==
    IF 2 * b[1] >= Base
    THEN Unsigned(b) - Base * Base * Base * Base
    ELSE Unsigned(b)

PCs == {"start", "flush", "ready", "check", "poll", "reply", "size", "alloc",
        "chunk", "receive", "done"}

TypeOK ==
    /\ alive \in BOOLEAN
    /\ toGC \in Seq(Elems)
    /\ toPC \in Seq({GC_READY, GC_OK})
    /\ host \in {"off", "hello", "sending", "gone"}
    /\ file \in HostSizes
    /\ sent \in Nat
    /\ stale \in 0..MaxStale
    /\ lost \subseteq {GC_READY, GC_OK}
    /\ pc \in PCs
    /\ data \in Byte \cup {GC_READY, GC_OK}
    /\ ack \in Elems
    /\ elapsed \in 0..Timeout
    /\ word \in Seq(Elems) /\ Len(word) <= 4
    /\ size \in Int
    /\ alloc \in 0..Memory
    /\ pointer \in Nat
    /\ buffer \in Seq(Elems)
    /\ want \in Nat
    /\ res \in BOOLEAN

Init ==
    /\ alive \in BOOLEAN
    /\ toGC = <<>> /\ toPC = <<>>
    /\ host = "off" /\ file \in HostSizes
    /\ sent = 0 /\ stale = 0 /\ lost = {}
    /\ pc = "start"
    /\ data = 0 /\ ack = NoElem /\ elapsed = 0 /\ word = <<>>
    /\ size = 0 /\ alloc = 0 /\ pointer = 0 /\ buffer = <<>> /\ want = 0
    /\ res = TRUE

\* A byte to the PC, which can fail to receive it; certainly with no host there.
Send(b) ==
    \/ /\ host # "off"
       /\ toPC' = Append(toPC, b)
       /\ UNCHANGED lost
    \/ /\ toPC' = toPC
       /\ lost' = lost \cup {b}

-----------------------------------------------------------------------------
(* Mistakes one could make in load_usb, for the mutants of PROJECT.json.    *)

Poll_RestartsTime ==
    /\ pc = "poll"
    /\ elapsed' = 0
    /\ IF toGC = <<>>
       THEN pc' = "check" /\ UNCHANGED <<toGC, data, ack>>
       ELSE /\ toGC' = Tail(toGC)
            /\ ack' = Head(toGC)
            /\ data' = Value(Head(toGC))
            /\ pc' = CASE data' = PC_READY -> "reply"
                       [] data' = PC_OK    -> "size"
                       [] OTHER            -> "check"
    /\ UNCHANGED <<alive, toPC, pcside, word, store, res>>

Poll_DropsOk ==
    /\ pc = "poll"
    /\ IF toGC = <<>>
       THEN pc' = "check" /\ UNCHANGED <<toGC, data, ack>>
       ELSE /\ toGC' = Tail(toGC)
            /\ ack' = Head(toGC)
            /\ data' = Value(Head(toGC))
            /\ pc' = IF data' = PC_READY THEN "reply" ELSE "check"
    /\ UNCHANGED <<alive, toPC, pcside, elapsed, word, store, res>>

Reply_Silent ==
    /\ pc = "reply"
    /\ data' = GC_OK
    /\ pc' = "size"
    /\ UNCHANGED <<link, pcside, ack, elapsed, word, store, res>>

RecvSize_OneMore ==
    /\ pc = "size"
    /\ toGC # <<>>
    /\ toGC' = Tail(toGC)
    /\ word' = Append(word, Head(toGC))
    /\ pc' = IF Len(word') = 5 THEN "alloc" ELSE "size"
    /\ UNCHANGED <<alive, toPC, pcside, data, ack, elapsed, store, res>>

ReceivedSize_Unconverted == Int32([k \in 1..4 |-> Value(word[k])])

Alloc_ResultKept ==
    /\ pc = "alloc"
    /\ size' = Int32(convert_int([k \in 1..4 |-> Value(word[k])]))
    /\ \/ size' \in 1..Memory /\ alloc' = size' /\ pc' = "chunk"
       \/ pc' = "done" /\ UNCHANGED alloc
    /\ UNCHANGED <<link, pcside, shake, pointer, buffer, want, res>>

NextChunk_AlwaysFull ==
    /\ pc = "chunk"
    /\ want' = pointer + Chunk
    /\ pc' = IF size # 0 THEN "receive" ELSE "done"
    /\ UNCHANGED <<link, pcside, shake, size, alloc, pointer, buffer, res>>

-----------------------------------------------------------------------------
(* load_usb                                                                *)

\* usb_isgeckoalive
Start ==
    /\ pc = "start"
    /\ IF alive
       THEN pc' = "flush" /\ UNCHANGED res
       ELSE pc' = "done" /\ res' = FALSE
    /\ UNCHANGED <<link, pcside, shake, store>>

\* usb_flush drops whatever has arrived.
Flush ==
    /\ pc = "flush"
    /\ toGC' = <<>>
    /\ pc' = "ready"
    /\ UNCHANGED <<alive, toPC, pcside, shake, store, res>>

SendReady ==
    /\ pc = "ready"
    /\ data' = GC_READY
    /\ Send(GC_READY)
    /\ pc' = "check"
    /\ UNCHANGED <<alive, toGC, host, file, sent, stale, ack, elapsed, word,
                   store, res>>

\* The head of the loop: the time is looked at before the next receive.
Check ==
    /\ pc = "check"
    /\ IF elapsed >= Timeout
       THEN pc' = "done" /\ res' = FALSE
       ELSE pc' = "poll" /\ UNCHANGED res
    /\ UNCHANGED <<link, pcside, shake, store>>

\* usb_recvbuffer_safe_ex: one byte if there is one; any other byte than the two
\* answers is dropped.
Poll ==
    /\ pc = "poll"
    /\ IF toGC = <<>>
       THEN /\ pc' = "check"
            /\ UNCHANGED <<toGC, data, ack>>
       ELSE /\ toGC' = Tail(toGC)
            /\ ack' = Head(toGC)
            /\ data' = Value(Head(toGC))
            /\ pc' = CASE data' = PC_READY -> "reply"
                       [] data' = PC_OK    -> "size"
                       [] OTHER            -> "check"
    /\ UNCHANGED <<alive, toPC, pcside, elapsed, word, store, res>>

Reply ==
    /\ pc = "reply"
    /\ data' = GC_OK
    /\ Send(GC_OK)
    /\ pc' = "size"
    /\ UNCHANGED <<alive, toGC, host, file, sent, stale, ack, elapsed, word,
                   store, res>>

\* usb_recvbuffer_safe waits for as long as it takes, byte by byte.
RecvSize ==
    /\ pc = "size"
    /\ toGC # <<>>
    /\ toGC' = Tail(toGC)
    /\ word' = Append(word, Head(toGC))
    /\ pc' = IF Len(word') = 4 THEN "alloc" ELSE "size"
    /\ UNCHANGED <<alive, toPC, pcside, data, ack, elapsed, store, res>>

ReceivedSize == Int32(convert_int([k \in 1..4 |-> Value(word[k])]))

\* dol_alloc refuses a size that is not positive, and memalign one too large.
Alloc ==
    /\ pc = "alloc"
    /\ size' = ReceivedSize
    /\ \/ /\ size' \in 1..Memory
          /\ alloc' = size'
          /\ pc' = "chunk"
          /\ UNCHANGED res
       \/ /\ pc' = "done"
          /\ res' = FALSE
          /\ UNCHANGED alloc
    /\ UNCHANGED <<link, pcside, shake, pointer, buffer, want>>

\* The loop over full chunks, and the rest after it.
NextChunk ==
    /\ pc = "chunk"
    /\ want' = pointer + (IF size > Chunk THEN Chunk ELSE size)
    /\ pc' = IF size # 0 THEN "receive" ELSE "done"
    /\ UNCHANGED <<link, pcside, shake, size, alloc, pointer, buffer, res>>

\* One byte of a chunk; after a full chunk, size and pointer move on.
RecvData ==
    /\ pc = "receive"
    /\ toGC # <<>>
    /\ toGC' = Tail(toGC)
    /\ buffer' = Append(buffer, Head(toGC))
    /\ \/ /\ Len(buffer') < want
          /\ UNCHANGED <<pc, size, pointer>>
       \/ /\ Len(buffer') = want
          /\ size > Chunk
          /\ size' = size - Chunk
          /\ pointer' = pointer + Chunk
          /\ pc' = "chunk"
       \/ /\ Len(buffer') = want
          /\ size <= Chunk
          /\ pc' = "done"
          /\ UNCHANGED <<size, pointer>>
    /\ UNCHANGED <<alive, toPC, pcside, shake, alloc, want, res>>

-----------------------------------------------------------------------------
(* The world: time, the host, and what an earlier session left behind.     *)

\* A second passes; nothing looks at the time after the wait for an answer.
Tick ==
    /\ pc \in {"check", "poll"}
    /\ elapsed < Timeout
    /\ elapsed' = elapsed + 1
    /\ UNCHANGED <<link, pcside, pc, data, ack, word, store, res>>

\* A byte of a transfer that was cut off, of any value, arrives.
StaleByte(v) ==
    /\ alive
    /\ host = "off"
    /\ stale < MaxStale
    /\ stale' = stale + 1
    /\ toGC' = Append(toGC, Elem("stale", v))
    /\ UNCHANGED <<alive, toPC, host, file, sent, lost, pc, shake, store, res>>

HostStart ==
    /\ alive
    /\ host = "off"
    /\ host' = "hello"
    /\ toGC' = Append(toGC, Elem("ready", 0))
    /\ UNCHANGED <<alive, toPC, file, sent, stale, lost, pc, shake, store, res>>

\* The host answers a ready console; told OK, it need not.
HostHear ==
    /\ host = "hello"
    /\ toPC # <<>>
    /\ toPC' = Tail(toPC)
    /\ toGC' = IF Head(toPC) = GC_READY THEN Append(toGC, Elem("ok", 0)) ELSE toGC
    /\ host' = "sending"
    /\ UNCHANGED <<alive, file, sent, stale, lost, pc, shake, store, res>>

HostSend ==
    /\ host = "sending"
    /\ sent < 4 + file
    /\ Len(toGC) < Fifo
    /\ sent' = sent + 1
    /\ toGC' = Append(toGC, IF sent < 4 THEN Elem("size", sent + 1)
                                        ELSE Elem("data", sent - 3))
    /\ UNCHANGED <<alive, toPC, host, file, stale, lost, pc, shake, store, res>>

\* The user ends the program on the PC, or unplugs the cable.
HostGone ==
    /\ host \in {"hello", "sending"}
    /\ host' = "gone"
    /\ UNCHANGED <<link, file, sent, stale, lost, pc, shake, store, res>>

-----------------------------------------------------------------------------
Program == \/ Start \/ Flush \/ SendReady \/ Check \/ Poll \/ Reply
           \/ RecvSize \/ Alloc \/ NextChunk \/ RecvData
Host    == HostStart \/ HostHear \/ HostSend
Next    == \/ Program \/ Tick \/ Host \/ HostGone
           \/ \E v \in Byte : StaleByte(v)

Spec == Init /\ [][Next]_vars

\* The console runs and time passes.  Of the host only this is assumed: once it
\* is started it goes on, unless the user stops it.
FairSpec ==
    /\ Spec
    /\ WF_vars(Program)
    /\ WF_vars(Tick)
    /\ WF_vars(HostHear \/ HostSend)

-----------------------------------------------------------------------------
(* Correctness.                                                            *)

Framed  == word = [k \in 1..4 |-> Elem("size", k)]

\* Both sides said ready, and each answered the other.
Crossed == ack = Elem("ready", 0) /\ word # <<>> /\ word[1] = Elem("ok", 0)

\* load_usb writes only inside the buffer that dol_alloc obtained, and the bytes
\* still expected are the ones for which there is room: size, pointer and the
\* limit of the receive under way fit together through all chunks.
WithinBuffer ==
    pc \in {"chunk", "receive"} =>
        /\ pointer + size = alloc
        /\ pointer <= Len(buffer)
        /\ Len(buffer) <= alloc
        /\ pc = "receive" => Len(buffer) < want /\ want <= alloc

\* The four bytes taken as the size are the host's size, unless a byte of an
\* earlier session passed for an answer, or ready messages crossed: load_usb
\* answers the host's ready, the host answers load_usb's, and load_usb takes that
\* answer for the first byte of the size.
SizeFramed ==
    Len(word) = 4 /\ ack.tag # "stale" =>
        \/ Framed
        \/ /\ Crossed
           /\ \A k \in 2..4 : word[k] = Elem("size", k - 1)

\* A transfer reported as a success filled the whole buffer; and with the right size,
\* the host's file has arrived in full and in order.
ImageIsFile ==
    pc = "done" /\ res =>
        /\ Len(buffer) = alloc
        /\ Framed => /\ alloc = file
                     /\ \A k \in 1..file : buffer[k] = Elem("data", k)

\* load_usb and the host wait for each other only if the host missed both bytes of
\* load_usb (the danger the sleep before GC_OK is there for), or the answer was not
\* the host's: each of the two bytes alone gets the host going.
NoMutualWait ==
    pc = "size" /\ toGC = <<>> /\ toPC = <<>> /\ host = "hello" =>
        lost = {GC_READY, GC_OK} \/ ack.tag = "stale"

\* load_usb is a loader as main expects it: dol is allocated at most once, and the
\* result is that it was.
CallState  == IF pc \in {"start", "done"} THEN "idle" ELSE "running"
CallResult == pc = "done" /\ res
HasDol     == alloc > 0
Promise == INSTANCE LoaderPromise
               WITH MaxPaths <- 1, num_paths <- 1, cand <- 1,
                    st <- CallState, res <- CallResult, dol <- HasDol
KeepsPromise == Promise!Spec

\* Whatever the host does, the wait for its answer ends; and after the host's own
\* answer load_usb returns, unless the host goes away, misses both bytes, or both
\* sides have answered.  Nothing else can hang the console, though no receive after
\* the handshake has a timeout.
WaitsEnd ==
    /\ pc \in {"flush", "ready", "check", "poll"} ~> pc \in {"reply", "size", "done"}
    /\ (pc = "size" /\ ack.tag \in {"ready", "ok"})
           ~> (pc = "done" \/ host = "gone" \/ lost = {GC_READY, GC_OK} \/ Crossed)

-----------------------------------------------------------------------------
(* Why WithinBuffer holds: an inductive invariant that implies it.         *)

Before == {"start", "flush", "ready", "check", "poll", "reply", "size", "alloc"}

StoreTypes ==
    /\ pc \in PCs
    /\ toGC \in Seq(Elems) /\ buffer \in Seq(Elems)
    /\ alloc \in Nat /\ pointer \in Nat
    /\ res \in BOOLEAN

\* Up to dol_alloc nothing is stored; between chunks the buffer is full up to the
\* pointer and some of the file is missing; a receive fills up the next chunk.
StoreInv ==
    /\ StoreTypes
    /\ pc \in Before => alloc = 0 /\ pointer = 0 /\ buffer = <<>> /\ res
    /\ pc \in {"chunk", "receive"} =>
           size \in Nat /\ size > 0 /\ pointer + size = alloc /\ res
    /\ pc = "chunk" => Len(buffer) = pointer
    /\ pc = "receive" =>
           /\ pointer <= Len(buffer) /\ Len(buffer) < want
           /\ want = pointer + (IF size > Chunk THEN Chunk ELSE size)
    /\ pc = "done" => /\ res => alloc > 0 /\ Len(buffer) = alloc
                      /\ ~res => alloc = 0
=============================================================================
