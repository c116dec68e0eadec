---------------------------- MODULE UsbLoad_proofs ----------------------------
(***************************************************************************)
(* What holds of load_usb for any file, any chunk and memory size, any     *)
(* timeout, and whatever bytes come in: it writes within the buffer, it is *)
(* a loader as main expects it (LoaderPromise), the size and the file are  *)
(* what the host sent (SizeFramed, ImageIsFile), and neither side waits    *)
(* for the other as long as one of load_usb's bytes is heard               *)
(* (NoMutualWait).                                                         *)
(***************************************************************************)
EXTENDS UsbLoad, SequenceTheorems, TLAPS

USE DEF PCs, Before

\* Before the call nothing is stored.
LEMMA InitInv == Init => StoreInv
  <1> SUFFICES ASSUME Init PROVE StoreInv
    OBVIOUS
  <1>1. StoreTypes
    BY DEF Init, StoreTypes
  <1> QED
    BY <1>1 DEF Init, StoreInv

\* The elements that the world adds to the channel are elements.
LEMMA ElemTypes ==
    /\ Elem("ready", 0) \in Elems /\ Elem("ok", 0) \in Elems
    /\ \A v \in Nat : /\ Elem("stale", v) \in Elems /\ Elem("size", v) \in Elems
                      /\ Elem("data", v) \in Elems
  BY DEF Elem, Elems

\* What the steps that do not store leave alone.
LEMMA KeepsStore ==
    ASSUME StoreInv, UNCHANGED <<size, alloc, pointer, buffer, want, res>>,
           toGC' \in Seq(Elems), pc' \in PCs,
           pc' = pc \/ (pc \in Before /\ pc' \in Before)
    PROVE  StoreInv'
  BY DEF StoreInv, StoreTypes

\* A handshake that fails leaves no buffer and no result.
LEMMA FailureInv ==
    ASSUME StoreInv, pc \in Before, pc' = "done", res' = FALSE,
           UNCHANGED <<toGC, alloc, pointer, buffer>>
    PROVE  StoreInv'
  BY DEF StoreInv, StoreTypes

\* The steps up to the size, and the steps of the rest of the world.
LEMMA HandshakeInv ==
    ASSUME StoreInv,
           Start \/ Flush \/ SendReady \/ Check \/ Poll \/ Reply \/ RecvSize
    PROVE  StoreInv'
  <1>1. toGC \in Seq(Elems) /\ pc \in PCs
    BY DEF StoreInv, StoreTypes
  <1>2. CASE Start
    <2>1. /\ pc = "start" /\ UNCHANGED <<toGC, size, alloc, pointer, buffer, want>>
          /\ (pc' = "flush" /\ res' = res) \/ (pc' = "done" /\ res' = FALSE)
      BY <1>2 DEF Start, link, store
    <2> QED
      BY <1>1, <2>1, KeepsStore, FailureInv
  <1>3. CASE Flush
    <2>1. /\ pc = "flush" /\ pc' = "ready" /\ toGC' = <<>>
          /\ UNCHANGED <<size, alloc, pointer, buffer, want, res>>
      BY <1>3 DEF Flush, store
    <2>2. toGC' \in Seq(Elems)
      BY <2>1
    <2> QED
      BY <2>1, <2>2, KeepsStore
  <1>4. CASE SendReady \/ Reply
    <2>1. /\ pc \in {"ready", "reply"} /\ pc' \in {"check", "size"} /\ toGC' = toGC
          /\ UNCHANGED <<size, alloc, pointer, buffer, want, res>>
      BY <1>4 DEF SendReady, Reply, store
    <2> QED
      BY <1>1, <2>1, KeepsStore
  <1>5. CASE Check
    <2>1. /\ pc = "check" /\ UNCHANGED <<toGC, size, alloc, pointer, buffer, want>>
          /\ (pc' = "poll" /\ res' = res) \/ (pc' = "done" /\ res' = FALSE)
      BY <1>5 DEF Check, link, store
    <2> QED
      BY <1>1, <2>1, KeepsStore, FailureInv
  <1>6. CASE Poll
    <2>1. pc = "poll" /\ UNCHANGED <<size, alloc, pointer, buffer, want, res>>
      BY <1>6 DEF Poll, store
    <2>2. toGC' \in Seq(Elems)
      BY <1>1, <1>6 DEF Poll
    <2>3. pc' \in {"check", "reply", "size"}
      BY <1>6 DEF Poll
    <2> QED
      BY <2>1, <2>2, <2>3, KeepsStore
  <1>7. CASE RecvSize
    <2>1. /\ pc = "size" /\ pc' \in {"size", "alloc"}
          /\ UNCHANGED <<size, alloc, pointer, buffer, want, res>>
      BY <1>7 DEF RecvSize, store
    <2>2. toGC' \in Seq(Elems)
      BY <1>1, <1>7 DEF RecvSize
    <2> QED
      BY <2>1, <2>2, KeepsStore
  <1> QED
    BY <1>2, <1>3, <1>4, <1>5, <1>6, <1>7

\* At the start of the buffer, all of it is missing.
LEMMA FromStart == \A p, s, a : p = 0 /\ s \in Nat /\ a = s => p + s = a
  OBVIOUS

\* A size that is accepted is the size of the buffer.
LEMMA AllocInv == ASSUME StoreInv, Alloc PROVE StoreInv'
  <1>1. /\ pc = "alloc" /\ toGC \in Seq(Elems)
        /\ alloc = 0 /\ pointer = 0 /\ buffer = <<>> /\ res = TRUE
    BY DEF Alloc, StoreInv, StoreTypes
  <1>2. UNCHANGED <<toGC, pointer, buffer>>
    BY DEF Alloc, link
  <1>3. CASE pc' = "done" /\ res' = FALSE /\ alloc' = alloc
    BY <1>1, <1>2, <1>3, FailureInv
  <1>4. CASE pc' = "chunk" /\ size' \in 1..Memory /\ alloc' = size' /\ res' = res
    <2>1. /\ size' \in Nat /\ size' > 0 /\ pointer' = 0 /\ buffer' = <<>>
          /\ Len(buffer') = 0 /\ pointer' + size' = alloc' /\ res' = TRUE
      <3>1. size' \in Nat /\ size' > 0
        BY <1>4, UsbLoadAssumption
      <3>2. pointer' = 0 /\ alloc' = size'
        BY <1>1, <1>2, <1>4
      <3>3. buffer' = <<>> /\ res' = TRUE
        BY <1>1, <1>2, <1>4
      <3>4. Len(buffer') = 0
        BY <3>3
      <3>5. pointer' + size' = alloc'
        BY <3>1, <3>2, FromStart
      <3> QED
        BY <3>1, <3>2, <3>3, <3>4, <3>5
    <2>2. StoreTypes'
      BY <1>1, <1>2, <1>4, <2>1 DEF StoreTypes
    <2> QED
      BY <1>4, <2>1, <2>2 DEF StoreInv
  <1> QED
    BY <1>3, <1>4 DEF Alloc

\* A receive is set up for a full chunk or for the rest.
LEMMA NextChunkInv == ASSUME StoreInv, NextChunk PROVE StoreInv'
  <1>1. /\ pc = "chunk" /\ size \in Nat /\ size > 0 /\ pointer \in Nat
        /\ pointer + size = alloc /\ res /\ Len(buffer) = pointer
        /\ UNCHANGED <<toGC, size, alloc, pointer, buffer, res>>
        /\ want' = pointer + (IF size > Chunk THEN Chunk ELSE size)
    BY DEF NextChunk, link, StoreInv, StoreTypes
  <1>2. pc' = "receive"
    BY <1>1 DEF NextChunk
  <1>3. StoreTypes'
    BY <1>1, <1>2 DEF StoreInv, StoreTypes
  <1>4. Len(buffer) < want'
    BY <1>1, UsbLoadAssumption
  <1> QED
    BY <1>1, <1>2, <1>3, <1>4 DEF StoreInv

\* A byte goes to the end of the buffer, and the last one of a chunk moves on.
LEMMA RecvDataInv == ASSUME StoreInv, RecvData PROVE StoreInv'
  <1>1. /\ pc = "receive" /\ size \in Nat /\ size > 0 /\ pointer \in Nat /\ alloc \in Nat
        /\ pointer + size = alloc /\ res = TRUE /\ toGC \in Seq(Elems) /\ toGC # <<>>
        /\ buffer \in Seq(Elems) /\ pointer <= Len(buffer) /\ Len(buffer) < want
        /\ want = pointer + (IF size > Chunk THEN Chunk ELSE size)
    BY DEF RecvData, StoreInv, StoreTypes
  <1>2. toGC' = Tail(toGC) /\ buffer' = Append(buffer, Head(toGC))
        /\ UNCHANGED <<alloc, want, res>>
    BY DEF RecvData
  <1>3. /\ toGC' \in Seq(Elems) /\ buffer' \in Seq(Elems)
        /\ Len(buffer') = Len(buffer) + 1 /\ Len(buffer) \in Nat
    BY <1>1, <1>2
  <1>4. CASE Len(buffer') < want /\ UNCHANGED <<pc, size, pointer>>
    <2>1. StoreTypes'
      BY <1>1, <1>2, <1>3, <1>4 DEF StoreTypes
    <2> QED
      BY <1>1, <1>2, <1>3, <1>4, <2>1 DEF StoreInv
  <1>5. CASE /\ Len(buffer') = want /\ size > Chunk
             /\ size' = size - Chunk /\ pointer' = pointer + Chunk /\ pc' = "chunk"
    <2>1. /\ size' \in Nat /\ size' > 0 /\ pointer' \in Nat
          /\ pointer' + size' = alloc /\ Len(buffer') = pointer'
      <3>1. Chunk \in Nat /\ want = pointer + Chunk
        BY <1>1, <1>5, UsbLoadAssumption
      <3>2. /\ size \in Nat /\ pointer \in Nat /\ pointer + size = alloc
            /\ size > Chunk /\ size' = size - Chunk /\ pointer' = pointer + Chunk
            /\ Len(buffer') = want
        BY <1>1, <1>5
      <3> QED
        BY <3>1, <3>2
    <2>2. StoreTypes'
      BY <1>1, <1>2, <1>3, <1>5, <2>1 DEF StoreTypes
    <2> QED
      BY <1>1, <1>2, <1>5, <2>1, <2>2 DEF StoreInv
  <1>6. CASE /\ Len(buffer') = want /\ size <= Chunk
             /\ pc' = "done" /\ UNCHANGED <<size, pointer>>
    <2>1. Len(buffer') = alloc /\ alloc > 0
      BY <1>1, <1>6, UsbLoadAssumption
    <2>2. StoreTypes'
      BY <1>1, <1>2, <1>3, <1>6 DEF StoreTypes
    <2> QED
      BY <1>1, <1>2, <1>6, <2>1, <2>2 DEF StoreInv
  <1> QED
    BY <1>4, <1>5, <1>6 DEF RecvData

\* The rest of the world only adds elements to the channel.
LEMMA WorldInv ==
    ASSUME StoreInv, sent \in Nat,
           \/ Tick \/ Host \/ HostGone \/ \E v \in Byte : StaleByte(v)
           \/ UNCHANGED vars
    PROVE  StoreInv'
  <1>1. UNCHANGED <<pc, size, alloc, pointer, buffer, want, res>>
    BY DEF Tick, Host, HostStart, HostHear, HostSend, HostGone, StaleByte, vars, store
  <1>2. toGC \in Seq(Elems) /\ pc \in PCs
    BY DEF StoreInv, StoreTypes
  <1>3. toGC' \in Seq(Elems)
    <2>1. CASE Tick \/ HostGone \/ UNCHANGED vars
      BY <1>2, <2>1 DEF Tick, HostGone, vars, link
    <2>2. CASE HostStart \/ HostHear
      BY <1>2, <2>2, ElemTypes, SMTT(20) DEF HostStart, HostHear
    <2>3. CASE HostSend
      <3>1. sent + 1 \in Nat /\ (sent >= 4 => sent - 3 \in Nat)
        BY <2>3 DEF HostSend
      <3> QED
        BY <1>2, <2>3, <3>1, ElemTypes DEF HostSend
    <2>4. ASSUME NEW v \in Byte, StaleByte(v) PROVE toGC' \in Seq(Elems)
      <3>1. v \in Nat
        BY UsbLoadAssumption DEF Byte
      <3> QED
        BY <1>2, <2>4, <3>1, ElemTypes DEF StaleByte
    <2> QED
      BY <2>1, <2>2, <2>3, <2>4 DEF Host
  <1> QED
    BY <1>1, <1>2, <1>3, KeepsStore

\* The host counts what it has sent.
LEMMA SentInv == sent \in Nat /\ [Next]_vars => sent' \in Nat
  <1> SUFFICES ASSUME sent \in Nat, [Next]_vars PROVE sent' \in Nat
    OBVIOUS
  <1>1. Program \/ UNCHANGED vars => sent' = sent
    BY DEF Program, Start, Flush, SendReady, Check, Poll, Reply, RecvSize, Alloc,
           NextChunk, RecvData, vars, pcside
  <1>2. Tick \/ HostGone \/ (\E v \in Byte : StaleByte(v)) => sent' = sent
    BY DEF Tick, HostGone, StaleByte, pcside
  <1>3. Host => sent' \in {sent, sent + 1}
    BY DEF Host, HostStart, HostHear, HostSend
  <1> QED
    BY <1>1, <1>2, <1>3 DEF Next

\* Every step keeps StoreInv.
LEMMA NextInv == StoreInv /\ sent \in Nat /\ [Next]_vars => StoreInv'
  BY HandshakeInv, AllocInv, NextChunkInv, RecvDataInv, WorldInv DEF Next, Program

\* The inductive invariant holds for every size the host may send.
THEOREM StoreInvariant == Spec => []StoreInv
  <1> DEFINE Ind == StoreInv /\ sent \in Nat
  <1>1. Init => Ind
    BY InitInv DEF Init
  <1>2. Ind /\ [Next]_vars => Ind'
    BY NextInv, SentInv
  <1>3. Ind => StoreInv
    OBVIOUS
  <1> HIDE DEF Ind
  <1> QED
    BY <1>1, <1>2, <1>3, PTL DEF Spec

\* load_usb writes only inside the buffer dol_alloc obtained, through every chunk,
\* for every chunk size and every size received.
THEOREM WritesWithinBuffer == Spec => []WithinBuffer
  <1>1. StoreInv => WithinBuffer
    BY UsbLoadAssumption DEF StoreInv, StoreTypes, WithinBuffer
  <1> QED
    BY <1>1, StoreInvariant, PTL

-----------------------------------------------------------------------------
(* load_usb implements LoaderPromise.                                      *)

\* What main sees of load_usb, by the place it is at.
LEMMA ViewFacts ==
    /\ pc \in {"start", "done"} => CallState = "idle"
    /\ pc \notin {"start", "done"} => CallState = "running"
    /\ pc # "done" => CallResult = FALSE
  BY DEF CallState, CallResult

\* The same for the state after a step.
LEMMA ViewFactsNext ==
    /\ pc' \in {"start", "done"} => CallState' = "idle"
    /\ pc' \notin {"start", "done"} => CallState' = "running"
    /\ pc' # "done" => CallResult' = FALSE
  BY DEF CallState, CallResult

\* A step inside of load_usb that does not allocate cannot be seen.
LEMMA InsideStutters ==
    ASSUME pc \notin {"start", "done"}, pc' \notin {"start", "done"}, alloc' = alloc
    PROVE  UNCHANGED Promise!vars
  BY ViewFacts, ViewFactsNext DEF Promise!vars, HasDol

\* Returning without a buffer, main is told so.
LEMMA FailureReturns ==
    ASSUME pc \in Before \ {"start"}, pc' = "done", res' = FALSE, alloc = 0, alloc' = 0
    PROVE  Promise!Return
  <1>1. CallResult' = FALSE /\ HasDol = FALSE /\ HasDol' = FALSE
    BY DEF CallResult, HasDol
  <1> QED
    BY <1>1, ViewFacts, ViewFactsNext DEF Promise!Return

\* main calls load_usb, which returns at once if there is no USB Gecko.
LEMMA StartPromise ==
    ASSUME StoreInv, Start
    PROVE  Promise!Call \/ UNCHANGED Promise!vars
  <1>1. pc = "start" /\ alloc' = alloc
    BY DEF Start, store
  <1>2. CASE pc' = "flush"
    BY <1>1, <1>2, ViewFacts, ViewFactsNext DEF Promise!Call, HasDol
  <1>3. CASE pc' = "done" /\ res' = FALSE
    <2>1. CallResult' = FALSE
      BY <1>3 DEF CallResult
    <2> QED
      BY <1>1, <1>3, <2>1, ViewFacts, ViewFactsNext DEF Promise!vars, HasDol
  <1> QED
    BY <1>2, <1>3 DEF Start

\* Of the handshake main sees only that it failed.
LEMMA HandshakePromise ==
    ASSUME StoreInv, Flush \/ SendReady \/ Check \/ Poll \/ Reply \/ RecvSize
    PROVE  Promise!Return \/ UNCHANGED Promise!vars
  <1>1. pc \in Before \ {"start", "alloc"} /\ alloc' = alloc
    BY DEF Flush, SendReady, Check, Poll, Reply, RecvSize, store
  <1>2. alloc = 0
    BY <1>1 DEF StoreInv
  <1>3. \/ pc' \in Before \ {"start"}
        \/ pc' = "done" /\ res' = FALSE
    <2>1. Poll => pc' \in {"check", "reply", "size"}
      BY DEF Poll
    <2>2. Flush \/ SendReady \/ Reply \/ RecvSize => pc' \in Before \ {"start"}
      BY DEF Flush, SendReady, Reply, RecvSize
    <2>3. Check => pc' = "poll" \/ (pc' = "done" /\ res' = FALSE)
      BY DEF Check
    <2> QED
      BY <2>1, <2>2, <2>3
  <1> QED
    BY <1>1, <1>2, <1>3, InsideStutters, FailureReturns

\* dol_alloc gives the buffer, or load_usb returns.
LEMMA AllocPromise ==
    ASSUME StoreInv, Alloc
    PROVE  Promise!Load \/ Promise!Return
  <1>1. pc = "alloc" /\ alloc = 0
    BY DEF Alloc, StoreInv
  <1>2. CASE pc' = "chunk" /\ size' \in 1..Memory /\ alloc' = size'
    <2>1. HasDol = FALSE /\ HasDol' = TRUE
      BY <1>1, <1>2, UsbLoadAssumption DEF HasDol
    <2> QED
      BY <1>1, <1>2, <2>1, ViewFacts, ViewFactsNext DEF Promise!Load
  <1>3. CASE pc' = "done" /\ res' = FALSE /\ alloc' = alloc
    BY <1>1, <1>3, FailureReturns
  <1> QED
    BY <1>2, <1>3 DEF Alloc

\* At the end of the file the result is a success, and there is a buffer.
LEMMA ChunkPromise ==
    ASSUME StoreInv, StoreInv', NextChunk \/ RecvData
    PROVE  Promise!Return \/ UNCHANGED Promise!vars
  <1>1. pc \in {"chunk", "receive"} /\ alloc' = alloc /\ res' = TRUE /\ alloc \in Nat
    BY DEF NextChunk, RecvData, StoreInv, StoreTypes
  <1>2. CASE pc' \in {"chunk", "receive"}
    BY <1>1, <1>2, InsideStutters
  <1>3. CASE pc' = "done"
    <2>1. alloc > 0
      BY <1>1, <1>3 DEF StoreInv
    <2>2. CallResult' = TRUE /\ HasDol = TRUE /\ HasDol' = TRUE
      BY <1>1, <1>3, <2>1 DEF CallResult, HasDol
    <2> QED
      BY <1>1, <1>3, <2>2, ViewFacts, ViewFactsNext DEF Promise!Return
  <1> QED
    BY <1>1, <1>2, <1>3 DEF NextChunk, RecvData

\* What goes on outside of load_usb, main does not see.
LEMMA WorldPromise ==
    ASSUME Tick \/ Host \/ HostGone \/ (\E v \in Byte : StaleByte(v)) \/ UNCHANGED vars
    PROVE  UNCHANGED Promise!vars
  <1>1. UNCHANGED <<pc, alloc, res>>
    BY DEF Tick, Host, HostStart, HostHear, HostSend, HostGone, StaleByte, vars, store
  <1> QED
    BY <1>1 DEF Promise!vars, CallState, CallResult, HasDol

\* load_usb is a loader as main expects it: at most one buffer is allocated, and the
\* result is that it was, whatever the host sends and whenever it stops.
THEOREM UsbRefinement == Spec => KeepsPromise
  <1>1. Init => Promise!Init
    BY ViewFacts DEF Init, Promise!Init, HasDol
  <1>2. StoreInv /\ StoreInv' /\ [Next]_vars => [Promise!Next]_(Promise!vars)
    <2> SUFFICES ASSUME StoreInv, StoreInv', [Next]_vars
                 PROVE  [Promise!Next]_(Promise!vars)
      OBVIOUS
    <2>1. CASE Program
      BY <2>1, StartPromise, HandshakePromise, AllocPromise, ChunkPromise
         DEF Program, Promise!Next
    <2> QED
      BY <2>1, WorldPromise DEF Next
  <1> QED
    BY <1>1, <1>2, StoreInvariant, PTL DEF Spec, KeepsPromise, Promise!Spec

-----------------------------------------------------------------------------
(* The channel from the host.  All that has come in since the flush, taken *)
(* as one sequence (the bytes of the size, the buffer, and what is still   *)
(* to be read), is m bytes of an earlier session, r times the host's       *)
(* ready, o times its answer, and the n elements of size and file it has   *)
(* sent, where r and o are 0 or 1.                                         *)

StaleElems == {Elem("stale", v) : v \in Byte}

\* The n-th element of size and file.
Nth(n) == IF n <= 4 THEN Elem("size", n) ELSE Elem("data", n - 4)

\* What may be at position j.
Expected(j, m, r, o) ==
    IF j <= m THEN StaleElems
    ELSE IF j <= m + r THEN {Elem("ready", 0)}
    ELSE IF j <= m + r + o THEN {Elem("ok", 0)}
    ELSE {Nth(j - (m + r + o))}

\* The element at position j of w, b and q taken as one.
At(w, b, q, j) ==
    IF j <= Len(w) THEN w[j]
    ELSE IF j <= Len(w) + Len(b) THEN b[j - Len(w)]
    ELSE q[j - Len(w) - Len(b)]

Form(w, b, q, n, m, r, o) ==
    /\ Len(w) + Len(b) + Len(q) = m + r + o + n
    /\ \A j \in 1..(m + r + o + n) : At(w, b, q, j) \in Expected(j, m, r, o)

\* An element that comes in is the next one.
LEMMA FormAppend ==
    ASSUME NEW w \in Seq(Elems), NEW b \in Seq(Elems), NEW q \in Seq(Elems),
           NEW n \in Nat, NEW m \in Nat, NEW r \in {0, 1}, NEW o \in {0, 1},
           Form(w, b, q, n, m, r, o)
    PROVE  /\ \A e \in Elems : e \in StaleElems /\ r = 0 /\ o = 0 /\ n = 0 =>
                  Form(w, b, Append(q, e), n, m + 1, r, o)
           /\ r = 0 /\ o = 0 /\ n = 0 =>
                  Form(w, b, Append(q, Elem("ready", 0)), n, m, 1, o)
           /\ o = 0 /\ n = 0 => Form(w, b, Append(q, Elem("ok", 0)), n, m, r, 1)
           /\ Form(w, b, Append(q, Nth(n + 1)), n + 1, m, r, o)
  <1>1. ASSUME NEW e \in Elems
        PROVE  /\ Len(w) + Len(b) + Len(Append(q, e)) = m + r + o + n + 1
               /\ \A j \in 1..(m + r + o + n) :
                      At(w, b, Append(q, e), j) \in Expected(j, m, r, o)
               /\ At(w, b, Append(q, e), m + r + o + n + 1) = e
    <2>1. Len(Append(q, e)) = Len(q) + 1 /\ Append(q, e)[Len(q) + 1] = e
      OBVIOUS
    <2>2. \A j \in 1..Len(q) : Append(q, e)[j] = q[j]
      OBVIOUS
    <2>3. Len(w) + Len(b) + Len(q) = m + r + o + n
      BY DEF Form
    <2>4. ASSUME NEW j \in 1..(m + r + o + n)
          PROVE  At(w, b, Append(q, e), j) = At(w, b, q, j)
      BY <2>2, <2>3 DEF At
    <2>5. At(w, b, Append(q, e), m + r + o + n + 1) = e
      BY <2>1, <2>3 DEF At
    <2> QED
      BY <2>1, <2>3, <2>4, <2>5 DEF Form
  <1>2. ASSUME NEW e \in Elems, e \in StaleElems, r = 0, o = 0, n = 0
        PROVE  Form(w, b, Append(q, e), n, m + 1, r, o)
    BY <1>1, <1>2 DEF Form, Expected
  <1>3. ASSUME r = 0, o = 0, n = 0
        PROVE  Form(w, b, Append(q, Elem("ready", 0)), n, m, 1, o)
    BY <1>1, <1>3, ElemTypes DEF Form, Expected
  <1>4. ASSUME o = 0, n = 0
        PROVE  Form(w, b, Append(q, Elem("ok", 0)), n, m, r, 1)
    BY <1>1, <1>4, ElemTypes DEF Form, Expected
  <1>5. Form(w, b, Append(q, Nth(n + 1)), n + 1, m, r, o)
    <2>1. Nth(n + 1) \in Elems
      BY ElemTypes DEF Nth
    <2>2. Expected(m + r + o + n + 1, m, r, o) = {Nth(n + 1)}
      BY DEF Expected
    <2> QED
      BY <1>1, <2>1, <2>2 DEF Form
  <1> QED
    BY <1>2, <1>3, <1>4, <1>5

\* An element that is read as a byte of the size or of the file keeps its place.
LEMMA FormReceive ==
    ASSUME NEW w \in Seq(Elems), NEW b \in Seq(Elems), NEW q \in Seq(Elems), q # <<>>,
           NEW n \in Nat, NEW m \in Nat, NEW r \in {0, 1}, NEW o \in {0, 1},
           Form(w, b, q, n, m, r, o)
    PROVE  /\ b = <<>> => Form(Append(w, Head(q)), b, Tail(q), n, m, r, o)
           /\ Form(w, Append(b, Head(q)), Tail(q), n, m, r, o)
  <1>1. /\ Len(Tail(q)) = Len(q) - 1 /\ Len(q) \in Nat /\ Len(q) > 0
        /\ Head(q) = q[1] /\ \A j \in 1..Len(Tail(q)) : Tail(q)[j] = q[j + 1]
    OBVIOUS
  <1>2. /\ Len(w) \in Nat /\ Len(b) \in Nat
        /\ Len(Append(w, Head(q))) = Len(w) + 1 /\ Len(Append(b, Head(q))) = Len(b) + 1
        /\ \A j \in 1..Len(w) : Append(w, Head(q))[j] = w[j]
        /\ Append(w, Head(q))[Len(w) + 1] = Head(q)
        /\ \A j \in 1..Len(b) : Append(b, Head(q))[j] = b[j]
        /\ Append(b, Head(q))[Len(b) + 1] = Head(q)
    OBVIOUS
  <1>3. Len(w) + Len(b) + Len(q) = m + r + o + n
    BY DEF Form
  <1>4. ASSUME b = <<>>, NEW j \in 1..(m + r + o + n)
        PROVE  At(Append(w, Head(q)), b, Tail(q), j) = At(w, b, q, j)
    <2>1. Len(b) = 0
      BY <1>4
    <2>2. CASE j <= Len(w) + 1
      BY <1>1, <1>2, <1>3, <2>1, <2>2 DEF At
    <2>3. CASE j > Len(w) + 1
      <3>0. /\ j - (Len(w) + 1) - Len(b) = j - Len(w) - 1
            /\ j - Len(w) - Len(b) = j - Len(w)
            /\ ~(j <= Len(w) + 1) /\ ~(j <= (Len(w) + 1) + Len(b))
            /\ ~(j <= Len(w)) /\ ~(j <= Len(w) + Len(b))
        BY <1>2, <2>1, <2>3
      <3>1. At(Append(w, Head(q)), b, Tail(q), j) = Tail(q)[j - Len(w) - 1]
        BY <1>2, <3>0 DEF At
      <3>2. Tail(q)[j - Len(w) - 1] = q[j - Len(w)]
        <4>1. j - Len(w) - 1 \in 1..Len(Tail(q)) /\ (j - Len(w) - 1) + 1 = j - Len(w)
          BY <1>1, <1>2, <1>3, <2>1, <2>3
        <4> QED
          BY <1>1, <4>1
      <3>3. At(w, b, q, j) = q[j - Len(w)]
        BY <3>0 DEF At
      <3> QED
        BY <3>1, <3>2, <3>3
    <2> QED
      BY <1>2, <2>2, <2>3
  <1>5. ASSUME NEW j \in 1..(m + r + o + n)
        PROVE  At(w, Append(b, Head(q)), Tail(q), j) = At(w, b, q, j)
    <2>2. CASE j <= Len(w) + Len(b) + 1
      BY <1>1, <1>2, <1>3, <2>2 DEF At
    <2>3. CASE j > Len(w) + Len(b) + 1
      <3>0. /\ j - Len(w) - (Len(b) + 1) = j - Len(w) - Len(b) - 1
            /\ ~(j <= Len(w)) /\ ~(j <= Len(w) + Len(b)) /\ ~(j <= Len(w) + (Len(b) + 1))
        BY <1>2, <2>3
      <3>1. At(w, Append(b, Head(q)), Tail(q), j) = Tail(q)[j - Len(w) - Len(b) - 1]
        BY <1>2, <3>0 DEF At
      <3>2. Tail(q)[j - Len(w) - Len(b) - 1] = q[j - Len(w) - Len(b)]
        <4>1. /\ j - Len(w) - Len(b) - 1 \in 1..Len(Tail(q))
              /\ (j - Len(w) - Len(b) - 1) + 1 = j - Len(w) - Len(b)
          BY <1>1, <1>2, <1>3, <2>3
        <4> QED
          BY <1>1, <4>1
      <3>3. At(w, b, q, j) = q[j - Len(w) - Len(b)]
        BY <3>0 DEF At
      <3> QED
        BY <3>1, <3>2, <3>3
    <2> QED
      BY <1>2, <2>2, <2>3
  <1> QED
    BY <1>1, <1>2, <1>3, <1>4, <1>5 DEF Form

\* An element that is dropped in the wait for an answer is the first one.
LEMMA FormDrop ==
    ASSUME NEW q \in Seq(Elems), q # <<>>,
           NEW n \in Nat, NEW m \in Nat, NEW r \in {0, 1}, NEW o \in {0, 1},
           Form(<<>>, <<>>, q, n, m, r, o)
    PROVE  /\ Head(q) \in Expected(1, m, r, o)
           /\ m > 0 => Form(<<>>, <<>>, Tail(q), n, m - 1, r, o)
           /\ m = 0 /\ r = 1 => Form(<<>>, <<>>, Tail(q), n, m, 0, o)
           /\ m = 0 /\ r = 0 /\ o = 1 => Form(<<>>, <<>>, Tail(q), n, m, r, 0)
  <1>1. /\ Len(Tail(q)) = Len(q) - 1 /\ Len(q) \in Nat /\ Len(q) > 0
        /\ Head(q) = q[1] /\ \A j \in 1..Len(Tail(q)) : Tail(q)[j] = q[j + 1]
    OBVIOUS
  <1>2. \A s : At(<<>>, <<>>, s, 1) = s[1] /\ \A j \in Nat \ {0} : At(<<>>, <<>>, s, j) = s[j]
    BY DEF At
  <1>3. Len(q) = m + r + o + n
    BY <1>1 DEF Form
  <1>4. \A j \in 1..Len(q) : q[j] \in Expected(j, m, r, o)
    BY <1>2, <1>3 DEF Form
  <1>5. ASSUME NEW M \in Nat, NEW R \in {0, 1}, NEW O \in {0, 1},
               M + R + O = m + r + o - 1,
               \A j \in Nat \ {0} : Expected(j + 1, m, r, o) = Expected(j, M, R, O)
        PROVE  Form(<<>>, <<>>, Tail(q), n, M, R, O)
    <2>0. Len(Tail(q)) = M + R + O + n /\ Len(q) = (M + R + O + n) + 1
      BY <1>1, <1>3, <1>5
    <2>1. Len(<<>>) + Len(<<>>) + Len(Tail(q)) = M + R + O + n
      BY <2>0
    <2>2. ASSUME NEW j \in 1..(M + R + O + n)
          PROVE  At(<<>>, <<>>, Tail(q), j) \in Expected(j, M, R, O)
      <3>1. j \in Nat \ {0} /\ j \in 1..Len(Tail(q)) /\ j + 1 \in 1..Len(q)
        BY <2>0
      <3>2. At(<<>>, <<>>, Tail(q), j) = Tail(q)[j]
        BY <1>2, <3>1
      <3>3. Tail(q)[j] = q[j + 1]
        BY <1>1, <3>1
      <3> QED
        BY <1>4, <1>5, <3>1, <3>2, <3>3
    <2> QED
      BY <2>1, <2>2 DEF Form
  <1>6. ASSUME m > 0 PROVE Form(<<>>, <<>>, Tail(q), n, m - 1, r, o)
    <2>1. ASSUME NEW j \in Nat \ {0}
          PROVE  Expected(j + 1, m, r, o) = Expected(j, m - 1, r, o)
      <3>1. /\ j + 1 <= m <=> j <= m - 1
            /\ j + 1 <= m + r <=> j <= (m - 1) + r
            /\ j + 1 <= m + r + o <=> j <= (m - 1) + r + o
            /\ (j + 1) - (m + r + o) = j - ((m - 1) + r + o)
        OBVIOUS
      <3> QED
        BY <3>1 DEF Expected
    <2> QED
      <3>1. m - 1 \in Nat /\ (m - 1) + r + o = m + r + o - 1
        BY <1>6
      <3> QED
        BY <1>5, <2>1, <3>1
  <1>7. ASSUME m = 0, r = 1 PROVE Form(<<>>, <<>>, Tail(q), n, m, 0, o)
    <2>1. ASSUME NEW j \in Nat \ {0}
          PROVE  Expected(j + 1, m, r, o) = Expected(j, m, 0, o)
      <3>1. /\ ~(j + 1 <= m) /\ ~(j <= m)
            /\ ~(j + 1 <= m + r) /\ ~(j <= m + 0)
            /\ j + 1 <= m + r + o <=> j <= m + 0 + o
            /\ (j + 1) - (m + r + o) = j - (m + 0 + o)
        BY <1>7
      <3> QED
        BY <3>1 DEF Expected
    <2> QED
      BY <1>5, <1>7, <2>1, SMTT(20)
  <1>8. ASSUME m = 0, r = 0, o = 1 PROVE Form(<<>>, <<>>, Tail(q), n, m, r, 0)
    <2>1. ASSUME NEW j \in Nat \ {0}
          PROVE  Expected(j + 1, m, r, o) = Expected(j, m, r, 0)
      <3>1. /\ ~(j + 1 <= m) /\ ~(j <= m)
            /\ ~(j + 1 <= m + r) /\ ~(j <= m + r)
            /\ ~(j + 1 <= m + r + o) /\ ~(j <= m + r + 0)
            /\ (j + 1) - (m + r + o) = j - (m + r + 0)
        BY <1>8
      <3> QED
        BY <3>1 DEF Expected
    <2> QED
      BY <1>5, <1>8, <2>1
  <1> QED
    BY <1>1, <1>4, <1>6, <1>7, <1>8

-----------------------------------------------------------------------------
(* The size                                                                *)

\* Division by the values of a byte.
LEMMA QuotientRemainder ==
    ASSUME NEW a \in Nat,
           NEW q \in Nat, q = a \div Base, NEW r \in Nat, r = a % Base,
           NEW p \in Nat, p = Base * q
    PROVE  a = p + r
  <1>1. Base \in Nat /\ Base > 1
    BY UsbLoadAssumption
  <1> QED
    BY <1>1, Z3

LEMMA Divide ==
    ASSUME NEW a \in Nat
    PROVE  /\ a \div Base \in Nat /\ a % Base \in Byte
           /\ a = Base * (a \div Base) + (a % Base)
  <1>1. Base \in Nat /\ Base > 0
    BY UsbLoadAssumption
  <1>2. a % Base \in 0..(Base - 1)
    BY <1>1
  <1>3. a \div Base \in Nat
    BY <1>1
  <1>4. a % Base \in Nat /\ Base * (a \div Base) \in Nat
    BY <1>1, <1>2, <1>3
  <1>5. a = Base * (a \div Base) + (a % Base)
    BY <1>3, <1>4, QuotientRemainder, ZenonT(40)
  <1> QED
    BY <1>2, <1>3, <1>5 DEF Byte

\* A byte is a byte, whoever meant what by it.
LEMMA ValueTypes ==
    ASSUME file \in Nat,
           NEW e \in StaleElems \cup {Elem("ready", 0), Elem("ok", 0)}
                      \cup {Nth(j) : j \in Nat}
    PROVE  Value(e) \in Byte
  <1>1. {PC_READY, PC_OK, 0} \subseteq Byte
    BY UsbLoadAssumption DEF Byte
  <1>2. \A j \in Nat : SizeByte(file, j) \in Byte
    <2>1. /\ file \div Base \in Nat /\ (file \div Base) \div Base \in Nat
          /\ ((file \div Base) \div Base) \div Base \in Nat
      BY Divide
    <2> QED
      BY <2>1, Divide DEF SizeByte
  <1>3. CASE e \in StaleElems
    <2>1. PICK v \in Byte : e = Elem("stale", v)
      BY <1>3 DEF StaleElems
    <2>2. e.tag = "stale" /\ e.n = v
      BY <2>1 DEF Elem
    <2>3. Value(e) = v
      BY <2>2, Zenon DEF Value
    <2> QED
      BY <2>3
  <1>4. CASE e = Elem("ready", 0)
    <2>1. e.tag = "ready"
      BY <1>4 DEF Elem
    <2>2. Value(e) = PC_READY
      BY <2>1, Zenon DEF Value
    <2> QED
      BY <1>1, <2>2
  <1>5. CASE e = Elem("ok", 0)
    <2>1. e.tag = "ok"
      BY <1>5 DEF Elem
    <2>2. Value(e) = PC_OK
      BY <2>1, Zenon DEF Value
    <2> QED
      BY <1>1, <2>2
  <1>6. ASSUME NEW j \in Nat, e = Nth(j) PROVE Value(e) \in Byte
    <2>1. CASE j <= 4
      <3>1. e.tag = "size" /\ e.n = j
        BY <1>6, <2>1 DEF Nth, Elem
      <3>2. Value(e) = SizeByte(file, j)
        BY <3>1, Zenon DEF Value
      <3> QED
        BY <1>2, <3>2
    <2>2. CASE ~(j <= 4)
      <3>1. e.tag = "data"
        BY <1>6, <2>2 DEF Nth, Elem
      <3>2. Value(e) = 0
        BY <3>1, Zenon DEF Value
      <3> QED
        BY <1>1, <3>2
    <2> QED
      BY <2>1, <2>2
  <1> QED
    BY <1>3, <1>4, <1>5, <1>6

\* What four bytes say as an int, and that it is negative if the first bit is set.
LEMMA IntRange ==
    ASSUME NEW b \in Word
    PROVE  Unsigned(b) \in Nat /\ Int32(b) \in Int /\ (Int32(b) > 0 => Int32(b) = Unsigned(b))
  <1>1. /\ b[1] \in Byte /\ b[2] \in Byte /\ b[3] \in Byte /\ b[4] \in Byte
        /\ Base \in Nat /\ Base > 1
    BY UsbLoadAssumption DEF Word
  <1>2. \A a \in Nat, c \in Byte : Base * a + c \in Nat
    BY <1>1 DEF Byte
  <1>3. ASSUME NEW a \in Nat, NEW c \in Byte, NEW l \in Nat, a < l
        PROVE  Base * a + c < Base * l
    <2>1. Base * (a + 1) <= Base * l
      BY <1>1, <1>3
    <2>2. Base * (a + 1) = Base * a + Base
      BY <1>1
    <2> QED
      BY <1>1, <2>1, <2>2 DEF Byte
  <1> DEFINE u2 == Base * b[1] + b[2]
             u3 == Base * u2 + b[3]
             u4 == Base * u3 + b[4]
  <1>4. u2 \in Nat /\ u2 < Base * Base
    BY <1>1, <1>2, <1>3 DEF Byte
  <1>5. u3 \in Nat /\ u3 < Base * (Base * Base)
    <2>1. Base * Base \in Nat
      BY <1>1
    <2> HIDE DEF u2
    <2> QED
      BY <1>1, <1>2, <1>3, <1>4, <2>1
  <1>6. u4 \in Nat /\ u4 < Base * (Base * (Base * Base))
    <2>1. Base * (Base * Base) \in Nat
      BY <1>1
    <2> HIDE DEF u3
    <2> QED
      BY <1>1, <1>2, <1>3, <1>5, <2>1
  <1>7. Unsigned(b) = u4
    BY DEF Unsigned
  <1>8. /\ Base * (Base * (Base * Base)) = Base * Base * Base * Base
        /\ Base * Base * Base * Base \in Nat
    BY <1>1
  <1> HIDE DEF u4
  <1> QED
    BY <1>6, <1>7, <1>8 DEF Int32

\* Four bytes say every size that the host announces.
LEMMA SizeAnnounced ==
    ASSUME file \in HostSizes,
           NEW b, b = <<SizeByte(file, 4), SizeByte(file, 3), SizeByte(file, 2),
                        SizeByte(file, 1)>>
    PROVE  b \in Word /\ Unsigned(b) = file
  <1> DEFINE q1 == file \div Base
             q2 == q1 \div Base
             q3 == q2 \div Base
             r0 == file % Base
             r1 == q1 % Base
             r2 == q2 % Base
             r3 == q3 % Base
  <1>0. /\ Base \in Nat /\ Base > 1 /\ file \in Nat
        /\ file < Base * Base * Base * Base
    BY UsbLoadAssumption
  <1>1. /\ q1 = file \div Base /\ q2 = q1 \div Base /\ q3 = q2 \div Base
        /\ r0 = file % Base /\ r1 = q1 % Base /\ r2 = q2 % Base /\ r3 = q3 % Base
    OBVIOUS
  <1>2. /\ SizeByte(file, 1) = file % Base
        /\ SizeByte(file, 2) = (file \div Base) % Base
        /\ SizeByte(file, 3) = ((file \div Base) \div Base) % Base
        /\ SizeByte(file, 4) = (((file \div Base) \div Base) \div Base) % Base
    <2>1. 2 # 1 /\ 3 # 1 /\ 3 # 2 /\ 4 # 1 /\ 4 # 2 /\ 4 # 3
      OBVIOUS
    <2>2. SizeByte(file, 1) = file % Base
      BY Zenon DEF SizeByte
    <2>3. SizeByte(file, 2) = (file \div Base) % Base
      BY <2>1, Zenon DEF SizeByte
    <2>4. SizeByte(file, 3) = ((file \div Base) \div Base) % Base
      BY <2>1, Zenon DEF SizeByte
    <2>5. SizeByte(file, 4) = (((file \div Base) \div Base) \div Base) % Base
      BY <2>1, Zenon DEF SizeByte
    <2> QED
      BY <2>2, <2>3, <2>4, <2>5, Zenon
  <1> HIDE DEF q1, q2, q3, r0, r1, r2, r3
  <1>3. /\ SizeByte(file, 1) = r0 /\ SizeByte(file, 2) = r1
        /\ SizeByte(file, 3) = r2 /\ SizeByte(file, 4) = r3
    BY <1>1, <1>2, Zenon
  <1>4. q1 \in Nat /\ r0 \in Byte /\ file = Base * q1 + r0
    BY <1>0, <1>1, Divide
  <1>5. q2 \in Nat /\ r1 \in Byte /\ q1 = Base * q2 + r1
    BY <1>4, <1>1, Divide
  <1>6. q3 \in Nat /\ r2 \in Byte /\ q2 = Base * q3 + r2
    BY <1>5, <1>1, Divide
  <1>7. r3 \in Byte
    BY <1>6, <1>1, Divide
  <1>8. b \in Word
    BY <1>4, <1>5, <1>6, <1>3, <1>7 DEF Word
  <1>9. r0 \in Nat /\ r1 \in Nat /\ r2 \in Nat
    BY <1>0, <1>4, <1>5, <1>6 DEF Byte
  <1>10. q3 < Base
    <2> SUFFICES ASSUME q3 >= Base PROVE FALSE
      BY <1>0, <1>6
    <2>1. Base * Base \in Nat /\ Base * (Base * Base) \in Nat
      BY <1>0
    <2>2. q2 >= Base * Base
      <3>1. Base * q3 >= Base * Base
        BY <1>0, <1>6
      <3> QED
        BY <1>0, <1>6, <1>9, <2>1, <3>1
    <2>3. q1 >= Base * (Base * Base)
      <3>1. Base * q2 >= Base * (Base * Base)
        BY <1>0, <1>5, <1>6, <2>1, <2>2
      <3> QED
        BY <1>0, <1>5, <1>6, <1>9, <2>1, <3>1
    <2>4. file >= Base * (Base * (Base * Base))
      <3>1. Base * q1 >= Base * (Base * (Base * Base))
        BY <1>0, <1>4, <1>5, <2>1, <2>3
      <3> QED
        BY <1>0, <1>4, <1>5, <1>9, <2>1, <3>1
    <2>5. Base * (Base * (Base * Base)) = Base * Base * Base * Base
      BY <1>0
    <2> QED
      BY <1>0, <2>4, <2>5
  <1>11. r3 = q3
    BY <1>0, <1>6, <1>1, <1>10
  <1>12. Unsigned(b) = Base * (Base * (Base * q3 + r2) + r1) + r0
    BY <1>3, <1>11 DEF Unsigned
  <1> QED
    BY <1>4, <1>5, <1>6, <1>8, <1>12, Zenon

-----------------------------------------------------------------------------
(* The inductive invariant of the channel.                                 *)

\* load_usb has not got an answer yet.
Early == {"start", "flush", "ready", "check", "poll"}

\* Nothing of the host is there before it starts, and nothing of its file before
\* it is answered; bytes of an earlier session come before its ready; the answer
\* that ended the wait was the first of what it could have been.
LinkInv(m, r, o) ==
    /\ Form(word, buffer, toGC, sent, m, r, o)
    /\ host = "off" => r = 0 /\ o = 0 /\ sent = 0
    /\ host = "hello" => o = 0 /\ sent = 0
    /\ r = 0 /\ host # "off" => m = 0
    /\ ack.tag = "stale" /\ host # "off" => r = 1
    /\ ack.tag = "ready" => m = 0 /\ r = 0 /\ host # "off"
    /\ ack.tag = "ok" => m = 0 /\ r = 0 /\ o = 0 /\ host \in {"sending", "gone"}
    /\ pc \in Early => (host = "sending" \/ sent > 0 => o = 1)
    /\ pc \in {"start", "flush", "ready"} => host # "sending" /\ o = 0 /\ sent = 0

ChannelInv == \E m \in Nat, r \in {0, 1}, o \in {0, 1} : LinkInv(m, r, o)

Answers == {Elem("ready", 0), Elem("ok", 0)} \cup StaleElems

\* What load_usb has taken: an answer, then four bytes, then a size from them.
WordInv ==
    /\ pc \in Early \cup {"reply"} => word = <<>>
    /\ pc = "size" => Len(word) < 4
    /\ pc \in {"alloc", "chunk", "receive"} => Len(word) = 4
    /\ pc = "done" /\ res => Len(word) = 4
    /\ ack \in {NoElem} \cup Answers
    /\ pc \in {"start", "flush", "ready"} => ack = NoElem
    /\ pc \in Early => ack.tag \in {"none", "stale"}
    /\ ack.tag = "none" => pc \in Early \cup {"done"} /\ word = <<>>
    /\ alloc > 0 => alloc = ReceivedSize

\* What load_usb has said is on its way to a host that has not heard it, or lost.
HandInv ==
    /\ host = "off" => toPC = <<>>
    /\ pc \in {"start", "flush", "ready"} => toPC = <<>>
    /\ pc \in {"check", "poll", "reply"} => toPC \in {<<>>, <<GC_READY>>}
    /\ host \in {"off", "hello"} /\ pc \in {"check", "poll", "reply", "size"} =>
           GC_READY \in lost \/ toPC # <<>>
    /\ host = "hello" /\ pc = "size" /\ ack.tag = "ready" =>
           GC_OK \in lost \/ toPC # <<>>

UsbInv == StoreInv /\ TypeOK /\ ChannelInv /\ WordInv /\ HandInv

\* The state at the start.
LEMMA InitUsb == Init => UsbInv
  <1> SUFFICES ASSUME Init PROVE UsbInv
    OBVIOUS
  <1>1. StoreInv
    BY InitInv
  <1>2. TypeOK
    <2>1. <<>> \in Seq(Elems) /\ <<>> \in Seq({GC_READY, GC_OK}) /\ Len(<<>>) = 0
      OBVIOUS
    <2>2. 0 \in Byte /\ 0 \in 0..MaxStale /\ 0 \in 0..Timeout /\ 0 \in 0..Memory
      BY UsbLoadAssumption DEF Byte
    <2>3. NoElem \in Elems
      BY DEF NoElem, Elem, Elems
    <2> QED
      BY <2>1, <2>2, <2>3 DEF Init, TypeOK, PCs
  <1>3. ChannelInv
    <2>1. Form(<<>>, <<>>, <<>>, 0, 0, 0, 0)
      BY DEF Form
    <2>2. LinkInv(0, 0, 0)
      BY <2>1 DEF Init, LinkInv, NoElem, Elem
    <2> QED
      BY <2>2 DEF ChannelInv
  <1>4. WordInv
    BY DEF Init, WordInv, Early, NoElem, Elem
  <1>5. HandInv
    BY DEF Init, HandInv
  <1> QED
    BY <1>1, <1>2, <1>3, <1>4, <1>5 DEF UsbInv

\* Whatever has come in was sent by somebody.
Legit == StaleElems \cup {Elem("ready", 0), Elem("ok", 0)} \cup {Nth(j) : j \in Nat}

\* What was taken and what was stored is what is expected there.
Fits(w, b, m, r, o) ==
    /\ \A j \in 1..Len(w) : w[j] \in Expected(j, m, r, o) /\ w[j] \in Legit
    /\ \A j \in 1..Len(b) : b[j] \in Expected(Len(w) + j, m, r, o)

\* A channel of the right form has given what was expected.
LEMMA FormElems ==
    ASSUME NEW w \in Seq(Elems), NEW b \in Seq(Elems), NEW q \in Seq(Elems),
           NEW n \in Nat, NEW m \in Nat, NEW r \in {0, 1}, NEW o \in {0, 1},
           Form(w, b, q, n, m, r, o)
    PROVE  Fits(w, b, m, r, o)
  <1>1. ASSUME NEW j \in Nat \ {0} PROVE Expected(j, m, r, o) \subseteq Legit
    <2>1. j > m + r + o => j - (m + r + o) \in Nat
      OBVIOUS
    <2> QED
      BY <2>1 DEF Expected, Legit
  <1>2. Len(w) \in Nat /\ Len(b) \in Nat /\ Len(q) \in Nat
    OBVIOUS
  <1>3. Len(w) + Len(b) + Len(q) = m + r + o + n
    BY DEF Form
  <1>4. ASSUME NEW j \in 1..Len(w) PROVE w[j] \in Expected(j, m, r, o)
    <2>1. j \in 1..(m + r + o + n) /\ j <= Len(w)
      BY <1>2, <1>3
    <2> QED
      BY <2>1 DEF Form, At
  <1>5. ASSUME NEW j \in 1..Len(b) PROVE b[j] \in Expected(Len(w) + j, m, r, o)
    <2>1. /\ Len(w) + j \in 1..(m + r + o + n)
          /\ ~(Len(w) + j <= Len(w)) /\ Len(w) + j <= Len(w) + Len(b)
          /\ (Len(w) + j) - Len(w) = j
      BY <1>2, <1>3
    <2>2. At(w, b, q, Len(w) + j) = b[j]
      BY <2>1 DEF At
    <2> QED
      BY <2>1, <2>2 DEF Form
  <1> QED
    BY <1>1, <1>4, <1>5 DEF Fits

\* What the invariants say of the types of what the channel is made of.
LEMMA LinkTypes ==
    ASSUME UsbInv
    PROVE  /\ word \in Seq(Elems) /\ buffer \in Seq(Elems) /\ toGC \in Seq(Elems)
           /\ sent \in Nat /\ file \in HostSizes /\ file \in Nat
           /\ host \in {"off", "hello", "sending", "gone"} /\ pc \in PCs
           /\ (pc \in Before => buffer = <<>>)
           /\ toPC \in Seq({GC_READY, GC_OK})
  BY UsbLoadAssumption DEF UsbInv, TypeOK, StoreInv, StoreTypes

\* The byte that ends the wait is not one of the size: it is an answer, or it is
\* left over.
LEMMA PollTakes ==
    ASSUME UsbInv, Poll, toGC # <<>>,
           NEW m \in Nat, NEW r \in {0, 1}, NEW o \in {0, 1}, LinkInv(m, r, o)
    PROVE  /\ word = <<>> /\ buffer = <<>> /\ pc = "poll"
           /\ toGC' = Tail(toGC) /\ ack' = Head(toGC)
           /\ data' = Value(Head(toGC))
           /\ pc' \in {"reply", "size", "check"}
           /\ Head(toGC) \in Answers
           /\ m > 0 => Head(toGC) \in StaleElems
           /\ m = 0 /\ r = 1 => Head(toGC) = Elem("ready", 0) /\ pc' = "reply"
           /\ m = 0 /\ r = 0 => o = 1 /\ Head(toGC) = Elem("ok", 0) /\ pc' = "size"
           /\ pc' = "check" => Head(toGC) \in StaleElems
  <1>1. word = <<>> /\ buffer = <<>> /\ pc = "poll"
    BY DEF UsbInv, WordInv, StoreInv, Poll, Before, Early
  <1>2. toGC' = Tail(toGC) /\ ack' = Head(toGC) /\ data' = Value(Head(toGC))
    BY Zenon DEF Poll
  <1>3. pc' = CASE data' = PC_READY -> "reply"
                [] data' = PC_OK    -> "size"
                [] OTHER            -> "check"
    BY Zenon DEF Poll
  <1>4. PC_READY # PC_OK
    BY UsbLoadAssumption
  <1>5. /\ data' = PC_READY => pc' = "reply"
        /\ data' = PC_OK => pc' = "size"
        /\ pc' \in {"reply", "size", "check"}
    BY <1>3, <1>4, Zenon
  <1>6. Form(<<>>, <<>>, toGC, sent, m, r, o)
    BY <1>1 DEF LinkInv
  <1>7. Head(toGC) \in Expected(1, m, r, o)
    BY <1>6, LinkTypes, FormDrop
  <1>8. m > 0 => Head(toGC) \in StaleElems
    BY <1>7 DEF Expected
  <1>9. ASSUME m = 0, r = 1 PROVE Head(toGC) = Elem("ready", 0) /\ pc' = "reply"
    <2>1. Head(toGC) = Elem("ready", 0)
      BY <1>7, <1>9 DEF Expected
    <2>2. Head(toGC).tag = "ready"
      BY <2>1 DEF Elem
    <2>3. Value(Head(toGC)) = PC_READY
      BY <2>2, Zenon DEF Value
    <2> QED
      BY <1>2, <1>5, <2>1, <2>3
  <1>10. ASSUME m = 0, r = 0
         PROVE  o = 1 /\ Head(toGC) = Elem("ok", 0) /\ pc' = "size"
    <2>1. Len(toGC) > 0 /\ Len(toGC) = o + sent
      <3>1. Len(toGC) > 0 /\ Len(toGC) \in Nat
        BY LinkTypes
      <3> QED
        BY <1>6, <1>10, <3>1 DEF Form
    <2>2. o = 1
      BY <1>1, <2>1, LinkTypes DEF LinkInv, Early
    <2>3. Head(toGC) = Elem("ok", 0)
      BY <1>7, <1>10, <2>2 DEF Expected
    <2>4. Head(toGC).tag = "ok"
      BY <2>3 DEF Elem
    <2>5. Value(Head(toGC)) = PC_OK
      BY <2>4, Zenon DEF Value
    <2> QED
      BY <1>2, <1>5, <2>2, <2>3, <2>5
  <1>11. Head(toGC) \in Answers
    BY <1>8, <1>9, <1>10 DEF Answers
  <1>12. pc' = "check" => Head(toGC) \in StaleElems
    BY <1>8, <1>9, <1>10
  <1> QED
    BY <1>1, <1>2, <1>5, <1>8, <1>9, <1>10, <1>11, <1>12

\* An action that leaves the channel and the host alone.
LEMMA SameLink ==
    ASSUME UsbInv, UNCHANGED <<word, buffer, toGC, sent, host, ack>>,
           pc' \in Early => pc \in Early,
           pc' \in {"start", "flush", "ready"} => pc \in {"start", "flush", "ready"}
    PROVE  ChannelInv'
  <1>1. PICK m \in Nat, r \in {0, 1}, o \in {0, 1} : LinkInv(m, r, o)
    BY DEF UsbInv, ChannelInv
  <1>2. LinkInv(m, r, o)'
    BY <1>1 DEF LinkInv
  <1> QED
    BY <1>2 DEF ChannelInv

\* The wait for an answer keeps the channel in form.
LEMMA PollChannel == ASSUME UsbInv, Poll PROVE ChannelInv'
  <1>1. CASE toGC = <<>>
    <2>1. UNCHANGED <<word, buffer, toGC, sent, host, ack>> /\ pc' = "check"
      BY <1>1, Zenon DEF Poll, store, pcside
    <2>2. pc = "poll"
      BY DEF Poll
    <2> QED
      BY <2>1, <2>2, SameLink DEF Early
  <1>2. CASE toGC # <<>>
    <2>1. PICK m \in Nat, r \in {0, 1}, o \in {0, 1} : LinkInv(m, r, o)
      BY DEF UsbInv, ChannelInv
    <2>2. UNCHANGED <<word, buffer, sent, host>>
      BY Zenon DEF Poll, store, pcside
    <2> DEFINE e == Head(toGC)
    <2>3. /\ word = <<>> /\ buffer = <<>> /\ pc = "poll"
          /\ toGC' = Tail(toGC) /\ ack' = e
          /\ pc' \in {"reply", "size", "check"}
          /\ m > 0 => e \in StaleElems
          /\ m = 0 /\ r = 1 => e = Elem("ready", 0) /\ pc' = "reply"
          /\ m = 0 /\ r = 0 => o = 1 /\ e = Elem("ok", 0) /\ pc' = "size"
      BY <1>2, <2>1, PollTakes
    <2>4. Form(<<>>, <<>>, toGC, sent, m, r, o)
      BY <2>1, <2>3 DEF LinkInv
    <2>5. /\ m > 0 => Form(<<>>, <<>>, Tail(toGC), sent, m - 1, r, o)
          /\ m = 0 /\ r = 1 => Form(<<>>, <<>>, Tail(toGC), sent, m, 0, o)
          /\ m = 0 /\ r = 0 /\ o = 1 => Form(<<>>, <<>>, Tail(toGC), sent, m, r, 0)
      BY <1>2, <2>4, LinkTypes, FormDrop
    <2>6. \A x \in StaleElems : x.tag = "stale"
      BY DEF StaleElems, Elem
    <2>7. Elem("ready", 0).tag = "ready" /\ Elem("ok", 0).tag = "ok"
      BY DEF Elem
    <2> HIDE DEF e
    <2>8. CASE m > 0
      <3>1. m - 1 \in Nat
        BY <2>8
      <3>2. Form(word', buffer', toGC', sent', m - 1, r, o)
        BY <2>2, <2>3, <2>5, <2>8
      <3>3. e.tag = "stale"
        BY <2>3, <2>6, <2>8
      <3>4. LinkInv(m - 1, r, o)'
        BY <2>1, <2>2, <2>3, <2>8, <3>2, <3>3 DEF LinkInv, Early
      <3> QED
        BY <3>1, <3>4 DEF ChannelInv
    <2>9. CASE m = 0 /\ r = 1
      <3>1. Form(word', buffer', toGC', sent', m, 0, o)
        BY <2>2, <2>3, <2>5, <2>9
      <3>2. e.tag = "ready"
        BY <2>3, <2>7, <2>9
      <3>3. LinkInv(m, 0, o)'
        BY <2>1, <2>2, <2>3, <2>9, <3>1, <3>2 DEF LinkInv, Early
      <3> QED
        BY <3>3 DEF ChannelInv
    <2>10. CASE m = 0 /\ r = 0
      <3>1. Form(word', buffer', toGC', sent', m, r, 0)
        BY <2>2, <2>3, <2>5, <2>10
      <3>2. e.tag = "ok"
        BY <2>3, <2>7, <2>10
      <3>3. LinkInv(m, r, 0)'
        BY <2>1, <2>2, <2>3, <2>10, <3>1, <3>2, LinkTypes DEF LinkInv, Early
      <3> QED
        BY <3>3 DEF ChannelInv
    <2> QED
      BY <2>8, <2>9, <2>10
  <1> QED
    BY <1>1, <1>2

\* What load_usb reads keeps the channel in form.
LEMMA RecvChannel == ASSUME UsbInv, RecvSize \/ RecvData PROVE ChannelInv'
  <1>1. PICK m \in Nat, r \in {0, 1}, o \in {0, 1} : LinkInv(m, r, o)
    BY DEF UsbInv, ChannelInv
  <1>2. /\ toGC # <<>> /\ toGC' = Tail(toGC) /\ UNCHANGED <<sent, host, ack>>
        /\ pc' \notin Early /\ pc \notin Early
    BY LinkTypes DEF RecvSize, RecvData, pcside, shake, Early
  <1>3. Form(word, buffer, toGC, sent, m, r, o)
    BY <1>1 DEF LinkInv
  <1>4. word \in Seq(Elems) /\ buffer \in Seq(Elems) /\ toGC \in Seq(Elems) /\ sent \in Nat
    BY LinkTypes
  <1>5. /\ buffer = <<>> =>
               Form(Append(word, Head(toGC)), buffer, Tail(toGC), sent, m, r, o)
        /\ Form(word, Append(buffer, Head(toGC)), Tail(toGC), sent, m, r, o)
    <2>1. toGC # <<>>
      BY <1>2
    <2> QED
      BY <2>1, <1>3, <1>4, FormReceive
  <1>6. Form(word', buffer', toGC', sent', m, r, o)
    <2>1. CASE RecvSize
      <3>1. pc = "size" /\ buffer' = buffer /\ word' = Append(word, Head(toGC))
        BY <2>1 DEF RecvSize, store
      <3>2. buffer = <<>>
        <4>1. pc \in Before
          BY <3>1 DEF Before
        <4> QED
          BY <4>1, LinkTypes
      <3> QED
        BY <1>2, <1>5, <3>1, <3>2, Zenon
    <2>2. CASE RecvData
      <3>1. word' = word /\ buffer' = Append(buffer, Head(toGC))
        BY <2>2 DEF RecvData, shake
      <3> QED
        BY <1>2, <1>5, <3>1, Zenon
    <2> QED
      BY <2>1, <2>2
  <1>7. LinkInv(m, r, o)'
    BY <1>1, <1>2, <1>6 DEF LinkInv, Early
  <1> QED
    BY <1>7 DEF ChannelInv

\* usb_flush leaves nothing of an earlier session, or of the host's ready.
LEMMA FlushChannel == ASSUME UsbInv, Flush PROVE ChannelInv'
  <1>1. PICK m \in Nat, r \in {0, 1}, o \in {0, 1} : LinkInv(m, r, o)
    BY DEF UsbInv, ChannelInv
  <1>2. /\ word' = <<>> /\ buffer' = <<>> /\ toGC' = <<>> /\ sent' = 0
        /\ host' = host /\ host # "sending" /\ ack' = NoElem /\ pc' = "ready"
    BY <1>1 DEF UsbInv, LinkInv, WordInv, StoreInv, Flush, Before, Early, pcside, shake, store
  <1>3. Form(<<>>, <<>>, <<>>, 0, 0, 0, 0)
    BY DEF Form
  <1>4. LinkInv(0, 0, 0)'
    BY <1>2, <1>3 DEF LinkInv, NoElem, Elem, Early
  <1> QED
    BY <1>4 DEF ChannelInv

\* What the host sends, and what is left over, keeps the channel in form.
LEMMA HostChannel ==
    ASSUME UsbInv, Host \/ HostGone \/ \E v \in Byte : StaleByte(v)
    PROVE  ChannelInv'
  <1>1. PICK m \in Nat, r \in {0, 1}, o \in {0, 1} : LinkInv(m, r, o)
    BY DEF UsbInv, ChannelInv
  <1>2. Form(word, buffer, toGC, sent, m, r, o)
    BY <1>1 DEF LinkInv
  <1>3. ASSUME NEW v \in Byte, StaleByte(v) PROVE ChannelInv'
    <2>1. /\ host = "off" /\ toGC' = Append(toGC, Elem("stale", v))
          /\ UNCHANGED <<word, buffer, sent, host, ack, pc>>
      BY <1>3 DEF StaleByte, shake, store
    <2>2. Elem("stale", v) \in StaleElems /\ Elem("stale", v) \in Elems
      BY UsbLoadAssumption DEF StaleElems, Elem, Elems, Byte
    <2>3. r = 0 /\ o = 0 /\ sent = 0
      BY <1>1, <2>1 DEF LinkInv
    <2>4. Form(word', buffer', toGC', sent', m + 1, r, o)
      BY <1>2, <2>1, <2>2, <2>3, LinkTypes, FormAppend
    <2>5. LinkInv(m + 1, r, o)'
      BY <1>1, <2>1, <2>3, <2>4 DEF LinkInv
    <2> QED
      BY <2>5 DEF ChannelInv
  <1>4. CASE HostStart
    <2>1. /\ host = "off" /\ host' = "hello" /\ toGC' = Append(toGC, Elem("ready", 0))
          /\ UNCHANGED <<word, buffer, sent, ack, pc>>
      BY <1>4 DEF HostStart, shake, store
    <2>2. r = 0 /\ o = 0 /\ sent = 0
      BY <1>1, <2>1 DEF LinkInv
    <2>3. Form(word', buffer', toGC', sent', m, 1, o)
      BY <1>2, <2>1, <2>2, LinkTypes, FormAppend
    <2>4. LinkInv(m, 1, o)'
      BY <1>1, <2>1, <2>2, <2>3 DEF LinkInv
    <2> QED
      BY <2>4 DEF ChannelInv
  <1>5. CASE HostHear
    <2>1. /\ host = "hello" /\ host' = "sending" /\ toPC # <<>>
          /\ UNCHANGED <<word, buffer, sent, ack, pc>>
      BY <1>5 DEF HostHear, shake, store
    <2>2. o = 0 /\ sent = 0
      BY <1>1, <2>1 DEF LinkInv
    <2>3. pc \notin {"start", "flush", "ready"}
      BY <2>1 DEF UsbInv, HandInv
    <2>4. CASE Head(toPC) = GC_READY
      <3>1. toGC' = Append(toGC, Elem("ok", 0))
        BY <1>5, <2>4 DEF HostHear
      <3>2. Form(word', buffer', toGC', sent', m, r, 1)
        BY <1>2, <2>1, <2>2, <3>1, LinkTypes, FormAppend
      <3>3. LinkInv(m, r, 1)'
        BY <1>1, <2>1, <2>2, <2>3, <3>2 DEF LinkInv
      <3> QED
        BY <3>3 DEF ChannelInv
    <2>5. CASE Head(toPC) # GC_READY
      <3>1. toGC' = toGC
        BY <1>5, <2>5 DEF HostHear
      <3>2. pc \notin Early
        <4>1. toPC # <<GC_READY>>
          BY <2>5
        <4> QED
          BY <2>1, <2>3, <4>1 DEF UsbInv, HandInv, Early
      <3>3. LinkInv(m, r, o)'
        BY <1>1, <2>1, <2>2, <2>3, <3>1, <3>2 DEF LinkInv
      <3> QED
        BY <3>3 DEF ChannelInv
    <2> QED
      BY <2>4, <2>5
  <1>6. CASE HostSend
    <2>1. /\ host = "sending" /\ sent' = sent + 1
          /\ toGC' = Append(toGC, IF sent < 4 THEN Elem("size", sent + 1)
                                              ELSE Elem("data", sent - 3))
          /\ UNCHANGED <<word, buffer, host, ack, pc>>
      BY <1>6 DEF HostSend, shake, store
    <2>2. toGC' = Append(toGC, Nth(sent + 1))
      <3>1. sent < 4 <=> sent + 1 <= 4
        BY LinkTypes
      <3>2. (sent + 1) - 4 = sent - 3
        BY LinkTypes
      <3> QED
        BY <2>1, <3>1, <3>2 DEF Nth
    <2>3. Form(word', buffer', toGC', sent', m, r, o)
      BY <1>2, <2>1, <2>2, LinkTypes, FormAppend
    <2>4. pc \notin {"start", "flush", "ready"} /\ (pc \in Early => o = 1)
      BY <1>1, <2>1 DEF LinkInv
    <2>5. LinkInv(m, r, o)'
      BY <1>1, <2>1, <2>3, <2>4 DEF LinkInv
    <2> QED
      BY <2>5 DEF ChannelInv
  <1>7. CASE HostGone
    <2>1. /\ host \in {"hello", "sending"} /\ host' = "gone"
          /\ UNCHANGED <<word, buffer, toGC, sent, ack, pc>>
      BY <1>7 DEF HostGone, link, shake, store
    <2>2. LinkInv(m, r, o)'
      BY <1>1, <2>1 DEF LinkInv
    <2> QED
      BY <2>2 DEF ChannelInv
  <1> QED
    BY <1>3, <1>4, <1>5, <1>6, <1>7 DEF Host

\* Every step keeps the channel in form.
LEMMA NextChannel == UsbInv /\ [Next]_vars => ChannelInv'
  <1> SUFFICES ASSUME UsbInv, [Next]_vars PROVE ChannelInv'
    OBVIOUS
  <1>1. ASSUME Start \/ SendReady \/ Check \/ Reply \/ Alloc \/ NextChunk \/ Tick
               \/ UNCHANGED vars
        PROVE  ChannelInv'
    <2>1. UNCHANGED <<word, buffer, toGC, sent, host, ack>>
      BY <1>1 DEF Start, SendReady, Check, Reply, Alloc, NextChunk, Tick,
                  vars, link, pcside, shake, store
    <2>2. /\ pc' \in Early => pc \in Early
          /\ pc' \in {"start", "flush", "ready"} => pc \in {"start", "flush", "ready"}
      BY <1>1 DEF Start, SendReady, Check, Reply, Alloc, NextChunk, Tick, vars, Early
    <2> QED
      BY <2>1, <2>2, SameLink
  <1> QED
    BY <1>1, PollChannel, RecvChannel, FlushChannel, HostChannel DEF Next, Program

\* A size that has been taken stays what it says.
LEMMA SameSize ==
    ASSUME UNCHANGED <<word, file>>
    PROVE  ReceivedSize' = ReceivedSize
  BY Zenon DEF ReceivedSize, Value, SizeByte

\* An answer, then four bytes, then a size from them.
LEMMA NextWord == UsbInv /\ [Next]_vars => WordInv'
  <1> SUFFICES ASSUME UsbInv, [Next]_vars PROVE WordInv'
    OBVIOUS
  <1>1. /\ WordInv /\ pc \in PCs /\ alloc \in Nat /\ word \in Seq(Elems)
        /\ pc \in Before => alloc = 0
    BY LinkTypes DEF UsbInv, StoreInv, StoreTypes
  <1>2. CASE Poll
    <2>1. UNCHANGED <<word, alloc, res>> /\ pc = "poll" /\ word = <<>> /\ alloc = 0
      BY <1>1, <1>2, Zenon DEF Poll, store, WordInv, Before, Early
    <2>2. CASE toGC = <<>>
      <3>1. pc' = "check" /\ ack' = ack
        BY <1>2, <2>2, Zenon DEF Poll
      <3> QED
        BY <1>1, <2>1, <3>1 DEF WordInv, Early
    <2>3. CASE toGC # <<>>
      <3>1. PICK m \in Nat, r \in {0, 1}, o \in {0, 1} : LinkInv(m, r, o)
        BY DEF UsbInv, ChannelInv
      <3> DEFINE e == Head(toGC)
      <3>2. /\ ack' = e /\ e \in Answers /\ pc' \in {"reply", "size", "check"}
            /\ pc' = "check" => e \in StaleElems
        BY <1>2, <2>3, <3>1, PollTakes
      <3> HIDE DEF e
      <3>3. \A x \in Answers : x.tag # "none" /\ (x \in StaleElems => x.tag = "stale")
        BY DEF Answers, StaleElems, Elem
      <3>4. Len(word) = 0
        BY <2>1
      <3> QED
        BY <2>1, <3>2, <3>3, <3>4 DEF WordInv, Early
    <2> QED
      BY <2>2, <2>3
  <1>3. CASE RecvSize
    <2>1. /\ pc = "size" /\ word' = Append(word, Head(toGC)) /\ toGC # <<>>
          /\ pc' = IF Len(word') = 4 THEN "alloc" ELSE "size"
          /\ UNCHANGED <<ack, alloc>>
      BY <1>3 DEF RecvSize, store
    <2>2. Len(Append(word, Head(toGC))) = Len(word) + 1 /\ Len(word) \in Nat
      BY <1>1, <2>1, LinkTypes
    <2>3. alloc = 0
      BY <1>1, <2>1 DEF Before
    <2>4. ack.tag # "none"
      BY <1>1, <2>1 DEF WordInv, Early
    <2> QED
      BY <1>1, <2>1, <2>2, <2>3, <2>4 DEF WordInv, Early
  <1>4. CASE Alloc
    <2>1. UNCHANGED <<word, ack, file>> /\ pc = "alloc" /\ alloc = 0
      BY <1>1, <1>4 DEF Alloc, shake, pcside, Before
    <2>2. \/ alloc' = ReceivedSize /\ pc' = "chunk"
          \/ alloc' = alloc /\ pc' = "done" /\ ~res'
      BY <1>4 DEF Alloc
    <2>3. ReceivedSize' = ReceivedSize
      BY <2>1, SameSize
    <2>4. ack.tag # "none" /\ Len(word) = 4
      BY <1>1, <2>1 DEF WordInv, Early
    <2> QED
      BY <1>1, <2>1, <2>2, <2>3, <2>4 DEF WordInv, Early
  <1>5. ASSUME UNCHANGED <<word, ack, file, alloc>>,
               \/ pc' = pc /\ res' = res
               \/ pc \in Early /\ pc' = "done" /\ ~res'
               \/ pc = "start" /\ pc' = "flush"
               \/ pc = "flush" /\ pc' = "ready"
               \/ pc \in Early /\ pc' \in {"check", "poll"}
               \/ pc = "reply" /\ pc' = "size"
               \/ pc \in {"chunk", "receive"} /\ pc' \in {"chunk", "receive", "done"}
        PROVE  WordInv'
    <2>1. ReceivedSize' = ReceivedSize
      BY <1>5, SameSize
    <2>2. Len(<<>>) = 0
      OBVIOUS
    <2> QED
      BY <1>1, <1>5, <2>1, <2>2 DEF WordInv, Early
  <1>6. CASE Start \/ Flush \/ SendReady \/ Check \/ Reply
    <2>1. UNCHANGED <<word, ack, file, alloc>>
      BY <1>6 DEF Start, Flush, SendReady, Check, Reply, shake, pcside, store
    <2>2. \/ pc \in Early /\ pc' = "done" /\ ~res'
          \/ pc = "start" /\ pc' = "flush"
          \/ pc = "flush" /\ pc' = "ready"
          \/ pc \in Early /\ pc' \in {"check", "poll"}
          \/ pc = "reply" /\ pc' = "size"
      BY <1>6 DEF Start, Flush, SendReady, Check, Reply, Early
    <2> QED
      BY <1>5, <2>1, <2>2
  <1>7. CASE NextChunk \/ RecvData
    <2>1. UNCHANGED <<word, ack, file, alloc>>
      BY <1>7 DEF NextChunk, RecvData, shake, pcside
    <2>2. pc \in {"chunk", "receive"} /\ pc' \in {"chunk", "receive", "done"}
      BY <1>7 DEF NextChunk, RecvData
    <2> QED
      BY <1>5, <2>1, <2>2
  <1>8. CASE Tick \/ Host \/ HostGone \/ (\E v \in Byte : StaleByte(v)) \/ UNCHANGED vars
    <2>1. UNCHANGED <<word, ack, file, alloc, pc, res>>
      BY <1>8 DEF Tick, Host, HostStart, HostHear, HostSend, HostGone, StaleByte,
                  vars, shake, pcside, store
    <2> QED
      BY <1>5, <2>1
  <1> QED
    BY <1>2, <1>3, <1>4, <1>6, <1>7, <1>8 DEF Next, Program

\* What load_usb has said is on its way, heard or lost.
LEMMA NextHand == UsbInv /\ [Next]_vars => HandInv'
  <1> SUFFICES ASSUME UsbInv, [Next]_vars PROVE HandInv'
    OBVIOUS
  <1>1. HandInv /\ pc \in PCs /\ toPC \in Seq({GC_READY, GC_OK})
    BY LinkTypes DEF UsbInv
  <1>2. CASE Poll
    <2>1. UNCHANGED <<host, toPC, lost>> /\ pc = "poll"
      BY <1>2, Zenon DEF Poll, pcside
    <2>2. CASE toGC = <<>>
      <3>1. pc' = "check" /\ ack' = ack
        BY <1>2, <2>2, Zenon DEF Poll
      <3> QED
        BY <1>1, <2>1, <3>1 DEF HandInv
    <2>3. CASE toGC # <<>>
      <3>1. PICK m \in Nat, r \in {0, 1}, o \in {0, 1} : LinkInv(m, r, o)
        BY DEF UsbInv, ChannelInv
      <3> DEFINE e == Head(toGC)
      <3>2. /\ ack' = e /\ pc' \in {"reply", "size", "check"}
            /\ m > 0 => e \in StaleElems
            /\ m = 0 /\ r = 1 => e = Elem("ready", 0) /\ pc' = "reply"
            /\ m = 0 /\ r = 0 => o = 1 /\ e = Elem("ok", 0) /\ pc' = "size"
        BY <1>2, <2>3, <3>1, PollTakes
      <3> HIDE DEF e
      <3>3. \A x \in StaleElems : x.tag # "ready"
        BY DEF StaleElems, Elem
      <3>4. Elem("ok", 0).tag # "ready"
        BY DEF Elem
      <3>5. pc' = "size" => ack'.tag # "ready"
        BY <3>2, <3>3, <3>4
      <3> QED
        BY <1>1, <2>1, <3>2, <3>5 DEF HandInv
    <2> QED
      BY <2>2, <2>3
  <1>3. CASE SendReady
    <2>1. pc = "ready" /\ pc' = "check" /\ host' = host /\ toPC = <<>>
      BY <1>1, <1>3 DEF SendReady, HandInv
    <2>2. \/ host # "off" /\ toPC' = Append(toPC, GC_READY) /\ lost' = lost
          \/ toPC' = toPC /\ lost' = lost \cup {GC_READY}
      BY <1>3 DEF SendReady, Send
    <2>3. Append(<<>>, GC_READY) = <<GC_READY>> /\ <<GC_READY>> # <<>>
      OBVIOUS
    <2> QED
      BY <1>1, <2>1, <2>2, <2>3 DEF HandInv
  <1>4. CASE Reply
    <2>1. pc = "reply" /\ pc' = "size" /\ host' = host
      BY <1>4 DEF Reply
    <2>2. \/ host # "off" /\ toPC' = Append(toPC, GC_OK) /\ lost' = lost
          \/ toPC' = toPC /\ lost' = lost \cup {GC_OK}
      BY <1>4 DEF Reply, Send
    <2>3. Append(toPC, GC_OK) # <<>>
      <3>1. GC_OK \in {GC_READY, GC_OK}
        OBVIOUS
      <3>2. Len(Append(toPC, GC_OK)) = Len(toPC) + 1 /\ Len(toPC) \in Nat
        BY <1>1, <3>1
      <3>3. Len(<<>>) = 0
        OBVIOUS
      <3> QED
        BY <3>2, <3>3
    <2> QED
      BY <1>1, <2>1, <2>2, <2>3 DEF HandInv
  <1>5. CASE HostHear
    <2>1. /\ host' = "sending" /\ toPC # <<>> /\ toPC' = Tail(toPC)
          /\ UNCHANGED <<pc, lost, ack>>
      BY <1>5 DEF HostHear, shake
    <2>2. Tail(<<GC_READY>>) = <<>>
      OBVIOUS
    <2> QED
      BY <1>1, <2>1, <2>2 DEF HandInv
  <1>6. CASE HostStart
    <2>1. host = "off" /\ host' = "hello" /\ UNCHANGED <<pc, lost, ack, toPC>>
      BY <1>6 DEF HostStart, shake
    <2>2. ack.tag # "ready"
      BY <2>1 DEF UsbInv, ChannelInv, LinkInv
    <2> QED
      BY <1>1, <2>1, <2>2 DEF HandInv
  <1>7. ASSUME UNCHANGED <<toPC, lost, ack>>, host' = host \/ host' = "gone",
               \/ pc' = pc
               \/ pc = "start" /\ pc' = "flush"
               \/ pc = "flush" /\ pc' = "ready"
               \/ pc = "check" /\ pc' = "poll"
               \/ pc' \in {"done", "alloc", "chunk", "receive"}
        PROVE  HandInv'
    BY <1>1, <1>7 DEF HandInv
  <1>8. CASE Start \/ Flush \/ Check \/ RecvSize \/ Alloc \/ NextChunk \/ RecvData
    <2>1. UNCHANGED <<toPC, lost, ack, host>>
      BY <1>8 DEF Start, Flush, Check, RecvSize, Alloc, NextChunk, RecvData,
                  link, shake, pcside
    <2>2. CASE RecvSize
      <3>1. pc' = IF Len(word') = 4 THEN "alloc" ELSE "size"
        BY <2>2 DEF RecvSize
      <3>2. pc = "size"
        BY <2>2 DEF RecvSize
      <3> QED
        BY <1>7, <2>1, <3>1, <3>2
    <2>3. CASE Start \/ Flush \/ Check \/ Alloc \/ NextChunk \/ RecvData
      <3>1. \/ pc' = pc
            \/ pc = "start" /\ pc' = "flush"
            \/ pc = "flush" /\ pc' = "ready"
            \/ pc = "check" /\ pc' = "poll"
            \/ pc' \in {"done", "alloc", "chunk", "receive"}
        BY <2>3 DEF Start, Flush, Check, Alloc, NextChunk, RecvData
      <3> QED
        BY <1>7, <2>1, <3>1
    <2> QED
      BY <1>8, <2>2, <2>3
  <1>9. CASE Tick \/ HostSend \/ HostGone \/ (\E v \in Byte : StaleByte(v)) \/ UNCHANGED vars
    <2>1. UNCHANGED <<toPC, lost, ack, pc>> /\ (host' = host \/ host' = "gone")
      BY <1>9 DEF Tick, HostSend, HostGone, StaleByte, vars, link, shake, pcside
    <2> QED
      BY <1>7, <2>1
  <1> QED
    BY <1>2, <1>3, <1>4, <1>5, <1>6, <1>8, <1>9 DEF Next, Program, Host

\* What was taken as the size, and what was stored, is what is expected there.
LEMMA TakenElems ==
    ASSUME UsbInv, NEW m \in Nat, NEW r \in {0, 1}, NEW o \in {0, 1}, LinkInv(m, r, o)
    PROVE  /\ \A j \in 1..Len(word) : word[j] \in Expected(j, m, r, o) /\ word[j] \in Legit
           /\ \A j \in 1..Len(buffer) : buffer[j] \in Expected(Len(word) + j, m, r, o)
  <1>1. Form(word, buffer, toGC, sent, m, r, o)
    BY DEF LinkInv
  <1>2. word \in Seq(Elems) /\ buffer \in Seq(Elems) /\ toGC \in Seq(Elems) /\ sent \in Nat
    BY LinkTypes
  <1>3. Fits(word, buffer, m, r, o)
    BY <1>1, <1>2, FormElems
  <1> QED
    BY <1>3 DEF Fits

\* The four bytes of the size, as an int.
LEMMA SizeTypes ==
    ASSUME UsbInv, Len(word) = 4
    PROVE  /\ convert_int([k \in 1..4 |-> Value(word[k])]) \in Word
           /\ ReceivedSize \in Int
  <1>1. PICK m \in Nat, r \in {0, 1}, o \in {0, 1} : LinkInv(m, r, o)
    BY DEF UsbInv, ChannelInv
  <1>2. \A k \in 1..4 : word[k] \in Legit
    BY <1>1, TakenElems
  <1>3. \A k \in 1..4 : Value(word[k]) \in Byte
    BY <1>2, LinkTypes, ValueTypes DEF Legit
  <1> DEFINE v == [k \in 1..4 |-> Value(word[k])]
  <1>4. v[1] \in Byte /\ v[2] \in Byte /\ v[3] \in Byte /\ v[4] \in Byte
    BY <1>3
  <1>5. ReceivedSize = Int32(convert_int(v))
    BY DEF ReceivedSize
  <1> HIDE DEF v
  <1>6. convert_int(v) \in Word
    BY <1>4 DEF convert_int, Word
  <1>7. ReceivedSize \in Int
    BY <1>5, <1>6, IntRange
  <1> QED
    BY <1>6, <1>7 DEF v

\* Every variable keeps its type.
LEMMA NextTypes == UsbInv /\ [Next]_vars => TypeOK'
  <1> SUFFICES ASSUME UsbInv, [Next]_vars PROVE TypeOK'
    OBVIOUS
  <1>1. TypeOK
    BY DEF UsbInv
  <1>2. StoreTypes'
    <2>1. StoreInv'
      BY NextInv DEF UsbInv, TypeOK
    <2> QED
      BY <2>1 DEF StoreInv
  <1>3. alive' \in BOOLEAN
    BY <1>1, Zenon DEF TypeOK, Next, Program, Host, Start, Flush, SendReady, Check, Poll,
       Reply, RecvSize, Alloc, NextChunk, RecvData, Tick, HostStart, HostHear, HostSend,
       HostGone, StaleByte, vars, link
  <1>4. toPC' \in Seq({GC_READY, GC_OK}) /\ lost' \subseteq {GC_READY, GC_OK}
    <2>1. toPC \in Seq({GC_READY, GC_OK}) /\ lost \subseteq {GC_READY, GC_OK}
      BY <1>1 DEF TypeOK
    <2>2. ASSUME NEW b \in {GC_READY, GC_OK}, Send(b)
          PROVE  toPC' \in Seq({GC_READY, GC_OK}) /\ lost' \subseteq {GC_READY, GC_OK}
      BY <2>1, <2>2 DEF Send
    <2>3. CASE SendReady \/ Reply
      BY <2>2, <2>3 DEF SendReady, Reply
    <2>4. CASE HostHear
      <3>1. toPC # <<>> /\ toPC' = Tail(toPC) /\ lost' = lost
        BY <2>4 DEF HostHear
      <3> QED
        BY <2>1, <3>1
    <2>5. CASE Poll
      <3>1. UNCHANGED <<toPC, lost>>
        BY <2>5, Zenon DEF Poll, pcside
      <3> QED
        BY <2>1, <3>1
    <2>6. CASE ~(SendReady \/ Reply \/ HostHear \/ Poll)
      <3>1. UNCHANGED <<toPC, lost>>
        BY <2>6 DEF Next, Program, Host, Start, Flush, Check,
           RecvSize, Alloc, NextChunk, RecvData, Tick, HostStart, HostSend,
           HostGone, StaleByte, vars, link, pcside
      <3> QED
        BY <2>1, <3>1
    <2> QED
      BY <2>3, <2>4, <2>5, <2>6
  <1>5. /\ host' \in {"off", "hello", "sending", "gone"} /\ file' \in HostSizes
        /\ sent' \in Nat /\ stale' \in 0..MaxStale
    <2>1. /\ host \in {"off", "hello", "sending", "gone"} /\ file \in HostSizes
          /\ sent \in Nat /\ stale \in 0..MaxStale /\ MaxStale \in Nat
      BY <1>1, UsbLoadAssumption DEF TypeOK
    <2>2. CASE Host \/ HostGone \/ \E v \in Byte : StaleByte(v)
      BY <2>1, <2>2 DEF Host, HostStart, HostHear, HostSend, HostGone, StaleByte
    <2>3. CASE Program \/ Tick \/ UNCHANGED vars
      <3>1. UNCHANGED <<host, file, sent, stale>>
        BY <2>3, Zenon DEF Program, Start, Flush, SendReady, Check, Poll,
           Reply, RecvSize, Alloc, NextChunk, RecvData, Tick, vars, pcside
      <3> QED
        BY <2>1, <3>1
    <2> QED
      BY <2>2, <2>3 DEF Next
  <1>6. data' \in Byte \cup {GC_READY, GC_OK} /\ ack' \in Elems
    <2>1. data \in Byte \cup {GC_READY, GC_OK} /\ ack \in Elems
      BY <1>1 DEF TypeOK
    <2>2. CASE Poll /\ toGC # <<>>
      <3>1. PICK m \in Nat, r \in {0, 1}, o \in {0, 1} : LinkInv(m, r, o)
        BY DEF UsbInv, ChannelInv
      <3>2. ack' = Head(toGC) /\ data' = Value(Head(toGC)) /\ Head(toGC) \in Answers
        BY <2>2, <3>1, PollTakes
      <3>3. Head(toGC) \in Elems
        BY <2>2, LinkTypes
      <3>4. Value(Head(toGC)) \in Byte
        BY <3>2, LinkTypes, ValueTypes DEF Answers
      <3> QED
        BY <3>2, <3>3, <3>4
    <2>3. CASE Poll /\ toGC = <<>>
      <3>1. UNCHANGED <<data, ack>>
        BY <2>3, Zenon DEF Poll
      <3> QED
        BY <2>1, <3>1
    <2>4. CASE ~Poll
      <3>1. ack' = ack /\ data' \in {data, GC_READY, GC_OK}
        BY <2>4 DEF Next, Program, Host, Start, Flush, SendReady, Check,
           Reply, RecvSize, Alloc, NextChunk, RecvData, Tick, HostStart, HostHear,
           HostSend, HostGone, StaleByte, vars, shake
      <3> QED
        BY <2>1, <3>1
    <2> QED
      BY <2>2, <2>3, <2>4
  <1>7. elapsed' \in 0..Timeout
    <2>1. elapsed \in 0..Timeout /\ Timeout \in Nat
      BY <1>1, UsbLoadAssumption DEF TypeOK
    <2>2. CASE Tick
      BY <2>1, <2>2 DEF Tick
    <2>3. CASE ~Tick
      <3>1. elapsed' = elapsed
        BY <2>3, Zenon DEF Next, Program, Host, Start, Flush, SendReady, Check, Poll,
           Reply, RecvSize, Alloc, NextChunk, RecvData, HostStart, HostHear,
           HostSend, HostGone, StaleByte, vars, shake
      <3> QED
        BY <2>1, <3>1
    <2> QED
      BY <2>2, <2>3
  <1>8. word' \in Seq(Elems) /\ Len(word') <= 4
    <2>1. word \in Seq(Elems) /\ Len(word) <= 4 /\ toGC \in Seq(Elems)
      BY <1>1 DEF TypeOK
    <2>2. CASE RecvSize
      <3>1. word' = Append(word, Head(toGC)) /\ toGC # <<>> /\ Len(word) < 4
        BY <2>2 DEF RecvSize, UsbInv, WordInv
      <3>2. /\ Append(word, Head(toGC)) \in Seq(Elems)
            /\ Len(Append(word, Head(toGC))) = Len(word) + 1 /\ Len(word) \in Nat
        BY <2>1, <3>1
      <3> QED
        BY <3>1, <3>2
    <2>3. CASE ~RecvSize
      <3>1. word' = word
        BY <2>3, Zenon DEF Next, Program, Host, Start, Flush, SendReady, Check, Poll,
           Reply, Alloc, NextChunk, RecvData, Tick, HostStart, HostHear,
           HostSend, HostGone, StaleByte, vars, shake
      <3> QED
        BY <2>1, <3>1
    <2> QED
      BY <2>2, <2>3
  <1>9. size' \in Int /\ alloc' \in 0..Memory /\ want' \in Nat
    <2>1. /\ size \in Int /\ alloc \in 0..Memory /\ want \in Nat /\ pointer \in Nat
          /\ Chunk \in Nat
      BY <1>1, UsbLoadAssumption DEF TypeOK
    <2>2. CASE Alloc
      <3>1. /\ size' = ReceivedSize /\ want' = want /\ pc = "alloc"
            /\ (size' \in 1..Memory /\ alloc' = size') \/ alloc' = alloc
        BY <2>2 DEF Alloc
      <3>2. ReceivedSize \in Int
        BY <3>1, SizeTypes DEF UsbInv, WordInv
      <3>3. 1..Memory \subseteq 0..Memory
        BY UsbLoadAssumption
      <3> QED
        BY <2>1, <3>1, <3>2, <3>3
    <2>3. CASE NextChunk
      <3>1. size \in Nat
        BY <2>3 DEF NextChunk, UsbInv, StoreInv
      <3>2. /\ want' = pointer + (IF size > Chunk THEN Chunk ELSE size)
            /\ UNCHANGED <<size, alloc>>
        BY <2>3 DEF NextChunk
      <3>3. pointer + (IF size > Chunk THEN Chunk ELSE size) \in Nat
        BY <2>1, <3>1
      <3> QED
        BY <2>1, <3>2, <3>3
    <2>4. CASE RecvData
      <3>1. UNCHANGED <<alloc, want>> /\ (size' = size - Chunk \/ size' = size)
        BY <2>4 DEF RecvData
      <3>2. size - Chunk \in Int
        BY <2>1
      <3> QED
        BY <2>1, <3>1, <3>2
    <2>5. CASE ~(Alloc \/ NextChunk \/ RecvData)
      <3>1. UNCHANGED <<size, alloc, want>>
        BY <2>5, Zenon DEF Next, Program, Host, Start, Flush, SendReady, Check, Poll,
           Reply, RecvSize, Tick, HostStart, HostHear,
           HostSend, HostGone, StaleByte, vars, store
      <3> QED
        BY <2>1, <3>1
    <2> QED
      BY <2>2, <2>3, <2>4, <2>5
  <1>10. pointer' \in Nat /\ res' \in BOOLEAN /\ pc' \in PCs
         /\ toGC' \in Seq(Elems) /\ buffer' \in Seq(Elems)
    BY <1>2, Zenon DEF StoreTypes
  <1> QED
    BY <1>3, <1>4, <1>5, <1>6, <1>7, <1>8, <1>9, <1>10, Zenon DEF TypeOK

-----------------------------------------------------------------------------
(* What follows from the invariant                                         *)

\* The inductive invariant holds in every state of load_usb and its host.
THEOREM ChannelInvariant == Spec => []UsbInv
  <1>1. Init => UsbInv
    BY InitUsb
  <1>2. UsbInv /\ [Next]_vars => UsbInv'
    <2>1. UsbInv /\ [Next]_vars => StoreInv'
      BY NextInv DEF UsbInv, TypeOK
    <2> QED
      BY <2>1, NextTypes, NextChannel, NextWord, NextHand DEF UsbInv
  <1> QED
    BY <1>1, <1>2, PTL DEF Spec

\* TypeOK: in particular the bytes taken as the size are bytes, whoever sent them,
\* what they say is an int, and a receive under way has an end.
THEOREM UsbTypes == Spec => []TypeOK
  <1>1. UsbInv => TypeOK
    BY DEF UsbInv
  <1> QED
    BY <1>1, ChannelInvariant, PTL

\* An answer and four bytes after it: what they are.
LEMMA FramedOrCrossed ==
    ASSUME UsbInv, Len(word) = 4, ack.tag # "stale"
    PROVE  SizeFramed
  <1>1. PICK m \in Nat, r \in {0, 1}, o \in {0, 1} : LinkInv(m, r, o)
    BY DEF UsbInv, ChannelInv
  <1>2. \A k \in 1..4 : word[k] \in Expected(k, m, r, o)
    BY <1>1, TakenElems
  <1>3. ack \in Answers
    <2>1. ack.tag # "none"
      <3>1. Len(<<>>) = 0
        OBVIOUS
      <3> QED
        BY <3>1 DEF UsbInv, WordInv
    <2> QED
      BY <2>1 DEF UsbInv, WordInv, NoElem, Elem
  <1>4. ack = Elem("ready", 0) \/ ack = Elem("ok", 0)
    <2>1. \A x \in StaleElems : x.tag = "stale"
      BY DEF StaleElems, Elem
    <2> QED
      BY <1>3, <2>1 DEF Answers
  <1>5. m = 0 /\ r = 0 /\ (ack = Elem("ok", 0) => o = 0)
    BY <1>1, <1>4 DEF LinkInv, Elem
  <1>6. CASE o = 0
    <2>1. \A k \in 1..4 : word[k] = Elem("size", k)
      BY <1>2, <1>5, <1>6 DEF Expected, Nth
    <2>2. word \in [1..4 -> Elems]
      <3>1. word \in Seq(Elems)
        BY LinkTypes
      <3>2. word \in [1..Len(word) -> Elems]
        BY <3>1, LenProperties, Zenon
      <3> QED
        BY <3>2
    <2>3. Framed
      BY <2>1, <2>2 DEF Framed
    <2> QED
      BY <2>3 DEF SizeFramed
  <1>7. CASE o = 1
    <2>1. word[1] = Elem("ok", 0)
      BY <1>2, <1>5, <1>7 DEF Expected
    <2>2. \A k \in 2..4 : word[k] = Elem("size", k - 1)
      BY <1>2, <1>5, <1>7 DEF Expected, Nth
    <2>3. word # <<>>
      OBVIOUS
    <2>4. Crossed
      BY <1>4, <1>5, <1>7, <2>1, <2>3 DEF Crossed
    <2> QED
      BY <2>2, <2>4 DEF SizeFramed
  <1> QED
    BY <1>6, <1>7

\* SizeFramed, for files and memories of any size and any number of bytes left over:
\* the four bytes are the host's size unless one of those passed for an answer, or
\* the ready messages crossed, and then they are off by exactly one.
THEOREM SizeIsFramed == Spec => []SizeFramed
  <1>1. UsbInv => SizeFramed
    BY FramedOrCrossed DEF SizeFramed
  <1> QED
    BY <1>1, ChannelInvariant, PTL

\* With the right size, nothing but size and file has come in since the answer.
LEMMA FileArrives ==
    ASSUME UsbInv, Framed, pc = "done", res
    PROVE  /\ alloc = file
           /\ \A k \in 1..file : buffer[k] = Elem("data", k)
  <1>1. PICK m \in Nat, r \in {0, 1}, o \in {0, 1} : LinkInv(m, r, o)
    BY DEF UsbInv, ChannelInv
  <1>2. Len(word) = 4 /\ alloc > 0 /\ Len(buffer) = alloc /\ alloc = ReceivedSize
    BY DEF UsbInv, WordInv, StoreInv
  <1>3. word[1] = Elem("size", 1) /\ word[2] = Elem("size", 2)
        /\ word[3] = Elem("size", 3) /\ word[4] = Elem("size", 4)
    BY DEF Framed
  <1>4. m = 0 /\ r = 0 /\ o = 0
    <2>1. word[1] \in Expected(1, m, r, o)
      BY <1>1, <1>2, TakenElems
    <2>2. /\ Elem("size", 1) \notin StaleElems /\ Elem("size", 1) # Elem("ready", 0)
          /\ Elem("size", 1) # Elem("ok", 0)
      BY DEF StaleElems, Elem
    <2> QED
      BY <1>3, <2>1, <2>2 DEF Expected
  <1>5. alloc = file
    <2> DEFINE v == [k \in 1..4 |-> Value(word[k])]
               b == <<SizeByte(file, 4), SizeByte(file, 3), SizeByte(file, 2),
                      SizeByte(file, 1)>>
    <2>1. ASSUME NEW k \in 1..4, word[k] = Elem("size", k)
          PROVE  Value(word[k]) = SizeByte(file, k)
      <3>1. word[k].tag = "size" /\ word[k].n = k
        BY <2>1 DEF Elem
      <3> QED
        BY <3>1, Zenon DEF Value
    <2>2. v[1] = SizeByte(file, 1) /\ v[2] = SizeByte(file, 2)
          /\ v[3] = SizeByte(file, 3) /\ v[4] = SizeByte(file, 4)
      BY <1>3, <2>1
    <2>3. ReceivedSize = Int32(convert_int(v))
      BY DEF ReceivedSize
    <2> HIDE DEF v
    <2>4. convert_int(v) = b
      BY <2>2 DEF convert_int
    <2>5. b \in Word /\ Unsigned(b) = file
      BY LinkTypes, SizeAnnounced
    <2> HIDE DEF b
    <2> QED
      BY <1>2, <2>3, <2>4, <2>5, IntRange
  <1>6. ASSUME NEW k \in 1..file PROVE buffer[k] = Elem("data", k)
    <2>1. k \in 1..Len(buffer)
      BY <1>2, <1>5
    <2>2. buffer[k] \in Expected(4 + k, m, r, o)
      BY <1>1, <1>2, <2>1, TakenElems
    <2>3. file \in Nat
      BY LinkTypes
    <2>4. /\ ~(4 + k <= m) /\ ~(4 + k <= m + r) /\ ~(4 + k <= m + r + o)
          /\ (4 + k) - (m + r + o) = 4 + k /\ ~(4 + k <= 4) /\ (4 + k) - 4 = k
      BY <1>4, <2>3
    <2> QED
      BY <2>2, <2>4 DEF Expected, Nth
  <1> QED
    BY <1>5, <1>6

\* ImageIsFile, for every size that four bytes can say and every memory: what is
\* reported as a success is the file in full, in order and with its own size, once
\* the size was read from the right place.  This needs convert_int, the sign test of
\* dol_alloc, and that no byte is lost or taken twice from the answer to the end.
THEOREM ImageIsTheFile == Spec => []ImageIsFile
  <1>1. UsbInv => ImageIsFile
    <2>1. UsbInv /\ pc = "done" /\ res => Len(buffer) = alloc
      BY DEF UsbInv, StoreInv
    <2> QED
      BY <2>1, FileArrives DEF ImageIsFile
  <1> QED
    BY <1>1, ChannelInvariant, PTL

\* NoMutualWait: load_usb and a host that has just said hello wait for each other
\* only if both bytes of load_usb were missed, or a left over byte was taken for an
\* answer.
THEOREM EachByteIsEnough == Spec => []NoMutualWait
  <1>1. UsbInv => NoMutualWait
    <2> SUFFICES ASSUME UsbInv, pc = "size", toPC = <<>>, host = "hello",
                        ack.tag # "stale"
                 PROVE  lost = {GC_READY, GC_OK}
      BY DEF NoMutualWait
    <2>1. GC_READY \in lost /\ lost \subseteq {GC_READY, GC_OK}
      BY DEF UsbInv, HandInv, TypeOK
    <2>2. ack.tag # "none" /\ ack \in {NoElem} \cup Answers
      BY DEF UsbInv, WordInv, Early
    <2>3. ack.tag \in {"ready", "ok"}
      BY <2>2 DEF Answers, StaleElems, NoElem, Elem
    <2>4. ack.tag # "ok"
      BY DEF UsbInv, ChannelInv, LinkInv
    <2>5. GC_OK \in lost
      BY <2>3, <2>4 DEF UsbInv, HandInv
    <2> QED
      BY <2>1, <2>5
  <1> QED
    BY <1>1, ChannelInvariant, PTL

=============================================================================
