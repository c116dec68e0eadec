--------------------------- MODULE FatOpen_proofs ---------------------------
(***************************************************************************)
(* What holds of f_open's search for any volume, whatever is written on    *)
(* it, wherever its data begin, and any size of sectors, clusters and      *)
(* directories: it finds the first object with the name (FindsFirst), and  *)
(* it looks at sectors of the root directory only (WalkInBounds).          *)
(***************************************************************************)
EXTENDS FatOpen, TLAPS

-----------------------------------------------------------------------------
(* Entries one after the other.  What the search has seen is a sequence s, *)
(* and e comes next.                                                       *)

AllEntries == FatEntries \cup ExEntries

\* LongName and Matches of any sequence of entries.
LongNameIn(s, a, n) ==
    /\ s[a].last
    /\ \A k \in a..(n - 1) :
          /\ s[k].type = "lfn" /\ s[k].match
          /\ s[k].ord = n - k
          /\ s[k].sum = s[n].sum
          /\ k # a => ~s[k].last

FatMatch(s, n) ==
    s[n].type = "sfn" /\ (s[n].match \/ \E a \in 1..(n - 1) : LongNameIn(s, a, n))

BlockIn(s, a, n) ==
    /\ s[a].type = "file" /\ s[a].match /\ s[a].sum = 1
    /\ s[a].ord = n - a
    /\ s[a + 1].type = "stream" /\ s[a + 1].match
    /\ \A k \in (a + 2)..n : s[k].type = "name"

ExMatch(s, n) == \E a \in 1..(n - 2) : BlockIn(s, a, n)

MatchIn(s, n) == FatMatch(s, n) \/ ExMatch(s, n)

\* The entries from a on are pieces of one long name, the last piece first.
Run(s, a) ==
    /\ s[a].last
    /\ \A k \in a..Len(s) :
          /\ s[k].type = "lfn" /\ s[k].match
          /\ s[k].sum = s[a].sum
          /\ s[k].ord = s[a].ord - (k - a)
          /\ k # a => ~s[k].last

\* ord and sum are what the last entry of such a run leaves.
Pending(s, o, m) == s # <<>> /\ o = s[Len(s)].ord - 1 /\ m = s[Len(s)].sum

LfnInv(s, o, m) ==
    /\ o # NONE => Pending(s, o, m) /\ \E a \in 1..Len(s) : Run(s, a)
    /\ \A a \in 1..Len(s) : Run(s, a) => Pending(s, o, m)

\* The entries after a, up to n, are those of a block with the name's length.
Follow(s, a, n) ==
    /\ a < n => s[a + 1].type = "stream" /\ s[a + 1].match
    /\ \A k \in (a + 2)..n : s[k].type = "name"

\* A block that began with entry a and is not yet complete.
OpenBlock(s, a) ==
    /\ s[a].type = "file" /\ s[a].ord >= 2 /\ s[a].ord > Len(s) - a
    /\ Follow(s, a, Len(s))

BlockInv(s, b, f) ==
    /\ b > 0 => \E a \in 1..Len(s) :
                    /\ s[a] = f /\ f.type = "file" /\ f.ord >= 2
                    /\ f.ord = b + (Len(s) - a)
                    /\ Follow(s, a, Len(s))
    /\ \A a \in 1..Len(s) :
           OpenBlock(s, a) => f = s[a] /\ b = s[a].ord - (Len(s) - a)

\* The fields of an entry.
LEMMA FatFields ==
    ASSUME NEW e \in FatEntries
    PROVE  /\ e.type \in {"deleted", "end", "lfn", "sfn"}
           /\ e.type = "lfn" => e.ord \in 1..2 /\ e.sum \in {1, 2} /\ e.last \in BOOLEAN
           /\ e.ord \in 0..2
  <1>1. CASE e \in {Plain("deleted"), Plain("end")}
    BY <1>1 DEF Plain
  <1>2. CASE e \in [type : {"lfn"}, ord : 1..2, last : BOOLEAN, sum : {1, 2}, match : BOOLEAN]
    BY <1>2
  <1>3. CASE e \in [type : {"sfn"}, ord : {0}, last : {FALSE}, sum : {1}, match : BOOLEAN]
    BY <1>3
  <1> QED
    BY <1>1, <1>2, <1>3 DEF FatEntries

LEMMA ExFields ==
    ASSUME NEW e \in ExEntries
    PROVE  /\ e.type \in {"other", "end", "name", "file", "stream"}
           /\ e.ord \in 0..3 /\ e.sum \in {0, 1}
  <1>1. CASE e \in {Plain("other"), Plain("end"), Plain("name")}
    BY <1>1 DEF Plain
  <1>2. CASE e \in [type : {"file"}, ord : 1..3, last : {FALSE}, sum : {0, 1}, match : BOOLEAN]
    BY <1>2
  <1>3. CASE e \in [type : {"stream"}, ord : {0}, last : {FALSE}, sum : {0}, match : BOOLEAN]
    BY <1>3
  <1> QED
    BY <1>1, <1>2, <1>3 DEF ExEntries

\* The sequence with one more entry.
LEMMA OneMore ==
    ASSUME NEW E, NEW s \in Seq(E), NEW e \in E
    PROVE  /\ Append(s, e) \in Seq(E) /\ Append(s, e) # <<>>
           /\ Len(s) \in Nat /\ Len(Append(s, e)) = Len(s) + 1
           /\ Append(s, e)[Len(s) + 1] = e
           /\ \A k \in 1..Len(s) : Append(s, e)[k] = s[k]
  OBVIOUS

\* What matched before matches still, and nothing else does but the new entry.
LEMMA OlderMatches ==
    ASSUME NEW E, NEW s \in Seq(E), NEW e \in E, NEW n \in 1..Len(s)
    PROVE  MatchIn(Append(s, e), n) <=> MatchIn(s, n)
  <1> DEFINE t == Append(s, e)
  <1>1. \A k \in 1..Len(s) : t[k] = s[k]
    BY OneMore
  <1>2. Len(s) \in Nat
    OBVIOUS
  <1> HIDE DEF t
  <1>3. FatMatch(t, n) <=> FatMatch(s, n)
    <2>1. t[n] = s[n]
      BY <1>1
    <2>2. ASSUME NEW a \in 1..(n - 1) PROVE LongNameIn(t, a, n) <=> LongNameIn(s, a, n)
      <3>1. \A k \in a..(n - 1) : k \in 1..Len(s)
        BY <1>2
      <3>2. a \in 1..Len(s)
        BY <1>2
      <3> QED
        BY <1>1, <2>1, <3>1, <3>2 DEF LongNameIn
    <2> QED
      BY <2>1, <2>2 DEF FatMatch
  <1>4. ExMatch(t, n) <=> ExMatch(s, n)
    <2>1. ASSUME NEW a \in 1..(n - 2)
          PROVE  BlockIn(t, a, n) <=> BlockIn(s, a, n)
      <3>1. /\ a \in 1..Len(s) /\ a + 1 \in 1..Len(s)
            /\ \A k \in (a + 2)..n : k \in 1..Len(s)
        BY <1>2
      <3>2. t[a] = s[a] /\ t[a + 1] = s[a + 1] /\ \A k \in (a + 2)..n : t[k] = s[k]
        BY <1>1, <3>1
      <3> QED
        BY <3>2 DEF BlockIn
    <2> QED
      BY <2>1 DEF ExMatch
  <1> QED
    BY <1>3, <1>4 DEF MatchIn, t

\* A piece of a long name begins a run, goes on with it, or ends it.
LEMMA LfnGoesOn ==
    ASSUME NEW s \in Seq(FatEntries), NEW e \in FatEntries, e.type = "lfn",
           NEW o \in {0, 1, 2, NONE}, NEW m, LfnInv(s, o, m),
           NEW m2, m2 = IF e.last THEN e.sum ELSE m,
           NEW o2, o2 = IF (e.last \/ e.ord = o) /\ m2 = e.sum /\ e.match
                        THEN e.ord - 1 ELSE NONE
    PROVE  LfnInv(Append(s, e), o2, m2)
  <1> DEFINE t == Append(s, e)
             L == Len(s)
  <1>1. /\ t # <<>> /\ L \in Nat /\ Len(t) = L + 1 /\ t[L + 1] = e
        /\ \A k \in 1..L : t[k] = s[k]
    BY OneMore
  <1>2. e.ord \in 1..2 /\ e.last \in BOOLEAN
    BY FatFields
  <1> HIDE DEF t
  <1>3. Pending(t, e.ord - 1, e.sum)
    BY <1>1 DEF Pending
  <1>4. \A a \in 1..L : Run(t, a) => Run(s, a)
    <2> SUFFICES ASSUME NEW a \in 1..L, Run(t, a) PROVE Run(s, a)
      OBVIOUS
    <2>1. \A k \in a..L : k \in a..Len(t) /\ k \in 1..L
      BY <1>1
    <2> QED
      BY <1>1, <2>1 DEF Run
  <1>5. ASSUME o2 # NONE
        PROVE  Pending(t, o2, m2) /\ \E a \in 1..Len(t) : Run(t, a)
    <2>1. (e.last \/ e.ord = o) /\ m2 = e.sum /\ e.match /\ o2 = e.ord - 1
      BY <1>5
    <2>2. Pending(t, o2, m2)
      BY <1>3, <2>1
    <2>3. CASE e.last
      <3>1. \A k \in (L + 1)..Len(t) : k = L + 1
        BY <1>1
      <3>2. e.ord = e.ord - ((L + 1) - (L + 1))
        BY <1>1, <1>2
      <3>3. Run(t, L + 1)
        BY <1>1, <2>1, <2>3, <3>1, <3>2 DEF Run
      <3> QED
        BY <1>1, <2>2, <3>3
    <2>4. CASE ~e.last
      <3>1. e.ord = o /\ o # NONE /\ m2 = m
        BY <1>2, <2>1, <2>4 DEF NONE
      <3>2. Pending(s, o, m)
        BY <3>1 DEF LfnInv
      <3>3. PICK a \in 1..L : Run(s, a)
        BY <3>1 DEF LfnInv
      <3>4. L \in a..L /\ a \in Nat /\ a \in a..L
        BY <1>1
      <3>5. s[L].sum = s[a].sum /\ s[L].ord = s[a].ord - (L - a) /\ s[a].last
        BY <3>3, <3>4 DEF Run
      <3>6. s[a] \in FatEntries /\ s[a].ord \in 0..2
        BY FatFields
      <3>7. e.ord = s[a].ord - ((L + 1) - a) /\ e.sum = s[a].sum
        BY <1>1, <2>1, <3>1, <3>2, <3>4, <3>5, <3>6 DEF Pending
      <3>8. \A k \in a..Len(t) : k \in a..L \/ k = L + 1
        BY <1>1
      <3>9. \A k \in a..L : t[k] = s[k]
        BY <1>1
      <3>10. Run(t, a)
        BY <1>1, <2>1, <2>4, <3>3, <3>4, <3>5, <3>7, <3>8, <3>9, SMTT(20) DEF Run
      <3> QED
        BY <1>1, <2>2, <3>10
    <2> QED
      BY <2>3, <2>4
  <1>6. ASSUME NEW a \in 1..Len(t), Run(t, a)
        PROVE  Pending(t, o2, m2)
    <2>1. L + 1 \in a..Len(t) /\ (a \in 1..L \/ a = L + 1)
      BY <1>1
    <2>2. e.match /\ e.sum = t[a].sum /\ e.ord = t[a].ord - ((L + 1) - a)
          /\ (a # L + 1 => ~e.last)
      BY <1>1, <1>6, <2>1 DEF Run
    <2>3. CASE a = L + 1
      <3>1. e.last
        BY <1>1, <1>6, <2>3 DEF Run
      <3> QED
        BY <1>3, <2>2, <3>1
    <2>4. CASE a \in 1..L
      <3>1. Run(s, a) /\ t[a] = s[a] /\ ~e.last
        BY <1>1, <1>4, <1>6, <2>2, <2>4
      <3>2. Pending(s, o, m)
        BY <2>4, <3>1 DEF LfnInv
      <3>3. L \in a..L
        BY <1>1, <2>4
      <3>4. s[L].sum = s[a].sum /\ s[L].ord = s[a].ord - (L - a)
        BY <3>1, <3>3 DEF Run
      <3>5. s[a] \in FatEntries /\ s[a].ord \in 0..2
        BY <2>4, FatFields
      <3>6. e.ord = o /\ m = e.sum
        BY <1>1, <2>2, <2>4, <3>1, <3>2, <3>4, <3>5 DEF Pending
      <3> QED
        BY <1>3, <2>2, <3>1, <3>6
    <2> QED
      BY <2>1, <2>3, <2>4
  <1> QED
    BY <1>5, <1>6 DEF LfnInv, t

\* Any other entry ends it.
LEMMA LfnBreaksOff ==
    ASSUME NEW s \in Seq(FatEntries), NEW e \in FatEntries, e.type # "lfn", NEW m
    PROVE  LfnInv(Append(s, e), NONE, m)
  <1> DEFINE t == Append(s, e)
  <1>1. Len(s) \in Nat /\ Len(t) = Len(s) + 1 /\ t[Len(s) + 1] = e
    BY OneMore
  <1> HIDE DEF t
  <1>2. ASSUME NEW a \in 1..Len(t) PROVE ~Run(t, a)
    <2>1. Len(s) + 1 \in a..Len(t)
      BY <1>1
    <2> QED
      BY <1>1, <2>1 DEF Run
  <1> QED
    BY <1>2 DEF LfnInv, t

\* A short entry matches if the run before it is complete and its own.
LEMMA LfnMatches ==
    ASSUME NEW s \in Seq(FatEntries), NEW e \in FatEntries, e.type = "sfn",
           NEW o \in {0, 1, 2, NONE}, NEW m, LfnInv(s, o, m)
    PROVE  MatchIn(Append(s, e), Len(s) + 1) <=> (o = 0 /\ m = e.sum) \/ e.match
  <1> DEFINE t == Append(s, e)
             L == Len(s)
  <1>1. /\ t \in Seq(FatEntries) /\ t # <<>> /\ L \in Nat /\ Len(t) = L + 1 /\ t[L + 1] = e
        /\ \A k \in 1..L : t[k] = s[k]
    BY OneMore
  <1> HIDE DEF t
  <1>2. \A a \in 1..L : t[a].type # "file"
    BY <1>1, FatFields
  <1>3. ~ExMatch(t, L + 1)
    <2>1. \A a \in 1..((L + 1) - 2) : a \in 1..L
      BY <1>1
    <2>2. \A a \in 1..((L + 1) - 2) : ~BlockIn(t, a, L + 1)
      BY <1>2, <2>1 DEF BlockIn
    <2> QED
      BY <2>2 DEF ExMatch
  <1>4. (L + 1) - 1 = L
    BY <1>1
  <1>5. ASSUME o = 0, m = e.sum PROVE \E a \in 1..L : LongNameIn(t, a, L + 1)
    <2>1. Pending(s, o, m)
      BY <1>5 DEF LfnInv, NONE
    <2>2. PICK a \in 1..L : Run(s, a)
      BY <1>5 DEF LfnInv, NONE
    <2>3. L \in a..L /\ a \in Nat /\ a \in a..L
      BY <1>1
    <2>4. s[L].sum = s[a].sum /\ s[L].ord = s[a].ord - (L - a) /\ s[a].last
      BY <2>2, <2>3 DEF Run
    <2>5. s[a].ord \in 0..2 /\ s[L].ord \in 0..2
      BY <2>3, FatFields
    <2>6. s[a].ord = (L + 1) - a /\ s[a].sum = e.sum
      BY <1>1, <1>5, <2>1, <2>3, <2>4, <2>5 DEF Pending
    <2>7. \A k \in a..L : t[k] = s[k]
      BY <1>1
    <2>8. \A k \in a..L : s[k].ord = (L + 1) - k
      <3>1. ASSUME NEW k \in a..L PROVE s[k].ord = (L + 1) - k
        <4>1. s[k].ord = s[a].ord - (k - a)
          BY <2>2 DEF Run
        <4> QED
          BY <1>1, <2>3, <2>6, <4>1
      <3> QED
        BY <3>1
    <2>9. LongNameIn(t, a, L + 1)
      BY <1>1, <1>4, <2>2, <2>3, <2>4, <2>6, <2>7, <2>8 DEF LongNameIn, Run
    <2> QED
      BY <2>9
  <1>6. ASSUME NEW a \in 1..L, LongNameIn(t, a, L + 1) PROVE o = 0 /\ m = e.sum
    <2>1. L \in a..L /\ a \in Nat /\ a \in a..L
      BY <1>1
    <2>2. \A k \in a..L : t[k] = s[k]
      BY <1>1
    <2>3. \A k \in a..L : /\ s[k].type = "lfn" /\ s[k].match /\ s[k].ord = (L + 1) - k
                          /\ s[k].sum = e.sum /\ (k # a => ~s[k].last)
      BY <1>1, <1>4, <1>6, <2>2 DEF LongNameIn
    <2>4. s[a].last
      BY <1>6, <2>1, <2>2 DEF LongNameIn
    <2>5. \A k \in a..L : (L + 1) - k = s[a].ord - (k - a)
      BY <1>1, <2>1, <2>3
    <2>6. Run(s, a)
      BY <2>1, <2>3, <2>4, <2>5 DEF Run
    <2>7. Pending(s, o, m)
      BY <2>6 DEF LfnInv
    <2>8. s[L].ord = 1 /\ s[L].sum = e.sum
      BY <1>1, <2>1, <2>3
    <2> QED
      BY <2>7, <2>8 DEF Pending
  <1>7. FatMatch(t, L + 1) <=> e.match \/ \E a \in 1..L : LongNameIn(t, a, L + 1)
    BY <1>1, <1>4 DEF FatMatch
  <1> QED
    BY <1>3, <1>5, <1>6, <1>7 DEF MatchIn, t

\* On exFAT: an entry outside a block that begins none.
LEMMA BlockNone ==
    ASSUME NEW s \in Seq(ExEntries), NEW e \in ExEntries, e.type # "file",
           NEW f, BlockInv(s, 0, f)
    PROVE  /\ BlockInv(Append(s, e), 0, f)
           /\ ~MatchIn(Append(s, e), Len(s) + 1)
  <1> DEFINE t == Append(s, e)
             L == Len(s)
  <1>1. /\ L \in Nat /\ Len(t) = L + 1 /\ t[L + 1] = e
        /\ \A k \in 1..L : t[k] = s[k]
    BY OneMore
  <1> HIDE DEF t
  <1>2. \A a \in 1..L : s[a].ord \in 0..3
    BY ExFields
  <1>3. ASSUME NEW a \in 1..L, t[a].type = "file", t[a].ord >= 2, t[a].ord >= (L + 1) - a,
               Follow(t, a, L + 1)
        PROVE  FALSE
    <2>1. t[a] = s[a] /\ Follow(s, a, L)
      BY <1>1, <1>3 DEF Follow
    <2>2. s[a].ord > L - a
      BY <1>1, <1>2, <1>3, <2>1
    <2>3. OpenBlock(s, a)
      BY <1>3, <2>1, <2>2 DEF OpenBlock
    <2>4. 0 = s[a].ord - (L - a)
      BY <2>3 DEF BlockInv
    <2> QED
      BY <1>1, <1>2, <2>2, <2>4
  <1>4. ASSUME NEW a \in 1..Len(t) PROVE ~OpenBlock(t, a)
    <2>1. CASE a = L + 1
      BY <1>1, <2>1 DEF OpenBlock
    <2>2. CASE a \in 1..L
      <3>1. t[a].ord \in 0..3
        BY <1>1, <1>2, <2>2
      <3> QED
        BY <1>1, <1>3, <2>2, <3>1 DEF OpenBlock
    <2> QED
      BY <1>1, <2>1, <2>2
  <1>5. ~FatMatch(t, L + 1)
    BY <1>1, ExFields DEF FatMatch
  <1>6. ASSUME NEW a \in 1..((L + 1) - 2) PROVE ~BlockIn(t, a, L + 1)
    <2>1. a \in 1..L /\ a < L + 1 /\ t[a].ord \in 0..3
      BY <1>1, <1>2
    <2>2. BlockIn(t, a, L + 1) => Follow(t, a, L + 1)
      BY DEF BlockIn, Follow
    <2>3. BlockIn(t, a, L + 1) => t[a].ord >= 2 /\ t[a].ord >= (L + 1) - a /\ t[a].type = "file"
      BY <1>1 DEF BlockIn
    <2> QED
      BY <1>3, <2>1, <2>2, <2>3
  <1> QED
    BY <1>1, <1>4, <1>5, <1>6 DEF BlockInv, MatchIn, ExMatch, t

\* A file entry outside a block begins one.
LEMMA BlockBegins ==
    ASSUME NEW s \in Seq(ExEntries), NEW e \in ExEntries, e.type = "file", e.ord >= 2,
           NEW f, BlockInv(s, 0, f)
    PROVE  BlockInv(Append(s, e), e.ord, e)
  <1> DEFINE t == Append(s, e)
             L == Len(s)
  <1>1. /\ L \in Nat /\ Len(t) = L + 1 /\ t[L + 1] = e /\ e.ord \in 0..3
        /\ \A k \in 1..L : t[k] = s[k]
    BY OneMore, ExFields
  <1> HIDE DEF t
  <1>2. Follow(t, L + 1, L + 1)
    BY <1>1 DEF Follow
  <1>3. e.ord = e.ord + ((L + 1) - (L + 1)) /\ e.ord = e.ord - ((L + 1) - (L + 1))
    BY <1>1
  <1>4. ASSUME NEW a \in 1..L PROVE ~OpenBlock(t, a)
    <2>1. CASE a = L
      BY <1>1, <2>1 DEF OpenBlock, Follow
    <2>2. CASE a < L
      <3>1. L + 1 \in (a + 2)..(L + 1)
        BY <1>1, <2>2
      <3> QED
        BY <1>1, <3>1 DEF OpenBlock, Follow
    <2> QED
      BY <1>1, <2>1, <2>2
  <1>5. \A a \in 1..Len(t) : a \in 1..L \/ a = L + 1
    BY <1>1
  <1> QED
    BY <1>1, <1>2, <1>3, <1>4, <1>5 DEF BlockInv, t

\* A file entry completes nothing.
LEMMA FileMatchesNone ==
    ASSUME NEW s \in Seq(ExEntries), NEW e \in ExEntries, e.type \in {"file", "end", "other"}
    PROVE  ~MatchIn(Append(s, e), Len(s) + 1)
  <1> DEFINE t == Append(s, e)
             L == Len(s)
  <1>1. L \in Nat /\ t[L + 1] = e
    BY OneMore
  <1> HIDE DEF t
  <1>2. ~FatMatch(t, L + 1)
    BY <1>1 DEF FatMatch
  <1>3. ASSUME NEW a \in 1..((L + 1) - 2) PROVE ~BlockIn(t, a, L + 1)
    <2>1. L + 1 \in (a + 2)..(L + 1)
      BY <1>1
    <2> QED
      BY <1>1, <2>1 DEF BlockIn
  <1> QED
    BY <1>2, <1>3 DEF MatchIn, ExMatch, t

\* The next entry of a block, and the last.
LEMMA BlockGoesOn ==
    ASSUME NEW s \in Seq(ExEntries), NEW e \in ExEntries,
           NEW f \in ExEntries, NEW b \in 1..3, BlockInv(s, b, f),
           IF b = f.ord THEN e.type = "stream" /\ e.match ELSE e.type = "name"
    PROVE  /\ BlockInv(Append(s, e), b - 1, f)
           /\ MatchIn(Append(s, e), Len(s) + 1) <=> b = 1 /\ f.match /\ f.sum = 1
  <1> DEFINE t == Append(s, e)
             L == Len(s)
  <1>1. /\ L \in Nat /\ Len(t) = L + 1 /\ t[L + 1] = e
        /\ \A k \in 1..L : t[k] = s[k]
    BY OneMore
  <1> HIDE DEF t
  <1>2. f.ord \in 0..3 /\ \A a \in 1..L : s[a].ord \in 0..3
    BY ExFields
  <1>3. PICK a \in 1..L : /\ s[a] = f /\ f.type = "file" /\ f.ord >= 2
                          /\ f.ord = b + (L - a)
                          /\ Follow(s, a, L)
    BY DEF BlockInv
  <1>4. Follow(t, a, L + 1)
    <2>1. CASE a = L
      <3>1. b = f.ord /\ e.type = "stream" /\ e.match
        BY <1>1, <1>2, <1>3, <2>1
      <3>2. \A k \in (a + 2)..(L + 1) : FALSE
        BY <1>1, <2>1
      <3> QED
        BY <1>1, <2>1, <3>1, <3>2 DEF Follow
    <2>2. CASE a < L
      <3>1. e.type = "name"
        BY <1>1, <1>2, <1>3, <2>2
      <3>2. /\ a + 1 \in 1..L
            /\ \A k \in (a + 2)..(L + 1) : (k \in (a + 2)..L /\ k \in 1..L) \/ k = L + 1
        BY <1>1, <2>2
      <3> QED
        BY <1>1, <1>3, <2>2, <3>1, <3>2 DEF Follow
    <2> QED
      BY <1>1, <2>1, <2>2
  <1>5. t[a] = f /\ f.ord = (b - 1) + ((L + 1) - a) /\ b - 1 \in Nat
    BY <1>1, <1>2, <1>3
  <1>6. ASSUME NEW c \in 1..L, t[c].type = "file", t[c].ord >= 2, t[c].ord >= (L + 1) - c,
               Follow(t, c, L + 1)
        PROVE  f = t[c] /\ b = t[c].ord - (L - c)
    <2>1. t[c] = s[c] /\ Follow(s, c, L)
      BY <1>1, <1>6 DEF Follow
    <2>2. s[c].ord > L - c
      <3>1. s[c].ord \in 0..3 /\ s[c].ord >= (L + 1) - c
        BY <1>2, <1>6, <2>1
      <3> QED
        BY <1>1, <3>1
    <2>3. OpenBlock(s, c)
      BY <1>6, <2>1, <2>2 DEF OpenBlock
    <2> QED
      BY <2>1, <2>3 DEF BlockInv
  <1>7. e.type # "file"
    OBVIOUS
  <1>8. ASSUME NEW c \in 1..Len(t), OpenBlock(t, c)
        PROVE  f = t[c] /\ b - 1 = t[c].ord - (Len(t) - c)
    <2>1. c # L + 1
      BY <1>1, <1>7, <1>8 DEF OpenBlock
    <2>2. c \in 1..L
      BY <1>1, <2>1
    <2>3. t[c].ord \in 0..3
      BY <1>1, <1>2, <2>2
    <2>4. f = t[c] /\ b = t[c].ord - (L - c)
      BY <1>1, <1>6, <1>8, <2>2, <2>3 DEF OpenBlock
    <2>5. ASSUME NEW o \in 0..3, b = o - (L - c) PROVE b - 1 = o - ((L + 1) - c)
      BY <1>1, <2>2, <2>5
    <2>6. b - 1 = t[c].ord - ((L + 1) - c)
      BY <2>3, <2>4, <2>5
    <2> QED
      BY <1>1, <2>4, <2>6
  <1>9. BlockInv(t, b - 1, f)
    <2>1. a \in 1..Len(t) /\ Len(t) = L + 1
      BY <1>1
    <2> QED
      BY <1>3, <1>4, <1>5, <1>8, <2>1 DEF BlockInv
  <1>10. ~FatMatch(t, L + 1)
    BY <1>1, ExFields DEF FatMatch
  <1>11. ASSUME NEW c \in 1..((L + 1) - 2), BlockIn(t, c, L + 1)
         PROVE  b = 1 /\ f.match /\ f.sum = 1
    <2>1. c \in 1..L /\ c < L + 1 /\ t[c].ord \in 0..3
      BY <1>1, <1>2
    <2>2. Follow(t, c, L + 1)
      BY <1>11 DEF BlockIn, Follow
    <2>3. t[c].ord = (L + 1) - c /\ t[c].type = "file" /\ t[c].match /\ t[c].sum = 1
      BY <1>11 DEF BlockIn
    <2>4. t[c].ord >= 2 /\ t[c].ord >= (L + 1) - c
      BY <1>1, <2>1, <2>3
    <2>5. f = t[c] /\ b = t[c].ord - (L - c)
      BY <1>6, <2>1, <2>2, <2>3, <2>4
    <2>6. b = 1
      BY <1>1, <2>1, <2>3, <2>5
    <2> QED
      BY <2>3, <2>5, <2>6
  <1>12. ASSUME b = 1, f.match, f.sum = 1 PROVE a \in 1..((L + 1) - 2) /\ BlockIn(t, a, L + 1)
    <2>1. f.ord = (L + 1) - a /\ a \in 1..((L + 1) - 2)
      BY <1>1, <1>2, <1>3, <1>12
    <2>2. a < L + 1
      BY <1>1
    <2> QED
      BY <1>3, <1>4, <1>5, <1>12, <2>1, <2>2 DEF BlockIn, Follow
  <1>13. MatchIn(t, L + 1) <=> (b = 1 /\ f.match /\ f.sum = 1)
    BY <1>10, <1>11, <1>12 DEF MatchIn, ExMatch
  <1> QED
    BY <1>9, <1>13 DEF t

-----------------------------------------------------------------------------
(* The place of an entry                                                   *)

\* Counting on by one, in units of p.
LEMMA CountOn ==
    ASSUME NEW d \in Nat, NEW p \in Nat \ {0}
    PROVE  /\ (d + 1) % p = 0 => (d + 1) \div p = (d \div p) + 1
           /\ (d + 1) % p # 0 => /\ (d + 1) \div p = d \div p
                                 /\ (d + 1) % p = (d % p) + 1
           /\ d \div p \in Nat /\ d % p \in 0..(p - 1)
  <1> DEFINE q == d \div p
             r == d % p
             u == (d + 1) \div p
             v == (d + 1) % p
  <1>0. q = d \div p /\ r = d % p /\ u = (d + 1) \div p /\ v = (d + 1) % p
    OBVIOUS
  <1>1. q \in Nat /\ r \in 0..(p - 1) /\ u \in Nat /\ v \in 0..(p - 1)
    OBVIOUS
  <1>2. d = p * q + r
    BY Z3
  <1>3. d + 1 = p * u + v
    <2>1. \A n \in Nat : n = p * (n \div p) + (n % p)
      BY Z3
    <2> QED
      BY <2>1
  <1> HIDE DEF q, r, u, v
  <1>4. \A x, y \in Nat : x >= y => p * x >= p * y
    OBVIOUS
  <1>5. p * (q + 1) = p * q + p /\ p * (u + 1) = p * u + p /\ p * q \in Nat /\ p * u \in Nat
        /\ p * (q + 2) = p * q + p + p
    BY <1>1
  <1>6. ASSUME u < q PROVE FALSE
    <2>1. p * q >= p * (u + 1)
      BY <1>1, <1>4, <1>6
    <2> QED
      BY <1>1, <1>2, <1>3, <1>5, <2>1
  <1>7. ASSUME u = q PROVE v = r + 1 /\ v # 0
    BY <1>1, <1>2, <1>3, <1>5, <1>7
  <1>8. ASSUME u = q + 1 PROVE v = 0
    BY <1>1, <1>2, <1>3, <1>5, <1>8
  <1>9. ASSUME u > q + 1 PROVE FALSE
    <2>1. p * u >= p * (q + 2)
      BY <1>1, <1>4, <1>9
    <2> QED
      BY <1>1, <1>2, <1>3, <1>5, <2>1
  <1>10. u < q \/ u = q \/ u = q + 1 \/ u > q + 1
    BY <1>1
  <1>11. (v = 0 => u = q + 1) /\ (v # 0 => u = q /\ v = r + 1)
    BY <1>6, <1>7, <1>8, <1>9, <1>10
  <1>12. q \in Nat /\ r \in 0..(p - 1)
    BY <1>1
  <1> QED
    BY <1>0, <1>11, <1>12, Zenon

\* A chain stays when more of the FAT is read, and goes on by one cluster when the
\* entry of its last one is read.
LEMMA ChainGoesOn ==
    ASSUME NEW f, NEW g, NEW a, NEW c, NEW v, NEW n \in Nat, Leads(f, a, n, c),
           DOMAIN f \subseteq DOMAIN g, \A x \in DOMAIN f : g[x] = f[x]
    PROVE  /\ Leads(g, a, n, c)
           /\ c \in DOMAIN g /\ g[c] = v => Leads(g, a, n + 1, v)
  <1>1. PICK h \in [0..n -> DOMAIN f \cup {c}] :
            /\ h[0] = a /\ h[n] = c
            /\ \A i \in 1..n : h[i - 1] \in DOMAIN f /\ h[i] = f[h[i - 1]]
    BY DEF Leads
  <1>2. \A i \in 1..n : h[i - 1] \in DOMAIN g /\ h[i] = g[h[i - 1]]
    BY <1>1
  <1>3. h \in [0..n -> DOMAIN g \cup {c}]
    BY <1>1
  <1>4. Leads(g, a, n, c)
    BY <1>1, <1>2, <1>3 DEF Leads
  <1>5. ASSUME c \in DOMAIN g, g[c] = v
        PROVE  Leads(g, a, n + 1, v)
    <2> DEFINE k == [i \in 0..(n + 1) |-> IF i = n + 1 THEN v ELSE h[i]]
    <2>1. /\ \A i \in 0..n : k[i] = h[i] /\ h[i] \in DOMAIN g \cup {c}
          /\ k[n + 1] = v
      BY <1>3
    <2>2. k \in [0..(n + 1) -> DOMAIN g \cup {v}]
      <3>1. \A i \in 0..(n + 1) : i = n + 1 \/ i \in 0..n
        OBVIOUS
      <3> QED
        BY <1>5, <2>1, <3>1
    <2>3. k[0] = a /\ k[n] = c
      BY <1>1, <2>1
    <2> HIDE DEF k
    <2>4. ASSUME NEW i \in 1..(n + 1) PROVE k[i - 1] \in DOMAIN g /\ k[i] = g[k[i - 1]]
      <3>1. CASE i = n + 1
        <4>1. k[i - 1] = c /\ k[i] = v
          BY <2>1, <2>3, <3>1
        <4> QED
          BY <1>5, <4>1
      <3>2. CASE i \in 1..n
        <4>1. i - 1 \in 0..n /\ i \in 0..n
          BY <3>2
        <4> QED
          BY <1>2, <2>1, <3>2, <4>1
      <3> QED
        BY <3>1, <3>2
    <2> QED
      BY <2>1, <2>2, <2>3, <2>4 DEF Leads
  <1> QED
    BY <1>4, <1>5

\* The chain of no step.
LEMMA ChainBegins == ASSUME NEW f, NEW a PROVE Leads(f, a, 0, a)
  <1> DEFINE h == [i \in 0..0 |-> a]
  <1>1. h \in [0..0 -> DOMAIN f \cup {a}]
    OBVIOUS
  <1>2. h[0] = a
    OBVIOUS
  <1> HIDE DEF h
  <1>3. \A i \in 1..0 : h[i - 1] \in DOMAIN f /\ h[i] = f[h[i - 1]]
    OBVIOUS
  <1> QED
    BY <1>1, <1>2, <1>3 DEF Leads

-----------------------------------------------------------------------------
(* The inductive invariant                                                 *)

VolumeInv ==
    /\ fs_type \in {"FAT16", "FAT32", "EXFAT"}
    /\ n_fatent = NumFatEnt /\ csize = ClusterSize
    /\ database \in Nat /\ (database = 0 => exfat)
    /\ Static => dirbase = 0

\* Entry d, in the n-th sector of the root directory, is in sector s, of cluster c.
Placed(n, d, c, s) ==
    \/ /\ Static /\ c = 0 /\ d < RootEntries
       /\ s = StaticBase + n
    \/ /\ ~Static /\ c \in Clusters
       /\ s = clst2sect(c) + (n % csize)
       /\ Leads(fat, dirbase, n \div csize, c)

\* Every entry up to the current one has been looked at; the current one is in the
\* root directory.
WalkInv ==
    /\ dpc = "sdi" => dptr = 0 /\ seen = <<>>
    /\ dpc = "look" => Len(seen) = dptr
    /\ dpc = "next" => Len(seen) = dptr + 1
    /\ dpc = "done" => Len(seen) <= dptr + 1
    /\ dpc \in {"look", "next"} => Placed(dptr \div PerSector, dptr, clust, sect)
    /\ dpc = "next" => sect # 0

\* Nothing matched so far, and what the search has kept says what could complete a
\* match: the state of the LFN set, or the block.
SearchInv ==
    dpc # "done" =>
        /\ dres = "none"
        /\ \A n \in 1..Len(seen) : ~Matches(n)
        /\ exfat => BlockInv(seen, block, found)
        /\ ~exfat => block = 0 /\ LfnInv(seen, ord, sum)

OpenInv == TypeOK /\ VolumeInv /\ WalkInv /\ SearchInv /\ FindsFirst

\* Matches is MatchIn of what has been seen.
LEMMA MatchSeen == \A n : Matches(n) <=> MatchIn(seen, n)
  BY DEF Matches, LongName, MatchIn, FatMatch, LongNameIn, ExMatch, BlockIn

LEMMA MatchSeenNext == \A n : Matches(n)' <=> MatchIn(seen', n)
  BY DEF Matches, LongName, MatchIn, FatMatch, LongNameIn, ExMatch, BlockIn

\* The constants.
LEMMA Constants ==
    /\ PerSector \in Nat \ {0} /\ RootEntries \in Nat \ {0} /\ MaxDir \in Nat \ {0}
    /\ NumFatEnt \in Nat /\ NumFatEnt > 2 /\ ClusterSize \in Nat \ {0}
    /\ RootEntries % PerSector = 0
  BY FatOpenAssumption

\* The volume is never written to.
LEMMA SameVolume ==
    ASSUME UNCHANGED volume
    PROVE  /\ exfat' = exfat /\ Static' = Static /\ Clusters' = Clusters /\ EOC' = EOC
           /\ FatValues' = FatValues /\ Entries' = Entries /\ StaticBase' = StaticBase
           /\ UNCHANGED <<fs_type, n_fatent, csize, database>>
           /\ \A c : clst2sect(c)' = clst2sect(c)
           /\ VolumeInv /\ dirbase' = dirbase => VolumeInv'
  BY DEF volume, exfat, Static, Clusters, EOC, FatValues, Entries, StaticBase,
         clst2sect, VolumeInv

\* Only cluster 2 of an exFAT volume may begin at sector 0.
LEMMA SectorTypes ==
    ASSUME VolumeInv
    PROVE  /\ StaticBase \in Nat /\ StaticBase > 0
           /\ \A c \in Clusters : clst2sect(c) \in Nat
           /\ \A c \in Clusters : clst2sect(c) = 0 => exfat /\ database = 0 /\ c = 2
           /\ \A c \in Clusters : c \in Nat /\ c # 0
           /\ \A c : c \notin Clusters => clst2sect(c) = 0
           /\ csize \in Nat \ {0}
  <1>1. csize \in Nat \ {0} /\ n_fatent \in Nat \ {0} /\ database \in Nat
    BY Constants DEF VolumeInv
  <1>2. \A x, y \in Nat \ {0} : x * y \in Nat /\ x * y > 0
    OBVIOUS
  <1>3. StaticBase \in Nat /\ StaticBase > 0
    <2>1. csize * n_fatent \in Nat /\ csize * n_fatent > 0
      BY <1>1, <1>2
    <2> QED
      BY <1>1, <2>1 DEF StaticBase
  <1>4. ASSUME NEW c \in Clusters
        PROVE  /\ clst2sect(c) \in Nat
               /\ clst2sect(c) = 0 => exfat /\ database = 0 /\ c = 2
               /\ c \in Nat /\ c # 0
    <2>1. c \in Nat /\ c >= 2 /\ c - 2 \in Nat
      BY <1>1 DEF Clusters
    <2> DEFINE p == csize * (c - 2)
    <2>2. p \in Nat /\ (c # 2 => p > 0)
      <3>1. CASE c = 2
        <4>1. p = 0
          BY <1>1, <3>1
        <4> QED
          BY <3>1, <4>1
      <3>2. CASE c # 2
        <4>1. c - 2 \in Nat \ {0}
          BY <2>1, <3>2
        <4> QED
          BY <1>1, <1>2, <4>1
      <3> QED
        BY <3>1, <3>2
    <2>3. clst2sect(c) = database + p
      BY DEF clst2sect
    <2> HIDE DEF p
    <2>4. clst2sect(c) \in Nat /\ (clst2sect(c) = 0 => database = 0 /\ c = 2)
      BY <1>1, <2>2, <2>3
    <2> QED
      BY <2>1, <2>4 DEF VolumeInv
  <1> QED
    BY <1>1, <1>3, <1>4 DEF clst2sect

\* The start.
LEMMA InitOpen == Init => OpenInv
  <1> SUFFICES ASSUME Init PROVE OpenInv
    OBVIOUS
  <1>1. VolumeInv
    BY FatOpenAssumption DEF Init, VolumeInv
  <1>2. TypeOK
    <2>1. FatTypeOK
      BY <1>1, Constants DEF Init, FatTypeOK, VolumeInv
    <2>2. Plain("end") \in Entries
      BY DEF Entries, FatEntries, ExEntries
    <2>3. <<>> \in Seq(Entries)
      OBVIOUS
    <2>4. 0 \in 0..(MaxDir - 1)
      BY Constants
    <2> QED
      BY <2>1, <2>2, <2>3, <2>4 DEF Init, TypeOK, Results
  <1>3. WalkInv
    BY DEF Init, WalkInv
  <1>4. SearchInv
    <2>1. LfnInv(<<>>, NONE, NONE)
      BY DEF LfnInv
    <2>2. BlockInv(<<>>, 0, Plain("end"))
      BY DEF BlockInv
    <2> QED
      BY <2>1, <2>2 DEF Init, SearchInv
  <1>5. FindsFirst
    BY DEF Init, FindsFirst
  <1> QED
    BY <1>1, <1>2, <1>3, <1>4, <1>5 DEF OpenInv

\* dir_sdi finds the first sector, or refuses.
LEMMA SdiInv == ASSUME OpenInv, Sdi PROVE OpenInv'
  <1>1. TypeOK /\ VolumeInv /\ dpc = "sdi" /\ dptr = 0 /\ seen = <<>> /\ UNCHANGED volume
    BY DEF OpenInv, WalkInv, Sdi
  <1>2. /\ clust' = IF dirbase \in Clusters THEN dirbase ELSE 0
        /\ sect' = IF Static THEN StaticBase ELSE clst2sect(dirbase)
        /\ \/ sect' = 0 /\ dpc' = "done" /\ dres' = "FR_INT_ERR"
           \/ sect' # 0 /\ dpc' = "look" /\ dres' = dres
        /\ UNCHANGED <<fat, dirbase, table, dptr, ord, sum, block, found, seen>>
    BY DEF Sdi, Stop, lfn, xdir
  <1>3. sect' \in Nat /\ (sect' # 0 => Static \/ dirbase \in Clusters)
    BY <1>1, <1>2, SectorTypes
  <1>4. TypeOK'
    <2>1. FatTypeOK'
      BY <1>1, <1>2, SameVolume DEF TypeOK, FatTypeOK
    <2>2. clust' \in {0} \cup Clusters
      BY <1>2
    <2> QED
      BY <1>1, <1>2, <1>3, <2>1, <2>2, SameVolume DEF TypeOK, Results
  <1>5. WalkInv'
    <2>1. 0 \div PerSector = 0 /\ 0 % csize = 0 /\ 0 \div csize = 0
      BY <1>1, SectorTypes, Constants
    <2> DEFINE n == dptr \div PerSector
    <2>2. n = 0 /\ n % csize = 0 /\ n \div csize = 0
      BY <1>1, <2>1
    <2>3. /\ (dptr \div PerSector)' = n /\ ((dptr \div PerSector) % csize)' = n % csize
          /\ ((dptr \div PerSector) \div csize)' = n \div csize
      BY <1>1, <1>2, SameVolume
    <2> HIDE DEF n
    <2>4. ASSUME dpc' = "look"
          PROVE  \/ /\ Static /\ clust' = 0 /\ dptr' < RootEntries
                    /\ sect' = StaticBase + n
                 \/ /\ ~Static /\ clust' \in Clusters
                    /\ sect' = clst2sect(clust') + (n % csize)
                    /\ Leads(fat', dirbase', n \div csize, clust')
      <3>1. CASE dirbase \in Clusters /\ ~Static
        <4>1. Leads(fat', dirbase', n \div csize, clust')
          BY <1>2, <2>2, <3>1, ChainBegins
        <4> QED
          BY <1>1, <1>2, <2>2, <3>1, <4>1, SectorTypes
      <3>2. CASE dirbase \notin Clusters /\ Static
        BY <1>1, <1>2, <2>2, <3>2, SectorTypes, Constants
      <3>3. ~(dirbase \in Clusters /\ Static) /\ (Static \/ dirbase \in Clusters)
        <4>1. 0 \notin Clusters
          BY <1>1, SectorTypes
        <4> QED
          BY <1>1, <1>2, <1>3, <2>4, <4>1 DEF VolumeInv
      <3> QED
        BY <3>1, <3>2, <3>3
    <2> QED
      BY <1>1, <1>2, <2>3, <2>4, SameVolume DEF WalkInv, Placed
  <1>6. SearchInv'
    <2>1. ASSUME NEW n \in 1..Len(seen) PROVE ~Matches(n)'
      BY <1>1, <2>1
    <2> QED
      BY <1>1, <1>2, <2>1, SameVolume DEF OpenInv, SearchInv
  <1>7. FindsFirst'
    BY <1>1, <1>2 DEF FindsFirst, OpenInv, SearchInv
  <1>8. VolumeInv'
    BY <1>1, <1>2, SameVolume
  <1> QED
    BY <1>4, <1>5, <1>6, <1>7, <1>8 DEF OpenInv

\* What is known of the place of an entry to be looked at.
LEMMA Place ==
    ASSUME OpenInv, dpc \in {"look", "next"}, NEW n, n = dptr \div PerSector
    PROVE  /\ n \in Nat /\ n % csize \in Nat /\ n \div csize \in Nat
           /\ \/ Static /\ clust = 0 /\ dptr < RootEntries /\ sect = StaticBase + n
              \/ /\ ~Static /\ clust \in Clusters /\ sect = clst2sect(clust) + (n % csize)
                 /\ Leads(fat, dirbase, n \div csize, clust)
           /\ sect = 0 => dpc = "look" /\ exfat /\ database = 0 /\ clust = 2
  <1>1. VolumeInv /\ WalkInv /\ dptr \in Nat /\ csize \in Nat \ {0}
    BY Constants, SectorTypes DEF OpenInv, TypeOK
  <1>2. n \in Nat
    BY <1>1, CountOn, Constants
  <1>3. n % csize \in 0..(csize - 1) /\ n \div csize \in Nat
    BY <1>1, <1>2, CountOn
  <1>4. n % csize \in Nat
    BY <1>1, <1>3
  <1>5. \/ Static /\ clust = 0 /\ dptr < RootEntries /\ sect = StaticBase + n
        \/ /\ ~Static /\ clust \in Clusters /\ sect = clst2sect(clust) + (n % csize)
           /\ Leads(fat, dirbase, n \div csize, clust)
    BY <1>1 DEF WalkInv, Placed
  <1>6. ASSUME sect = 0
        PROVE  dpc = "look" /\ exfat /\ database = 0 /\ clust = 2
    <2>1. dpc = "look"
      BY <1>1, <1>6 DEF WalkInv
    <2>2. sect # StaticBase + n
      BY <1>1, <1>2, <1>6, SectorTypes
    <2>3. clust \in Clusters /\ sect = clst2sect(clust) + (n % csize)
      BY <1>5, <2>2
    <2>4. clst2sect(clust) \in Nat
      BY <1>1, <2>3, SectorTypes
    <2>5. clst2sect(clust) = 0
      BY <1>4, <1>6, <2>3, <2>4
    <2> QED
      BY <1>1, <2>1, <2>3, <2>5, SectorTypes
  <1> QED
    BY <1>2, <1>3, <1>4, <1>5, <1>6

\* An entry outside of a block is not one of sector 0.
LEMMA NotSectorZero ==
    ASSUME OpenInv, dpc = "look", NEW e, Entry(e), ~exfat \/ block = 0
    PROVE  sect # 0
  <1>1. PICK n : n = dptr \div PerSector
    OBVIOUS
  <1>2. sect = 0 => exfat
    BY <1>1, Place
  <1>3. sect # 0 \/ block > 0
    BY DEF Entry, Readable
  <1> QED
    BY <1>2, <1>3

\* What every look at an entry does, whatever it makes of it.
LEMMA LookKeeps ==
    ASSUME OpenInv, dpc = "look", NEW e \in Entries, Entry(e), UNCHANGED <<fat, volume, walk>>,
           ord' \in {0, 1, 2, NONE}, sum' \in {0, 1, 2, NONE},
           block' \in 0..3, found' \in Entries,
           dpc' \in {"next", "done"}, dres' \in Results,
           sect = 0 => dpc' = "done"
    PROVE  /\ TypeOK' /\ VolumeInv' /\ WalkInv'
           /\ seen' = Append(seen, e) /\ seen' \in Seq(Entries) /\ Len(seen') = Len(seen) + 1
           /\ seen \in Seq(Entries) /\ Len(seen) \in Nat /\ exfat' = exfat
           /\ \A n \in 1..Len(seen) : ~MatchIn(seen', n)
           /\ (/\ dres' = "FR_OK" => MatchIn(seen', Len(seen) + 1)
               /\ dres' = "FR_NO_FILE" => ~MatchIn(seen', Len(seen) + 1)) => FindsFirst'
  <1>1. TypeOK /\ VolumeInv /\ WalkInv /\ SearchInv /\ seen \in Seq(Entries)
    BY DEF OpenInv, TypeOK
  <1>2. seen' = Append(seen, e)
    BY DEF Entry
  <1>3. seen' \in Seq(Entries) /\ Len(seen') = Len(seen) + 1 /\ Len(seen) \in Nat /\ seen' # <<>>
    BY <1>1, <1>2, OneMore
  <1>4. TypeOK'
    <2>1. \A x \in DOMAIN table' : table'[x] \in Entries
      <3>1. \A x \in DOMAIN table : table[x] \in Entries
        BY <1>1 DEF TypeOK
      <3>2. table' = table \/ \E at : table' = With(table, at, e)
        BY DEF Entry
      <3>3. ASSUME NEW at, NEW x \in DOMAIN With(table, at, e)
            PROVE  With(table, at, e)[x] \in Entries
        BY <3>1, <3>3 DEF With
      <3> QED
        BY <3>1, <3>2, <3>3, Zenon
    <2>2. FatTypeOK'
      <3>1. FatTypeOK
        BY <1>1 DEF TypeOK
      <3>2. fat' = fat /\ UNCHANGED <<fs_type, n_fatent, csize, database>>
            /\ Clusters' = Clusters /\ FatValues' = FatValues
        BY SameVolume
      <3>3. (DOMAIN fat \subseteq Clusters)' /\ (\A c \in DOMAIN fat : fat[c] \in FatValues)'
        BY <3>1, <3>2, Zenon DEF FatTypeOK
      <3> QED
        BY <3>1, <3>2, <3>3, Zenon DEF FatTypeOK
    <2> QED
      BY <1>1, <1>3, <2>1, <2>2, SameVolume DEF TypeOK, walk
  <1>5. VolumeInv'
    BY <1>1, SameVolume DEF walk
  <1>6. WalkInv'
    <2>1. UNCHANGED <<dptr, clust, sect, csize>>
      BY SameVolume DEF walk
    <2>2. /\ (dptr \div PerSector)' = dptr \div PerSector
          /\ ((dptr \div PerSector) % csize)' = (dptr \div PerSector) % csize
          /\ ((dptr \div PerSector) \div csize)' = (dptr \div PerSector) \div csize
      BY <2>1
    <2>3. Len(seen) = dptr
      BY <1>1 DEF WalkInv
    <2>4. dptr \in Nat
      BY <1>3, <2>3
    <2> DEFINE n == dptr \div PerSector
    <2>5. \/ Static /\ clust = 0 /\ dptr < RootEntries /\ sect = StaticBase + n
          \/ /\ ~Static /\ clust \in Clusters /\ sect = clst2sect(clust) + (n % csize)
             /\ Leads(fat, dirbase, n \div csize, clust)
      BY <1>1 DEF WalkInv, Placed
    <2>6. /\ (dptr \div PerSector)' = n /\ ((dptr \div PerSector) % csize)' = n % csize
          /\ ((dptr \div PerSector) \div csize)' = n \div csize
      BY <2>2
    <2>7. fat' = fat /\ dirbase' = dirbase
      BY DEF walk
    <2> HIDE DEF n
    <2> QED
      BY <1>3, <2>1, <2>3, <2>4, <2>5, <2>6, <2>7, SameVolume DEF WalkInv, Placed
  <1>7. ASSUME NEW n \in 1..Len(seen) PROVE ~MatchIn(seen', n)
    <2>1. ~MatchIn(seen, n)
      BY <1>1, MatchSeen DEF SearchInv
    <2> QED
      BY <1>1, <1>2, <2>1, OlderMatches
  <1>8. ASSUME dres' = "FR_OK" => MatchIn(seen', Len(seen) + 1),
               dres' = "FR_NO_FILE" => ~MatchIn(seen', Len(seen) + 1)
        PROVE  FindsFirst'
    <2>1. \A n \in 1..(Len(seen') - 1) : ~MatchIn(seen', n)
      BY <1>3, <1>7
    <2> QED
      BY <1>3, <1>8, <2>1, MatchSeenNext DEF FindsFirst
  <1> QED
    BY <1>1, <1>2, <1>3, <1>4, <1>5, <1>6, <1>7, <1>8, SameVolume

\* A FAT directory has no blocks of exFAT.
LEMMA FatNotBlock ==
    ASSUME NEW t \in Seq(FatEntries)
    PROVE  ~ExMatch(t, Len(t))
  <1>1. ASSUME NEW a \in 1..(Len(t) - 2) PROVE ~BlockIn(t, a, Len(t))
    <2>1. t[a] \in FatEntries
      OBVIOUS
    <2> QED
      BY <2>1, FatFields DEF BlockIn
  <1> QED
    BY <1>1 DEF ExMatch

\* FAT entries, and exFAT entries.
LEMMA FatSide ==
    ASSUME OpenInv, dpc = "look", ~exfat
    PROVE  /\ Entries = FatEntries /\ block = 0 /\ LfnInv(seen, ord, sum)
           /\ ord \in {0, 1, 2, NONE} /\ sum \in {0, 1, 2, NONE}
           /\ found \in Entries /\ dres = "none"
  BY DEF OpenInv, TypeOK, SearchInv, Entries

LEMMA ExSide ==
    ASSUME OpenInv, dpc = "look", exfat
    PROVE  /\ Entries = ExEntries /\ BlockInv(seen, block, found) /\ block \in 0..3
           /\ ord \in {0, 1, 2, NONE} /\ sum \in {0, 1, 2, NONE}
           /\ found \in ExEntries /\ dres = "none"
  BY DEF OpenInv, TypeOK, SearchInv, Entries

\* The end of the directory, as an entry.
LEMMA LookEndInv == ASSUME OpenInv, LookEnd PROVE OpenInv'
  <1> DEFINE e == Plain("end")
  <1>1. /\ dpc = "look" /\ block = 0 /\ Entry(e) /\ dpc' = "done" /\ dres' = "FR_NO_FILE"
        /\ UNCHANGED <<fat, volume, walk, ord, sum, block, found>>
    BY DEF LookEnd, Stop, lfn, xdir
  <1>2. e \in Entries /\ e.type = "end"
    BY DEF Entries, FatEntries, ExEntries, Plain
  <1> HIDE DEF e
  <1>3. TypeOK /\ "FR_NO_FILE" \in Results
    BY DEF OpenInv, Results
  <1>4. /\ TypeOK' /\ VolumeInv' /\ WalkInv' /\ seen' = Append(seen, e)
        /\ seen \in Seq(Entries)
        /\ ~MatchIn(seen', Len(seen) + 1) => FindsFirst'
    BY <1>1, <1>2, <1>3, LookKeeps DEF TypeOK
  <1>5. ~MatchIn(seen', Len(seen) + 1)
    <2>1. CASE exfat
      BY <1>1, <1>2, <1>4, <2>1, ExSide, FileMatchesNone
    <2>2. CASE ~exfat
      <3>1. Append(seen, e)[Len(seen) + 1] = e /\ Append(seen, e) \in Seq(FatEntries)
            /\ Len(Append(seen, e)) = Len(seen) + 1 /\ Len(seen) \in Nat
        BY <1>1, <1>2, <1>4, <2>2, FatSide, OneMore
      <3>2. ~FatMatch(seen', Len(seen) + 1)
        BY <1>2, <1>4, <3>1 DEF FatMatch
      <3>3. ~ExMatch(Append(seen, e), Len(Append(seen, e)))
        BY <3>1, FatNotBlock
      <3> QED
        BY <1>4, <3>1, <3>2, <3>3 DEF MatchIn
    <2> QED
      BY <2>1, <2>2
  <1>6. SearchInv'
    BY <1>1 DEF SearchInv
  <1> QED
    BY <1>4, <1>5, <1>6 DEF OpenInv

\* A deleted entry or a label.
LEMMA LookDeletedInv == ASSUME OpenInv, LookDeleted PROVE OpenInv'
  <1> DEFINE e == Plain("deleted")
  <1>1. /\ dpc = "look" /\ ~exfat /\ Entry(e) /\ dpc' = "next" /\ dres' = dres
        /\ ord' = NONE /\ sum' = sum
        /\ UNCHANGED <<fat, volume, walk, block, found>>
    BY DEF LookDeleted, ResetLfn, xdir
  <1>2. e \in FatEntries /\ e.type = "deleted"
    BY DEF FatEntries, Plain
  <1> HIDE DEF e
  <1>3. /\ Entries = FatEntries /\ block = 0 /\ sum \in {0, 1, 2, NONE}
        /\ found \in Entries /\ dres = "none" /\ "none" \in Results /\ 0 \in 0..3
    BY <1>1, FatSide DEF Results
  <1>4. /\ TypeOK' /\ VolumeInv' /\ WalkInv' /\ seen' = Append(seen, e) /\ exfat' = exfat
        /\ seen \in Seq(Entries) /\ Len(seen') = Len(seen) + 1 /\ Len(seen) \in Nat
        /\ \A n \in 1..Len(seen) : ~MatchIn(seen', n)
        /\ FindsFirst'
    BY <1>1, <1>2, <1>3, LookKeeps, NotSectorZero
  <1>5. LfnInv(seen', NONE, sum)
    BY <1>2, <1>3, <1>4, LfnBreaksOff
  <1>6. ~MatchIn(seen', Len(seen) + 1)
    <2>1. Append(seen, e)[Len(seen) + 1] = e /\ Append(seen, e) \in Seq(FatEntries)
          /\ Len(Append(seen, e)) = Len(seen) + 1
      BY <1>2, <1>3, <1>4, OneMore
    <2>2. ~ExMatch(Append(seen, e), Len(Append(seen, e)))
      BY <2>1, FatNotBlock
    <2>3. ~FatMatch(seen', Len(seen) + 1)
      BY <1>2, <1>4, <2>1 DEF FatMatch
    <2> QED
      BY <1>4, <2>1, <2>2, <2>3 DEF MatchIn
  <1>7. SearchInv'
    BY <1>1, <1>3, <1>4, <1>5, <1>6, MatchSeenNext DEF SearchInv
  <1> QED
    BY <1>4, <1>7 DEF OpenInv

\* A piece of a long name.
LEMMA LookLfnInv == ASSUME OpenInv, LookLfn PROVE OpenInv'
  <1>1. dpc = "look" /\ ~exfat
    BY DEF LookLfn
  <1>2. /\ Entries = FatEntries /\ block = 0 /\ ord \in {0, 1, 2, NONE}
        /\ sum \in {0, 1, 2, NONE} /\ LfnInv(seen, ord, sum)
        /\ found \in Entries /\ dres = "none" /\ "none" \in Results /\ 0 \in 0..3
    BY <1>1, FatSide DEF Results
  <1>3. PICK e \in FatEntries :
            /\ e.type = "lfn" /\ Entry(e)
            /\ sum' = IF e.last THEN e.sum ELSE sum
            /\ ord' = IF (e.last \/ e.ord = ord) /\ sum' = e.sum /\ e.match
                      THEN e.ord - 1 ELSE NONE
    BY <1>2 DEF LookLfn
  <1>4. /\ dpc' = "next" /\ dres' = dres
        /\ UNCHANGED <<fat, volume, walk, block, found>>
    BY DEF LookLfn, xdir
  <1>5. e.ord \in 1..2 /\ e.sum \in {1, 2}
    BY <1>3, FatFields
  <1>6. ord' \in {0, 1, 2, NONE} /\ sum' \in {0, 1, 2, NONE}
    BY <1>2, <1>3, <1>5
  <1>7. /\ TypeOK' /\ VolumeInv' /\ WalkInv' /\ seen' = Append(seen, e) /\ exfat' = exfat
        /\ seen \in Seq(Entries) /\ Len(seen') = Len(seen) + 1 /\ Len(seen) \in Nat
        /\ \A n \in 1..Len(seen) : ~MatchIn(seen', n)
        /\ FindsFirst'
    BY <1>1, <1>2, <1>3, <1>4, <1>6, LookKeeps, NotSectorZero
  <1>8. LfnInv(seen', ord', sum')
    BY <1>2, <1>3, <1>7, LfnGoesOn
  <1>9. ~MatchIn(seen', Len(seen) + 1)
    <2>1. Append(seen, e)[Len(seen) + 1] = e /\ Append(seen, e) \in Seq(FatEntries)
          /\ Len(Append(seen, e)) = Len(seen) + 1
      BY <1>2, <1>7, OneMore
    <2>2. ~ExMatch(Append(seen, e), Len(Append(seen, e)))
      BY <2>1, FatNotBlock
    <2>3. ~FatMatch(seen', Len(seen) + 1)
      BY <1>3, <1>7, <2>1 DEF FatMatch
    <2> QED
      BY <1>7, <2>1, <2>2, <2>3 DEF MatchIn
  <1>10. SearchInv'
    BY <1>1, <1>2, <1>4, <1>7, <1>8, <1>9, MatchSeenNext DEF SearchInv
  <1> QED
    BY <1>7, <1>10 DEF OpenInv

\* A short entry is the one, or the search goes on.
LEMMA LookSfnInv == ASSUME OpenInv, LookSfn PROVE OpenInv'
  <1>1. dpc = "look" /\ ~exfat
    BY DEF LookSfn
  <1>2. /\ Entries = FatEntries /\ block = 0 /\ ord \in {0, 1, 2, NONE}
        /\ sum \in {0, 1, 2, NONE} /\ LfnInv(seen, ord, sum)
        /\ found \in Entries /\ dres = "none" /\ {"none", "FR_OK"} \subseteq Results /\ 0 \in 0..3
    BY <1>1, FatSide DEF Results
  <1>3. PICK e \in FatEntries :
            /\ e.type = "sfn" /\ Entry(e)
            /\ IF (ord = 0 /\ sum = e.sum) \/ e.match
               THEN dpc' = "done" /\ dres' = "FR_OK" /\ ord' = ord /\ sum' = sum
               ELSE ord' = NONE /\ sum' = sum /\ dpc' = "next" /\ dres' = dres
    BY <1>2 DEF LookSfn, Stop, ResetLfn, lfn
  <1>4. UNCHANGED <<fat, volume, walk, block, found>>
    BY DEF LookSfn, xdir
  <1>5. /\ TypeOK' /\ VolumeInv' /\ WalkInv' /\ seen' = Append(seen, e) /\ exfat' = exfat
        /\ seen \in Seq(Entries) /\ Len(seen') = Len(seen) + 1 /\ Len(seen) \in Nat
        /\ \A n \in 1..Len(seen) : ~MatchIn(seen', n)
        /\ (/\ dres' = "FR_OK" => MatchIn(seen', Len(seen) + 1)
            /\ dres' = "FR_NO_FILE" => ~MatchIn(seen', Len(seen) + 1)) => FindsFirst'
    BY <1>1, <1>2, <1>3, <1>4, LookKeeps, NotSectorZero
  <1>6. MatchIn(seen', Len(seen) + 1) <=> (ord = 0 /\ sum = e.sum) \/ e.match
    BY <1>2, <1>3, <1>5, LfnMatches
  <1>7. CASE (ord = 0 /\ sum = e.sum) \/ e.match
    BY <1>3, <1>5, <1>6, <1>7 DEF OpenInv, SearchInv
  <1>8. CASE ~((ord = 0 /\ sum = e.sum) \/ e.match)
    <2>1. dpc' = "next" /\ dres' = "none" /\ ord' = NONE /\ block' = 0
      BY <1>2, <1>3, <1>4, <1>8
    <2>2. LfnInv(seen', ord', sum')
      BY <1>2, <1>3, <1>5, <2>1, LfnBreaksOff
    <2>3. ~MatchIn(seen', Len(seen) + 1)
      BY <1>6, <1>8
    <2>4. SearchInv'
      BY <1>1, <1>5, <2>1, <2>2, <2>3, MatchSeenNext DEF SearchInv
    <2> QED
      BY <1>5, <2>1, <2>4 DEF OpenInv
  <1> QED
    BY <1>7, <1>8

\* On exFAT: an entry that begins no block.
LEMMA LookOtherInv == ASSUME OpenInv, LookOther PROVE OpenInv'
  <1>1. dpc = "look" /\ exfat /\ block = 0
    BY DEF LookOther
  <1>2. /\ Entries = ExEntries /\ BlockInv(seen, block, found)
        /\ ord \in {0, 1, 2, NONE} /\ sum \in {0, 1, 2, NONE}
        /\ found \in Entries /\ dres = "none" /\ "none" \in Results /\ 0 \in 0..3
    BY <1>1, ExSide DEF Results
  <1>3. PICK e \in ExEntries : e.type \notin {"file", "end"} /\ Entry(e)
    BY <1>2 DEF LookOther
  <1>4. /\ dpc' = "next" /\ dres' = dres
        /\ UNCHANGED <<fat, volume, walk, ord, sum, block, found>>
    BY DEF LookOther, lfn, xdir
  <1>5. /\ TypeOK' /\ VolumeInv' /\ WalkInv' /\ seen' = Append(seen, e) /\ exfat' = exfat
        /\ seen \in Seq(Entries) /\ Len(seen') = Len(seen) + 1 /\ Len(seen) \in Nat
        /\ \A n \in 1..Len(seen) : ~MatchIn(seen', n)
        /\ FindsFirst'
    BY <1>1, <1>2, <1>3, <1>4, LookKeeps, NotSectorZero
  <1>6. BlockInv(seen', 0, found) /\ ~MatchIn(seen', Len(seen) + 1)
    BY <1>1, <1>2, <1>3, <1>5, BlockNone
  <1>7. SearchInv'
    BY <1>1, <1>2, <1>4, <1>5, <1>6, MatchSeenNext DEF SearchInv
  <1> QED
    BY <1>5, <1>7 DEF OpenInv

\* A file entry begins one.
LEMMA LookFileInv == ASSUME OpenInv, LookFile PROVE OpenInv'
  <1>1. dpc = "look" /\ exfat /\ block = 0
    BY DEF LookFile
  <1>2. /\ Entries = ExEntries /\ BlockInv(seen, block, found)
        /\ ord \in {0, 1, 2, NONE} /\ sum \in {0, 1, 2, NONE}
        /\ dres = "none" /\ {"none", "FR_INT_ERR"} \subseteq Results /\ 0 \in 0..3
    BY <1>1, ExSide DEF Results
  <1>3. PICK e \in ExEntries :
            /\ e.type = "file" /\ Entry(e) /\ found' = e
            /\ IF e.ord < 2
               THEN dpc' = "done" /\ dres' = "FR_INT_ERR" /\ block' = block
               ELSE block' = e.ord /\ dpc' = "next" /\ dres' = dres
    BY <1>2 DEF LookFile, Stop
  <1>4. UNCHANGED <<fat, volume, walk, ord, sum>>
    BY DEF LookFile, lfn
  <1>5. e.ord \in 0..3
    BY ExFields
  <1>6. /\ TypeOK' /\ VolumeInv' /\ WalkInv' /\ seen' = Append(seen, e) /\ exfat' = exfat
        /\ seen \in Seq(Entries) /\ Len(seen') = Len(seen) + 1 /\ Len(seen) \in Nat
        /\ \A n \in 1..Len(seen) : ~MatchIn(seen', n)
        /\ FindsFirst'
    BY <1>1, <1>2, <1>3, <1>4, <1>5, LookKeeps, NotSectorZero
  <1>7. CASE e.ord < 2
    BY <1>3, <1>6, <1>7 DEF OpenInv, SearchInv
  <1>8. CASE ~(e.ord < 2)
    <2>1. block' = e.ord /\ dpc' = "next" /\ dres' = "none" /\ e.ord >= 2
      BY <1>2, <1>3, <1>5, <1>8
    <2>2. BlockInv(seen', e.ord, e)
      BY <1>1, <1>2, <1>3, <1>6, <2>1, BlockBegins
    <2>3. ~MatchIn(seen', Len(seen) + 1)
      BY <1>2, <1>3, <1>6, FileMatchesNone
    <2>4. SearchInv'
      BY <1>1, <1>3, <1>6, <2>1, <2>2, <2>3, MatchSeenNext DEF SearchInv
    <2> QED
      BY <1>6, <2>4 DEF OpenInv
  <1> QED
    BY <1>7, <1>8

\* The entries of a block, one by one.
LEMMA LookBlockInv == ASSUME OpenInv, LookBlock PROVE OpenInv'
  <1>1. dpc = "look" /\ block > 0
    BY DEF LookBlock
  <1>2. exfat
    <2>1. ~exfat => block = 0
      BY <1>1, FatSide
    <2> QED
      BY <1>1, <2>1
  <1>3. /\ Entries = ExEntries /\ BlockInv(seen, block, found)
        /\ ord \in {0, 1, 2, NONE} /\ sum \in {0, 1, 2, NONE}
        /\ found \in ExEntries /\ dres = "none"
        /\ {"none", "FR_INT_ERR", "FR_OK"} \subseteq Results /\ block \in 1..3
    BY <1>1, <1>2, ExSide DEF Results
  <1>4. PICK e \in ExEntries :
            /\ Entry(e)
            /\ IF ~Expected(e) \/ (block = 1 /\ found.sum = 0)
               THEN dpc' = "done" /\ dres' = "FR_INT_ERR" /\ block' = block
               ELSE /\ block' = block - 1
                    /\ IF block = 1 /\ found.match
                       THEN dpc' = "done" /\ dres' = "FR_OK"
                       ELSE dpc' = "next" /\ dres' = dres
    BY <1>3 DEF LookBlock, Stop
  <1>5. UNCHANGED <<fat, volume, walk, ord, sum, found>>
    BY DEF LookBlock, lfn
  <1>6. block - 1 \in 0..3 /\ block \in 0..3
    BY <1>3
  <1>7. /\ TypeOK' /\ VolumeInv' /\ WalkInv' /\ seen' = Append(seen, e) /\ exfat' = exfat
        /\ seen \in Seq(Entries) /\ Len(seen') = Len(seen) + 1 /\ Len(seen) \in Nat
        /\ \A n \in 1..Len(seen) : ~MatchIn(seen', n)
        /\ (/\ dres' = "FR_OK" => MatchIn(seen', Len(seen) + 1)
            /\ dres' = "FR_NO_FILE" => ~MatchIn(seen', Len(seen) + 1)) => FindsFirst'
    <2>1. dpc' \in {"next", "done"} /\ dres' \in Results /\ block' \in 0..3
      BY <1>3, <1>4, <1>6
    <2>2. e \in Entries /\ found' \in Entries
      BY <1>3, <1>5
    <2>3. sect = 0 => dpc' = "done"
      <3>1. sect = 0 => e.type = "other"
        BY <1>4 DEF Entry, Plain
      <3> QED
        BY <1>4, <3>1 DEF Expected
    <2> QED
      BY <1>1, <1>3, <1>4, <1>5, <2>1, <2>2, <2>3, LookKeeps
  <1>8. CASE ~Expected(e) \/ (block = 1 /\ found.sum = 0)
    BY <1>4, <1>7, <1>8 DEF OpenInv, SearchInv
  <1>9. CASE ~(~Expected(e) \/ (block = 1 /\ found.sum = 0))
    <2>1. IF block = found.ord THEN e.type = "stream" /\ e.match ELSE e.type = "name"
      BY <1>9 DEF Expected
    <2>2. /\ BlockInv(seen', block - 1, found)
          /\ MatchIn(seen', Len(seen) + 1) <=> block = 1 /\ found.match /\ found.sum = 1
      BY <1>3, <1>7, <2>1, BlockGoesOn
    <2>3. CASE block = 1 /\ found.match
      <3>1. found.sum = 1
        <4>1. found.sum \in {0, 1}
          BY <1>3, ExFields
        <4> QED
          BY <1>9, <2>3, <4>1
      <3>2. dpc' = "done" /\ dres' = "FR_OK"
        BY <1>4, <1>9, <2>3
      <3> QED
        BY <1>7, <2>2, <2>3, <3>1, <3>2 DEF OpenInv, SearchInv
    <2>4. CASE ~(block = 1 /\ found.match)
      <3>1. dpc' = "next" /\ dres' = "none" /\ block' = block - 1 /\ found' = found
        BY <1>3, <1>4, <1>5, <1>9, <2>4
      <3>2. SearchInv'
        BY <1>2, <1>7, <2>2, <2>4, <3>1, MatchSeenNext DEF SearchInv
      <3> QED
        BY <1>7, <3>1, <3>2 DEF OpenInv
    <2> QED
      BY <2>3, <2>4
  <1> QED
    BY <1>8, <1>9

\* A step after which the same entries have been seen and nothing is looked at.
LEMMA EndInv ==
    ASSUME OpenInv, dpc # "done", UNCHANGED <<volume, dirbase, table, dptr, clust, sect, lfn, xdir>>,
           FatTypeOK', seen' = seen, dpc' = "done",
           dres' \in {"FR_INT_ERR", "FR_DISK_ERR", "FR_NO_FILE"} \/ (dres' = "FR_OK" /\ Astray)
    PROVE  OpenInv'
  <1>1. TypeOK /\ VolumeInv /\ WalkInv /\ SearchInv /\ seen \in Seq(Entries) /\ dptr \in Nat
    BY Constants DEF OpenInv, TypeOK
  <1>2. TypeOK'
    BY <1>1, SameVolume DEF TypeOK, Results, lfn, xdir
  <1>3. VolumeInv'
    BY <1>1, SameVolume
  <1>4. WalkInv'
    <2>1. Len(seen) <= dptr + 1
      <3>1. Len(<<>>) = 0
        OBVIOUS
      <3> QED
        BY <1>1, <3>1 DEF WalkInv, TypeOK
    <2> QED
      BY <2>1 DEF WalkInv
  <1>5. SearchInv'
    BY DEF SearchInv
  <1>6. FindsFirst'
    <2>1. \A n \in 1..Len(seen) : ~MatchIn(seen', n)
      BY <1>1, MatchSeen DEF SearchInv
    <2>2. Len(seen) \in Nat /\ (seen # <<>> => Len(seen) \in 1..Len(seen))
      BY <1>1
    <2>3. dres' = "FR_OK" => Astray'
      BY SameVolume DEF Astray, xdir
    <2> QED
      BY <2>1, <2>2, <2>3, MatchSeenNext DEF FindsFirst
  <1> QED
    BY <1>2, <1>3, <1>4, <1>5, <1>6 DEF OpenInv

\* A sector of the directory cannot be read.
LEMMA LookFailsInv == ASSUME OpenInv, LookFails PROVE OpenInv'
  <1>1. /\ dpc = "look" /\ dpc' = "done" /\ dres' = "FR_DISK_ERR" /\ seen' = seen
        /\ UNCHANGED <<fat, volume, dirbase, table, dptr, clust, sect, lfn, xdir>>
    BY DEF LookFails, Stop, walk
  <1>2. FatTypeOK'
    BY <1>1, SameVolume DEF OpenInv, TypeOK, FatTypeOK
  <1> QED
    BY <1>1, <1>2, EndInv

\* dir_read takes sector 0 for the end.
LEMMA LookAstrayInv == ASSUME OpenInv, LookAstray PROVE OpenInv'
  <1>1. /\ dpc = "look" /\ sect = 0 /\ dpc' = "done" /\ seen' = seen
        /\ \/ dres' = "FR_NO_FILE"
           \/ found = Plain("end") /\ dres' = "FR_OK"
        /\ UNCHANGED <<fat, volume, dirbase, table, dptr, clust, sect, lfn, xdir>>
    BY DEF LookAstray, Readable, Stop, walk
  <1>2. block = 0
    BY DEF LookAstray, Readable, OpenInv, TypeOK
  <1>3. FatTypeOK'
    BY <1>1, SameVolume DEF OpenInv, TypeOK, FatTypeOK
  <1>4. exfat /\ database = 0 /\ clust = 2
    <2>1. PICK n : n = dptr \div PerSector
      OBVIOUS
    <2> QED
      BY <1>1, <2>1, Place
  <1>5. dres' = "FR_OK" => Astray
    BY <1>1, <1>2, <1>4 DEF Astray
  <1> QED
    BY <1>1, <1>3, <1>5, EndInv

\* The next entry, at a place in the root directory.
LEMMA AdvanceInv ==
    ASSUME OpenInv, dpc = "next", NEW c \in {0} \cup Clusters, NEW s \in Nat, Advance(c, s),
           dptr + 1 < MaxDir, FatTypeOK',
           UNCHANGED <<volume, dirbase, table, lfn, xdir, seen>>,
           NEW n, n = (dptr + 1) \div PerSector,
           \/ Static /\ c = 0 /\ dptr + 1 < RootEntries /\ s = StaticBase + n
           \/ /\ ~Static /\ c \in Clusters /\ s = clst2sect(c) + (n % csize)
              /\ Leads(fat', dirbase, n \div csize, c)
    PROVE  OpenInv'
  <1>1. TypeOK /\ VolumeInv /\ WalkInv /\ SearchInv /\ FindsFirst /\ dptr \in 0..(MaxDir - 1)
    BY DEF OpenInv, TypeOK
  <1>2. dptr' = dptr + 1 /\ clust' = c /\ sect' = s /\ dpc' = "look" /\ dres' = dres
    BY DEF Advance
  <1>3. dptr + 1 \in 0..(MaxDir - 1) /\ dptr + 1 \in Nat
    BY <1>1, Constants
  <1>4. TypeOK'
    BY <1>1, <1>2, <1>3, SameVolume DEF TypeOK, lfn, xdir
  <1>5. VolumeInv'
    BY <1>1, SameVolume
  <1>6. WalkInv'
    <2>1. /\ (dptr \div PerSector)' = n /\ ((dptr \div PerSector) % csize)' = n % csize
          /\ ((dptr \div PerSector) \div csize)' = n \div csize
      BY <1>2, SameVolume
    <2>2. Len(seen) = dptr + 1
      BY <1>1 DEF WalkInv
    <2> QED
      BY <1>2, <2>1, <2>2, SameVolume DEF WalkInv, Placed
  <1>7. SearchInv'
    BY <1>1, <1>2, SameVolume, MatchSeen, MatchSeenNext DEF SearchInv, lfn, xdir
  <1>8. FindsFirst'
    BY <1>1, <1>2 DEF FindsFirst, SearchInv
  <1> QED
    BY <1>4, <1>5, <1>6, <1>7, <1>8 DEF OpenInv

\* dir_next in the same cluster or table.
LEMMA DirNextInv == ASSUME OpenInv, DirNext PROVE OpenInv'
  <1> DEFINE s == IF SectorChanged THEN sect + 1 ELSE sect
             n == (dptr + 1) \div PerSector
             k == dptr \div PerSector
  <1>1. /\ dpc = "next" /\ UNCHANGED <<fat, volume, dirbase, table, lfn, xdir, seen>>
        /\ ~ClusterChanged \/ dptr + 1 >= MaxDir
    BY DEF DirNext
  <1>2. /\ TypeOK /\ VolumeInv /\ dptr \in Nat /\ sect \in Nat /\ clust \in {0} \cup Clusters
        /\ block \in 0..3
    BY Constants DEF OpenInv, TypeOK
  <1>3. FatTypeOK'
    BY <1>1, <1>2, SameVolume DEF TypeOK, FatTypeOK
  <1>4. CASE dptr + 1 >= MaxDir \/ (SectorChanged /\ clust = 0 /\ dptr + 1 >= RootEntries)
    <2>1. /\ dpc' = "done" /\ dres' \in {"FR_INT_ERR", "FR_NO_FILE"}
          /\ UNCHANGED <<dptr, clust, sect>>
      BY <1>4 DEF DirNext, EndOfTable, Stop
    <2> QED
      BY <1>1, <1>3, <2>1, EndInv
  <1>5. CASE ~(dptr + 1 >= MaxDir \/ (SectorChanged /\ clust = 0 /\ dptr + 1 >= RootEntries))
    <2>1. Advance(clust, s) /\ dptr + 1 < MaxDir
          /\ (SectorChanged /\ clust = 0 => dptr + 1 < RootEntries)
      BY <1>2, <1>5, Constants DEF DirNext
    <2>2. /\ SectorChanged <=> (dptr + 1) % PerSector = 0
          /\ SectorChanged /\ clust # 0 => n % csize # 0
      BY <1>1, <2>1, <1>2, Constants DEF SectorChanged, ClusterChanged
    <2>3. /\ SectorChanged => n = k + 1
          /\ ~SectorChanged => n = k
          /\ k \in Nat
      BY <1>2, <2>2, CountOn, Constants
    <2>4. n = (dptr + 1) \div PerSector
      OBVIOUS
    <2>5. \/ Static /\ clust = 0 /\ dptr < RootEntries /\ sect = StaticBase + k
          \/ /\ ~Static /\ clust \in Clusters /\ sect = clst2sect(clust) + (k % csize)
             /\ Leads(fat, dirbase, k \div csize, clust)
      BY <1>1 DEF OpenInv, WalkInv, Placed
    <2>6. s = IF SectorChanged THEN sect + 1 ELSE sect
      OBVIOUS
    <2>7. s \in Nat
      BY <1>2
    <2> HIDE DEF n, k, s
    <2>8. (k + 1) % csize # 0 => /\ (k + 1) % csize = (k % csize) + 1
                                /\ (k + 1) \div csize = k \div csize
      BY <1>2, <2>3, CountOn, SectorTypes
    <2>9. k % csize \in Nat
      <3>1. csize \in Nat \ {0}
        BY <1>2, SectorTypes
      <3>2. k % csize \in 0..(csize - 1)
        BY <2>3, <3>1, CountOn
      <3> QED
        BY <3>1, <3>2
    <2>10. CASE clust = 0
      <3>1. Static /\ dptr < RootEntries /\ sect = StaticBase + k
        BY <1>2, <2>5, <2>10, SectorTypes
      <3>2. dptr + 1 < RootEntries
        <4>1. CASE SectorChanged
          BY <2>1, <2>10, <4>1
        <4>2. CASE ~SectorChanged
          <5>1. dptr + 1 # RootEntries
            BY <2>2, <4>2, Constants
          <5> QED
            BY <1>2, <3>1, <5>1, Constants
        <4> QED
          BY <4>1, <4>2
      <3>3. s = StaticBase + n
        BY <1>2, <2>3, <2>6, <3>1, SectorTypes
      <3> QED
        BY <1>1, <1>2, <1>3, <2>1, <2>4, <2>7, <2>10, <3>1, <3>2, <3>3, AdvanceInv
    <2>11. CASE clust # 0
      <3>1. /\ ~Static /\ clust \in Clusters /\ sect = clst2sect(clust) + (k % csize)
            /\ Leads(fat, dirbase, k \div csize, clust)
        BY <2>5, <2>11
      <3>2. n \div csize = k \div csize
        BY <2>2, <2>3, <2>8, <2>11
      <3>3. Leads(fat', dirbase, n \div csize, clust)
        BY <1>1, <3>1, <3>2
      <3>4. s = clst2sect(clust) + (n % csize)
        <4>1. CASE SectorChanged
          <5>1. n % csize = (k % csize) + 1
            BY <2>2, <2>3, <2>8, <2>11, <4>1
          <5> QED
            BY <1>2, <2>6, <2>9, <3>1, <4>1, <5>1, SectorTypes
        <4>2. CASE ~SectorChanged
          BY <2>3, <2>6, <3>1, <4>2
        <4> QED
          BY <4>1, <4>2
      <3> QED
        BY <1>1, <1>2, <1>3, <2>1, <2>4, <2>7, <3>1, <3>3, <3>4, AdvanceInv
    <2> QED
      BY <2>10, <2>11
  <1> QED
    BY <1>4, <1>5

\* dir_next at the end of a cluster.
LEMMA DirNextClusterInv == ASSUME OpenInv, DirNextCluster PROVE OpenInv'
  <1>1. /\ dpc = "next" /\ ClusterChanged /\ dptr + 1 < MaxDir
        /\ UNCHANGED <<volume, dirbase, table, lfn, xdir, seen>>
    BY DEF DirNextCluster
  <1>2. TypeOK /\ VolumeInv /\ clust \in Clusters /\ block \in 0..3
    BY <1>1 DEF OpenInv, TypeOK, ClusterChanged
  <1>3. CASE Stop("FR_DISK_ERR") /\ UNCHANGED <<fat, dptr, clust, sect>>
    <2>1. FatTypeOK'
      BY <1>1, <1>2, <1>3, SameVolume DEF TypeOK, FatTypeOK
    <2> QED
      BY <1>1, <1>3, <2>1, EndInv DEF Stop
  <1>4. ASSUME NEW v \in FatValues, FatEntry(clust, v),
               \/ v <= 1 /\ Stop("FR_INT_ERR") /\ UNCHANGED <<dptr, clust, sect>>
               \/ v = EOC /\ EndOfTable /\ UNCHANGED <<dptr, clust, sect>>
               \/ v \in Clusters /\ Advance(v, clst2sect(v))
        PROVE  OpenInv'
    <2>1. FatTypeOK'
      <3>1. FatTypeOK
        BY <1>2 DEF TypeOK
      <3>2. DOMAIN fat' \subseteq Clusters /\ \A c \in DOMAIN fat' : fat'[c] \in FatValues
        <4>1. fat' = fat \/ fat' = With(fat, clust, v)
          BY <1>4 DEF FatEntry
        <4> QED
          BY <1>2, <1>4, <3>1, <4>1 DEF FatTypeOK, With
      <3> QED
        BY <1>1, <3>1, <3>2, SameVolume DEF FatTypeOK
    <2>2. CASE Stop("FR_INT_ERR") /\ UNCHANGED <<dptr, clust, sect>>
      BY <1>1, <2>1, <2>2, EndInv DEF Stop
    <2>3. CASE EndOfTable /\ UNCHANGED <<dptr, clust, sect>>
      <3>1. dpc' = "done" /\ dres' \in {"FR_INT_ERR", "FR_NO_FILE"}
        BY <2>3 DEF EndOfTable, Stop
      <3> QED
        BY <1>1, <2>1, <2>3, <3>1, EndInv
    <2>4. CASE v \in Clusters /\ Advance(v, clst2sect(v))
      <3> DEFINE n == (dptr + 1) \div PerSector
                 k == dptr \div PerSector
      <3>1. n = (dptr + 1) \div PerSector /\ k = dptr \div PerSector
        OBVIOUS
      <3>2. n % csize = 0
        BY <1>1 DEF ClusterChanged
      <3>3. n = k + 1
        <4>1. (dptr + 1) % PerSector = 0 /\ dptr \in Nat
          BY <1>1, <1>2, Constants DEF ClusterChanged, SectorChanged, TypeOK
        <4> QED
          BY <4>1, CountOn, Constants
      <3> HIDE DEF n, k
      <3>5. /\ k \in Nat /\ k \div csize \in Nat
            /\ ~Static /\ Leads(fat, dirbase, k \div csize, clust)
        <4>1. clust # 0
          BY <1>2, SectorTypes
        <4> QED
          BY <1>1, <3>1, <4>1, Place
      <3>6. n \div csize = (k \div csize) + 1
        <4>1. csize \in Nat \ {0}
          BY <1>2, SectorTypes
        <4>2. (k + 1) % csize = 0
          BY <3>2, <3>3
        <4>3. (k + 1) \div csize = (k \div csize) + 1
          BY <3>5, <4>1, <4>2, CountOn
        <4> QED
          BY <3>3, <4>3
      <3>7. /\ DOMAIN fat \subseteq DOMAIN fat' /\ \A x \in DOMAIN fat : fat'[x] = fat[x]
            /\ clust \in DOMAIN fat' /\ fat'[clust] = v
        BY <1>4 DEF FatEntry, With
      <3>8. Leads(fat', dirbase, (k \div csize) + 1, v)
        BY <3>5, <3>7, ChainGoesOn
      <3>9. clst2sect(v) \in Nat /\ clst2sect(v) = clst2sect(v) + (n % csize)
        BY <1>2, <2>4, <3>2, SectorTypes
      <3> QED
        BY <1>1, <2>1, <2>4, <3>1, <3>5, <3>6, <3>8, <3>9, AdvanceInv
    <2> QED
      BY <1>4, <2>2, <2>3, <2>4
  <1> QED
    BY <1>3, <1>4 DEF DirNextCluster

\* A step that changes nothing.
LEMMA StutterInv == ASSUME OpenInv, UNCHANGED vars PROVE OpenInv'
  <1>1. /\ UNCHANGED <<fat, volume, dirbase, table, dptr, clust, sect, ord, sum, block, found>>
        /\ UNCHANGED <<dpc, dres, seen>>
    BY DEF vars, walk, lfn, xdir
  <1>2. TypeOK /\ VolumeInv /\ WalkInv /\ SearchInv /\ FindsFirst
    BY DEF OpenInv
  <1>3. TypeOK'
    BY <1>1, <1>2, SameVolume DEF TypeOK, FatTypeOK
  <1>4. WalkInv'
    <2> DEFINE n == dptr \div PerSector
    <2>1. /\ (dptr \div PerSector)' = n /\ ((dptr \div PerSector) % csize)' = n % csize
          /\ ((dptr \div PerSector) \div csize)' = n \div csize
      BY <1>1, SameVolume
    <2>2. dpc \in {"look", "next"} =>
              \/ Static /\ clust = 0 /\ dptr < RootEntries /\ sect = StaticBase + n
              \/ /\ ~Static /\ clust \in Clusters /\ sect = clst2sect(clust) + (n % csize)
                 /\ Leads(fat, dirbase, n \div csize, clust)
      BY <1>2 DEF WalkInv, Placed
    <2> HIDE DEF n
    <2> QED
      BY <1>1, <1>2, <2>1, <2>2, SameVolume DEF WalkInv, Placed
  <1>5. SearchInv'
    BY <1>1, <1>2, SameVolume, MatchSeen, MatchSeenNext DEF SearchInv
  <1>6. FindsFirst'
    BY <1>1, <1>2, MatchSeen, MatchSeenNext, SameVolume DEF FindsFirst, Astray
  <1>7. VolumeInv'
    BY <1>1, <1>2, SameVolume
  <1> QED
    BY <1>3, <1>4, <1>5, <1>6, <1>7 DEF OpenInv

\* The inductive invariant holds in every state of the search.
THEOREM OpenInvariant == Spec => []OpenInv
  <1>1. Init => OpenInv
    BY InitOpen
  <1>2. OpenInv /\ [Next]_vars => OpenInv'
    BY SdiInv, LookEndInv, LookDeletedInv, LookLfnInv, LookSfnInv, LookOtherInv,
       LookFileInv, LookBlockInv, LookFailsInv, LookAstrayInv, DirNextInv, DirNextClusterInv, StutterInv
       DEF Next
  <1> QED
    BY <1>1, <1>2, PTL DEF Spec

\* TypeOK: in particular the index of the entry stays below the longest directory.
THEOREM OpenTypes == Spec => []TypeOK
  <1>1. OpenInv => TypeOK
    BY DEF OpenInv
  <1> QED
    BY <1>1, OpenInvariant, PTL

\* FindsFirst, for every directory, of whatever entries in whatever order: f_open finds
\* the first object with the name, by a complete long name that is its own, by its
\* short name, or by a sound block on exFAT, and says there is none only if there is none.
THEOREM FirstIsFound == Spec => []FindsFirst
  <1>1. OpenInv => FindsFirst
    BY DEF OpenInv
  <1> QED
    BY <1>1, OpenInvariant, PTL

\* WalkInBounds, for every size of entries, sectors, clusters and tables, every first
\* sector of the data, 0 too, and every FAT, damaged or circular: each entry looked at is
\* in the table of the root or in that cluster of the root's chain where it should be, no
\* more are looked at than a directory may have, and the search comes to sector 0 only
\* in cluster 2 of an exFAT volume whose data begin there.
THEOREM WalkStaysInBounds == Spec => []WalkInBounds
  <1>1. OpenInv => WalkInBounds
    <2> SUFFICES ASSUME OpenInv PROVE WalkInBounds
      OBVIOUS
    <2>1. TypeOK /\ VolumeInv /\ WalkInv
      BY DEF OpenInv
    <2>2. Len(seen) <= MaxDir
      <3>1. dptr \in Nat /\ dptr + 1 <= MaxDir
        <4>1. dptr \in 0..(MaxDir - 1) /\ MaxDir \in Nat
          BY <2>1, Constants DEF TypeOK
        <4> QED
          BY <4>1
      <3>2. Len(<<>>) = 0
        OBVIOUS
      <3>3. Len(seen) \in Nat /\ dpc \in {"sdi", "look", "next", "done"}
        BY <2>1 DEF TypeOK
      <3>4. /\ dpc = "sdi" => Len(seen) = 0
            /\ dpc = "look" => Len(seen) = dptr
            /\ dpc = "next" => Len(seen) = dptr + 1
            /\ dpc = "done" => Len(seen) <= dptr + 1
        BY <2>1, <3>2 DEF WalkInv
      <3>5. MaxDir \in Nat
        BY Constants
      <3> QED
        BY <3>1, <3>3, <3>4, <3>5
    <2> DEFINE n == dptr \div PerSector
    <2>3. n = dptr \div PerSector
      OBVIOUS
    <2> HIDE DEF n
    <2>4. ASSUME dpc \in {"look", "next"}
          PROVE  /\ IF Static
                    THEN clust = 0 /\ dptr < RootEntries /\ sect = StaticBase + n
                    ELSE /\ clust \in Clusters /\ Leads(fat, dirbase, n \div csize, clust)
                         /\ sect = clst2sect(clust) + (n % csize)
                 /\ sect = 0 => dpc = "look" /\ exfat /\ database = 0 /\ clust = 2
      <3>1. PICK m : m = n
        OBVIOUS
      <3>2. m = dptr \div PerSector
        BY <2>3, <3>1
      <3> QED
        BY <2>4, <3>1, <3>2, Place
    <2> QED
      BY <2>2, <2>3, <2>4 DEF WalkInBounds
  <1> QED
    BY <1>1, OpenInvariant, PTL

=============================================================================
