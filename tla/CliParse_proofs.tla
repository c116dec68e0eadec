-------------------------- MODULE CliParse_proofs --------------------------
(***************************************************************************)
(* The arguments of a DOL are those of its CLI file, and parsing and       *)
(* packing them stays within the buffers, for every text, every size and   *)
(* every limit on the number of arguments.                                 *)
(***************************************************************************)
EXTENDS CliParse, SequenceTheorems, WellFoundedInduction, TLAPS

-----------------------------------------------------------------------------
(* The least number of a set, and what it is good for here.                *)

LEMMA LeastNumber ==
    ASSUME NEW S, S \subseteq Nat, S # {}
    PROVE  \E a \in S : \A b \in S : a <= b
  <1> DEFINE R == {ss \in Nat \X Nat : ss[1] < ss[2]}
  <1>1. OpToRel(<, Nat) = R
    BY Zenon DEF OpToRel
  <1>2. IsWellFoundedOn(R, Nat)
    BY <1>1, NatLessThanWellFounded, Zenon
  <1>3. PICK a \in S : \A b \in S : ~ (<<b, a>> \in R)
    <2> HIDE DEF R
    <2> QED
      BY <1>2, WFMin, Zenon
  <1>4. \A x, y \in Nat : x < y => <<x, y>> \in R
    OBVIOUS
  <1> HIDE DEF R
  <1>5. \A b \in S : ~(b < a)
    BY <1>3, <1>4
  <1>6. \A b \in S : b \in Nat /\ a \in Nat
    OBVIOUS
  <1> QED
    BY <1>5, <1>6

\* strlen comes to an end in a buffer that has a NUL at its end.
LEMMA EndIs ==
    ASSUME NEW a \in Nat, a < size, size \in Nat, cli[size - 1] = "nul"
    PROVE  /\ End(a) \in a..(size - 1)
           /\ cli[End(a)] = "nul"
           /\ \A k \in a..(End(a) - 1) : cli[k] # "nul"
  <1> DEFINE S == {e \in a..(size - 1) : cli[e] = "nul"}
  <1>1. S \subseteq Nat /\ S # {}
    <2>1. size - 1 \in S
      OBVIOUS
    <2> QED
      BY <2>1
  <1>2. PICK e \in S : \A b \in S : e <= b
    <2> HIDE DEF S
    <2> QED
      BY <1>1, LeastNumber
  <1>3. e \in a..(size - 1) /\ cli[e] = "nul"
    OBVIOUS
  <1>4. \A k \in a..(e - 1) : cli[k] # "nul"
    <2> TAKE k \in a..(e - 1)
    <2>1. ~(k \in S)
      BY <1>2, <1>3
    <2> QED
      BY <2>1, <1>3
  <1> HIDE DEF S
  <1> QED
    BY <1>3, <1>4 DEF End

\* Where the first NUL is, there is no doubt.
LEMMA EndIsOnly ==
    ASSUME NEW a \in Nat, a < size, size \in Nat, cli[size - 1] = "nul",
           NEW e \in a..(size - 1), cli[e] = "nul", \A k \in a..(e - 1) : cli[k] # "nul"
    PROVE  End(a) = e
  <1>1. /\ End(a) \in a..(size - 1) /\ cli[End(a)] = "nul"
        /\ \A k \in a..(End(a) - 1) : cli[k] # "nul"
    BY EndIs
  <1>2. ~(e < End(a)) /\ ~(End(a) < e)
    BY <1>1
  <1> QED
    BY <1>1, <1>2

-----------------------------------------------------------------------------
(* The length of the packed arguments.                                     *)

\* The sums from 1 to n, and that there are such for every n and for all n at once.
Sums(f, m, w) == f = [k \in 0..m |-> IF k = 0 THEN 1 ELSE f[k - 1] + w[k] + 1]

LEMMA SumsAreUnique ==
    ASSUME NEW w, NEW l \in Nat, NEW m \in Nat, l <= m,
           NEW f, Sums(f, l, w), NEW g, Sums(g, m, w)
    PROVE  \A k \in 0..l : f[k] = g[k]
  <1> DEFINE S == {k \in 0..l : f[k] # g[k]}
  <1> SUFFICES S = {}
    OBVIOUS
  <1> SUFFICES ASSUME S # {} PROVE FALSE
    OBVIOUS
  <1>1. PICK a \in S : \A b \in S : a <= b
    <2>1. S \subseteq Nat
      OBVIOUS
    <2> HIDE DEF S
    <2> QED
      BY <2>1, LeastNumber
  <1>2. a \in 0..l /\ f[a] # g[a]
    OBVIOUS
  <1>3. a # 0
    BY <1>2 DEF Sums
  <1>4. a - 1 \in 0..l /\ ~(a - 1 \in S)
    <2>1. ~(a <= a - 1) /\ a - 1 \in 0..l
      BY <1>2, <1>3
    <2> HIDE DEF S
    <2> QED
      BY <2>1, <1>1
  <1>5. f[a - 1] = g[a - 1]
    BY <1>4
  <1> HIDE DEF S
  <1>6. f[a] = f[a - 1] + w[a] + 1 /\ g[a] = g[a - 1] + w[a] + 1
    BY <1>2, <1>3 DEF Sums
  <1> QED
    BY <1>2, <1>5, <1>6

LEMMA SumsExist ==
    ASSUME NEW w, NEW m \in Nat
    PROVE  \E f : Sums(f, m, w)
  <1> DEFINE S == {k \in Nat : ~ \E f : Sums(f, k, w)}
  <1> SUFFICES S = {}
    OBVIOUS
  <1> SUFFICES ASSUME S # {} PROVE FALSE
    OBVIOUS
  <1>1. PICK a \in S : \A b \in S : a <= b
    <2>1. S \subseteq Nat
      OBVIOUS
    <2> HIDE DEF S
    <2> QED
      BY <2>1, LeastNumber
  <1>2. a \in Nat /\ ~ \E f : Sums(f, a, w)
    OBVIOUS
  <1>3. a # 0
    <2>1. Sums([k \in 0..0 |-> 1], 0, w)
      BY DEF Sums
    <2> QED
      BY <2>1, <1>2
  <1>4. ~(a - 1 \in S) /\ a - 1 \in Nat
    <2>1. ~(a <= a - 1) /\ a - 1 \in Nat
      BY <1>2, <1>3
    <2> HIDE DEF S
    <2> QED
      BY <2>1, <1>1
  <1>5. PICK f : Sums(f, a - 1, w)
    BY <1>4
  <1> HIDE DEF S
  <1> DEFINE g == [k \in 0..a |-> IF k = a THEN f[a - 1] + w[a] + 1 ELSE f[k]]
  <1>6. \A k \in 0..a : g[k] = IF k = a THEN f[a - 1] + w[a] + 1 ELSE f[k]
    OBVIOUS
  <1>7. \A k \in 0..(a - 1) : f[k] = IF k = 0 THEN 1 ELSE f[k - 1] + w[k] + 1
    BY <1>2, <1>5 DEF Sums
  <1>8. \A k \in 0..a : g[k] = IF k = 0 THEN 1 ELSE g[k - 1] + w[k] + 1
    <2> HIDE DEF g
    <2> TAKE k \in 0..a
    <2>1. CASE k = 0
      BY <2>1, <1>2, <1>3, <1>6, <1>7
    <2>2. CASE k = a
      <3>1. a - 1 \in 0..a /\ a - 1 # a
        BY <1>2, <1>3
      <3>2. g[a - 1] = f[a - 1]
        BY <3>1, <1>6
      <3> QED
        BY <2>2, <3>2, <1>2, <1>3, <1>6
    <2>3. CASE k # 0 /\ k # a
      <3>1. k \in 0..(a - 1) /\ k - 1 \in 0..a /\ k - 1 # a
        BY <2>3, <1>2
      <3>2. g[k - 1] = f[k - 1] /\ g[k] = f[k]
        BY <2>3, <3>1, <1>6
      <3> QED
        BY <2>3, <3>1, <3>2, <1>7
    <2> QED
      BY <2>1, <2>2, <2>3
  <1>9. g = [k \in 0..a |-> g[k]]
    OBVIOUS
  <1>10. Sums(g, a, w)
    <2> HIDE DEF g
    <2> QED
      BY <1>8, <1>9 DEF Sums
  <1> QED
    BY <1>10, <1>2

LEMMA SumExists ==
    ASSUME NEW w
    PROVE  \E f : f = [k \in Nat |-> IF k = 0 THEN 1 ELSE f[k - 1] + w[k] + 1]
  <1> DEFINE h == [m \in Nat |-> CHOOSE f : Sums(f, m, w)]
             f == [m \in Nat |-> h[m][m]]
  <1>1. \A m \in Nat : Sums(h[m], m, w)
    BY SumsExist
  <1>2. \A m \in Nat : f[m] = h[m][m]
    OBVIOUS
  <1>3. f = [m \in Nat |-> f[m]]
    OBVIOUS
  <1> HIDE DEF h, f
  <1>4. ASSUME NEW k \in Nat
        PROVE  f[k] = IF k = 0 THEN 1 ELSE f[k - 1] + w[k] + 1
    <2> DEFINE a == h[k]
    <2>0. Sums(a, k, w) /\ a = h[k]
      BY <1>1
    <2> HIDE DEF a
    <2>1. a[k] = IF k = 0 THEN 1 ELSE a[k - 1] + w[k] + 1
      <3>1. k \in 0..k
        OBVIOUS
      <3> QED
        BY <2>0, <3>1 DEF Sums
    <2>2. CASE k = 0
      BY <2>0, <2>1, <2>2, <1>2
    <2>3. CASE k # 0
      <3> DEFINE b == h[k - 1]
      <3>1. k - 1 \in Nat /\ k - 1 <= k /\ k - 1 \in 0..(k - 1)
        BY <2>3
      <3>2. Sums(b, k - 1, w) /\ b = h[k - 1]
        BY <3>1, <1>1
      <3> HIDE DEF b
      <3>3. b[k - 1] = a[k - 1]
        BY <3>1, <3>2, <2>0, SumsAreUnique
      <3>4. f[k - 1] = a[k - 1] /\ f[k] = a[k]
        BY <3>1, <3>2, <3>3, <2>0, <1>2
      <3> QED
        BY <2>1, <2>3, <3>4
    <2> QED
      BY <2>2, <2>3
  <1>5. f = [k \in Nat |-> IF k = 0 THEN 1 ELSE f[k - 1] + w[k] + 1]
    BY <1>3, <1>4
  <1> QED
    BY <1>5

LEMMA TotalIs ==
    /\ Total[0] = 1
    /\ \A k \in Nat \ {0} : Total[k] = Total[k - 1] + strlen(dol_argv[k]) + 1
  <1> DEFINE w == [k \in Nat |-> strlen(dol_argv[k])]
             R(f) == f = [k \in Nat |-> IF k = 0 THEN 1
                                        ELSE f[k - 1] + strlen(dol_argv[k]) + 1]
  <1>1. PICK f : f = [k \in Nat |-> IF k = 0 THEN 1 ELSE f[k - 1] + w[k] + 1]
    <2> HIDE DEF w
    <2> QED
      BY SumExists
  <1>2. \A k \in Nat : w[k] = strlen(dol_argv[k])
    OBVIOUS
  <1>3. R(f)
    <2> HIDE DEF w
    <2> QED
      BY <1>1, <1>2
  <1>4. Total = CHOOSE g : R(g)
    BY DEF Total
  <1>5. R(Total)
    <2> HIDE DEF R
    <2> QED
      BY <1>3, <1>4
  <1> QED
    BY <1>5

-----------------------------------------------------------------------------
(* The invariant.                                                          *)

Scanned == pc \in {"scan", "measure", "copy", "done"}

\* Where the sizes of the file, the text and the buffer stand to each other.
BufferInv ==
    /\ pc \in {"alloc", "read", "none", "overrun"} => size = file_size % Word
    /\ pc \in {"read", "overrun"} => alloc = (size + 1) % Word
    /\ pc = "overrun" => size > alloc
    /\ pc = "terminate" => size < alloc
    /\ pc = "first" \/ Scanned => size <= alloc
    /\ pc \notin {"alloc", "none"} => size > 0

\* The text as the loop has left it: of what it has passed, each end of line is a NUL.
TextInv ==
    /\ pc = "terminate" => cli = text
    /\ pc = "first" \/ Scanned =>
          /\ text[size - 1] = "nul"
          /\ \A k \in 0..(size - 1) :
                cli[k] = IF k < i /\ text[k] = "eol" THEN "nul" ELSE text[k]

\* Where the loop finds an argument, as far as it has come: at what is not an end of
\* line, just behind a NUL or what has become one.
Seen  == IF dol_argc = MaxNumArgv THEN i + 1 ELSE i
IsSite(j) == text[j] # "eol" /\ (IF j = 0 THEN before = "nul" ELSE text[j - 1] # "char")
Sites == {j \in 0..(Seen - 1) : IsSite(j)}

\* Of the arguments, those from before the loop; the loop adds one for each site, in
\* the order of the sites.
Base == IF text[0] # "eol" THEN 2 ELSE 1
ArgsInv ==
    /\ pc # "first" /\ ~Scanned => dol_argv = <<>> /\ i = 0
    /\ pc = "first" => dol_argv = <<>> /\ i = 0
    /\ Scanned =>
          /\ dol_argc >= Base /\ dol_argv[1] = Path
          /\ Base = 2 => dol_argv[2] = 0
          /\ \A k \in (Base + 1)..dol_argc : dol_argv[k] \in Sites
          /\ \A k, l \in (Base + 1)..dol_argc : k < l => dol_argv[k] < dol_argv[l]
          /\ \A j \in Sites : \E k \in (Base + 1)..dol_argc : dol_argv[k] = j
    /\ pc = "scan" => dol_argc < MaxNumArgv
    /\ Parsed => \/ dol_argc < MaxNumArgv /\ i = size
                 \/ dol_argc = MaxNumArgv /\ i < size /\ dol_argv[dol_argc] = i

\* The part of the command line that is packed is the sum of its arguments.
PackInv ==
    /\ pc \notin {"copy", "done"} => length = 0 /\ commandLine = <<>> /\ n = 1
    /\ pc = "copy" => /\ length = Total[dol_argc]
                      /\ n \in 1..(dol_argc + 1)
                      /\ Len(commandLine) = Total[n - 1] - 1
    /\ pc = "done" => Len(commandLine) = length

CliInv == TypeOK /\ BufferInv /\ TextInv /\ ArgsInv /\ PackInv

LEMMA TotalSame == UNCHANGED <<cli, size, dol_argv>> => Total' = Total
  BY DEF Total, strlen, End

LEMMA InitInv == Init => CliInv
  <1> SUFFICES ASSUME Init PROVE CliInv
    OBVIOUS
  <1> USE CliParseAssumption DEF Init
  <1>1. TypeOK
    <2>1. file_size \in Nat /\ size \in 0..(Word - 1)
      OBVIOUS
    <2>2. dol_argv \in Seq({Path} \cup 0..(size - 1)) /\ commandLine \in Seq(Char)
      OBVIOUS
    <2>3. text \in [{} -> Char] /\ cli \in [{} -> Char] /\ 0..(0 - 1) = {}
      OBVIOUS
    <2>4. touched \subseteq Int
      OBVIOUS
    <2> QED
      BY <2>1, <2>2, <2>3, <2>4 DEF TypeOK
  <1>2. BufferInv /\ PackInv
    BY DEF BufferInv, PackInv, Scanned
  <1>3. TextInv /\ ArgsInv
    BY DEF TextInv, ArgsInv, Scanned, Parsed
  <1> QED
    BY <1>1, <1>2, <1>3 DEF CliInv

\* What every action from the first argument on finds and leaves as it is.
LEMMA TextTypes ==
    ASSUME CliInv, pc = "first" \/ Scanned
    PROVE  /\ size \in 0..(Word - 1) /\ size > 0 /\ i \in 0..size
           /\ cli \in [0..(size - 1) -> Char] /\ text \in [0..(size - 1) -> Char]
           /\ before \in Char
           /\ cli[size - 1] = "nul" /\ text[size - 1] = "nul"
           /\ dol_argv \in Seq({Path} \cup 0..(size - 1))
  <1>1. pc \notin {"alloc", "read", "none", "overrun"}
    BY DEF Scanned
  <1>2. /\ size \in 0..(Word - 1) /\ i \in 0..size
        /\ cli \in [0..(size - 1) -> Char] /\ text \in [DOMAIN cli -> Char]
        /\ before \in Char
        /\ dol_argv \in Seq({Path} \cup 0..(size - 1))
    BY <1>1 DEF CliInv, TypeOK
  <1>3. size > 0
    BY <1>1 DEF CliInv, BufferInv, Scanned
  <1>4. text[size - 1] = "nul"
    BY DEF CliInv, TextInv
  <1>5. cli[size - 1] = "nul"
    <2>1. size - 1 \in 0..(size - 1)
      BY <1>2, <1>3
    <2> QED
      BY <2>1, <1>4 DEF CliInv, TextInv
  <1> QED
    BY <1>2, <1>3, <1>4, <1>5

\* What is looked at of an argument lies within the text.
LEMMA BytesAreOfTheText ==
    ASSUME CliInv, Parsed, NEW k \in 1..dol_argc
    PROVE  Bytes(dol_argv[k]) \subseteq 0..(size - 1)
  <1> DEFINE a == dol_argv[k]
  <1>1. /\ size \in 0..(Word - 1) /\ cli[size - 1] = "nul"
        /\ dol_argv \in Seq({Path} \cup 0..(size - 1))
    BY TextTypes DEF Parsed, Scanned
  <1>2. a = Path \/ a \in 0..(size - 1)
    BY <1>1 DEF dol_argc
  <1> HIDE DEF a
  <1>3. CASE a = Path
    BY <1>3 DEF Bytes, a
  <1>4. CASE a # Path
    <2>1. a \in Nat /\ a < size /\ size \in Nat
      BY <1>1, <1>2, <1>4
    <2>2. End(a) \in a..(size - 1)
      BY <2>1, <1>1, EndIs
    <2>3. Bytes(a) = a..End(a)
      BY <1>4 DEF Bytes
    <2>4. Bytes(a) \subseteq 0..(size - 1)
      BY <2>1, <2>2, <2>3
    <2> QED
      BY <2>4 DEF a
  <1> QED
    BY <1>3, <1>4

\* What each action touches.
Touches ==
    \/ touched' = touched
    \/ pc = "read" /\ touched' = touched \cup 0..(size - 1)
    \/ pc = "terminate" /\ touched' \subseteq touched \cup {size - 1, size}
    \/ pc = "first" /\ touched' = touched \cup {0}
    \/ pc = "scan" /\ i < size /\ touched' = touched \cup {i}
    \/ pc = "scan" /\ i < size /\ cli[i] # "eol" /\ touched' = touched \cup {i - 1, i}
    \/ Parsed /\ touched' \subseteq touched \cup 0..(size - 1)

LEMMA StepTouches == CliInv /\ [Next]_vars => Touches
  <1> SUFFICES ASSUME CliInv, [Next]_vars PROVE Touches
    OBVIOUS
  <1> USE DEF Touch, Touches
  <1>1. CASE Alloc \/ ScanEnd \/ UNCHANGED vars
    BY <1>1 DEF Alloc, ScanEnd, vars
  <1>2. CASE ReadCli
    BY <1>2 DEF ReadCli
  <1>3. CASE Terminate
    BY <1>3 DEF Terminate
  <1>4. CASE FirstArg
    BY <1>4 DEF FirstArg
  <1>5. CASE Scan
    BY <1>5 DEF Scan
  <1>6. CASE Measure
    <2>1. Parsed /\ touched' = touched \cup UNION {Bytes(dol_argv[k]) : k \in 1..dol_argc}
      BY <1>6 DEF Measure, Parsed
    <2>2. UNION {Bytes(dol_argv[k]) : k \in 1..dol_argc} \subseteq 0..(size - 1)
      BY <2>1, BytesAreOfTheText
    <2> QED
      BY <2>1, <2>2
  <1>7. CASE Copy
    <2>1. Parsed
      BY <1>7 DEF Copy, Parsed
    <2>2. CASE n <= dol_argc
      <3>1. touched' = touched \cup Bytes(dol_argv[n])
        BY <1>7, <2>2 DEF Copy
      <3>2. n \in 1..dol_argc
        <4>1. n \in 1..(dol_argc + 1) /\ dol_argv \in Seq({Path} \cup 0..(size - 1))
          BY <1>7 DEF Copy, CliInv, PackInv, TypeOK
        <4>2. dol_argc \in Nat
          BY <4>1 DEF dol_argc
        <4> QED
          BY <4>1, <4>2, <2>2
      <3> QED
        BY <2>1, <3>1, <3>2, BytesAreOfTheText
    <2>3. CASE ~(n <= dol_argc)
      BY <1>7, <2>3 DEF Copy
    <2> QED
      BY <2>2, <2>3
  <1> QED
    BY <1>1, <1>2, <1>3, <1>4, <1>5, <1>6, <1>7 DEF Next

LEMMA TouchedType == CliInv /\ [Next]_vars => touched' \subseteq Int
  <1> SUFFICES ASSUME CliInv, [Next]_vars PROVE touched' \subseteq Int
    OBVIOUS
  <1>1. Touches
    BY StepTouches
  <1>2. touched \subseteq Int /\ size \in 0..(Word - 1) /\ i \in 0..size
    BY DEF CliInv, TypeOK
  <1>3. size \in Int /\ i \in Int
    BY <1>2, CliParseAssumption
  <1>4. /\ {size - 1, size} \subseteq Int /\ {i} \subseteq Int /\ {i - 1, i} \subseteq Int
        /\ {0} \subseteq Int /\ 0..(size - 1) \subseteq Int
    BY <1>3
  <1> QED
    BY <1>1, <1>2, <1>4, Zenon DEF Touches

\* One more than a size_t, as a size_t.
LEMMA Wraps ==
    ASSUME NEW a \in 0..(Word - 1)
    PROVE  (a + 1) % Word = IF a = Word - 1 THEN 0 ELSE a + 1
  <1>1. Word \in Nat /\ Word > 0
    BY CliParseAssumption
  <1>2. CASE a = Word - 1
    <2>1. Word % Word = 0
      BY <1>1
    <2> QED
      BY <1>1, <1>2, <2>1
  <1>3. CASE a # Word - 1
    <2>1. a + 1 \in 0..(Word - 1)
      BY <1>1, <1>3
    <2>2. \A b \in 0..(Word - 1) : b % Word = b
      BY <1>1
    <2> QED
      BY <1>3, <2>1, <2>2
  <1> QED
    BY <1>2, <1>3

LEMMA AllocInv == CliInv /\ Alloc => CliInv'
  <1> SUFFICES ASSUME CliInv, Alloc PROVE CliInv'
    OBVIOUS
  <1> USE DEF CliInv, Alloc, memory, pack
  <1>0. UNCHANGED <<file_size, text, before, cli, size, i, dol_argv, length, commandLine, n>>
    OBVIOUS
  <1>1. pc = "alloc" /\ pc' \in {"none", "read"}
    OBVIOUS
  <1>2. pc' = "none" => alloc' = alloc
    OBVIOUS
  <1>3. pc' = "read" => size # 0 /\ alloc' = (size + 1) % Word /\ alloc' <= Memory
    OBVIOUS
  <1>4. size \in 0..(Word - 1) /\ alloc \in 0..Memory
    BY DEF TypeOK
  <1>5. alloc' \in 0..Memory
    BY <1>1, <1>2, <1>3, <1>4, Wraps, CliParseAssumption
  <1>t. touched' \subseteq Int
    BY TouchedType DEF Next
  <1>6. TypeOK'
    BY <1>t, <1>0, <1>1, <1>5 DEF TypeOK
  <1>7. BufferInv'
    BY <1>0, <1>1, <1>3, <1>4, CliParseAssumption DEF BufferInv, Scanned
  <1>8. TextInv' /\ ArgsInv'
    BY <1>0, <1>1 DEF TextInv, ArgsInv, Scanned, Parsed
  <1>9. PackInv'
    BY <1>0, <1>1 DEF PackInv
  <1> QED
    BY <1>6, <1>7, <1>8, <1>9

LEMMA ReadInv == CliInv /\ ReadCli => CliInv'
  <1> SUFFICES ASSUME CliInv, ReadCli PROVE CliInv'
    OBVIOUS
  <1> USE DEF CliInv, ReadCli, memory, pack
  <1>0. UNCHANGED <<file_size, alloc, before, size, i, dol_argv, length, commandLine, n>>
    OBVIOUS
  <1>1. pc = "read" /\ cli' = text'
    OBVIOUS
  <1>2. \/ size > alloc /\ pc' = "overrun" /\ text' = text
        \/ ~(size > alloc) /\ pc' = "terminate" /\ text' \in [0..(size - 1) -> Char]
    OBVIOUS
  <1>3. size \in 0..(Word - 1) /\ alloc \in 0..Memory /\ size > 0 /\ alloc = (size + 1) % Word
        /\ size = file_size % Word
    BY <1>1 DEF TypeOK, BufferInv
  <1>t. touched' \subseteq Int
    BY TouchedType DEF Next
  <1>4. TypeOK'
    <2>1. text \in [0..(0 - 1) -> Char]
      BY <1>1 DEF TypeOK
    <2> QED
      BY <1>t, <1>0, <1>1, <1>2, <2>1 DEF TypeOK
  <1>5. BufferInv'
    <2>1. ~(size > alloc) => size < alloc
      BY <1>3, Wraps, CliParseAssumption
    <2> QED
      BY <1>0, <1>2, <1>3, <2>1 DEF BufferInv, Scanned
  <1>6. TextInv' /\ ArgsInv'
    BY <1>0, <1>1, <1>2 DEF TextInv, ArgsInv, Scanned, Parsed
  <1>7. PackInv'
    BY <1>0, <1>1, <1>2 DEF PackInv
  <1> QED
    BY <1>4, <1>5, <1>6, <1>7

LEMMA TerminateInv == CliInv /\ Terminate => CliInv'
  <1> SUFFICES ASSUME CliInv, Terminate PROVE CliInv'
    OBVIOUS
  <1> USE DEF CliInv, Terminate, memory, pack
  <1>0. UNCHANGED <<file_size, alloc, before, i, dol_argv, length, commandLine, n>>
    OBVIOUS
  <1>1. pc = "terminate" /\ pc' = "first" /\ text' = cli'
    OBVIOUS
  <1>2. size \in 0..(Word - 1) /\ size < alloc /\ alloc \in 0..Memory /\ size > 0
        /\ cli \in [0..(size - 1) -> Char] /\ i = 0 /\ dol_argv = <<>>
    <2>1. size < alloc /\ size > 0
      BY <1>1 DEF BufferInv
    <2>2. i = 0 /\ dol_argv = <<>>
      BY <1>1 DEF ArgsInv, Scanned
    <2>3. size \in 0..(Word - 1) /\ alloc \in 0..Memory /\ cli \in [0..(size - 1) -> Char]
      BY <1>1 DEF TypeOK
    <2> QED
      BY <2>1, <2>2, <2>3
  <1>3. /\ size' \in 0..(Word - 1) /\ size' <= alloc /\ size' > 0
        /\ cli' \in [0..(size' - 1) -> Char]
        /\ cli'[size' - 1] = "nul"
    <2>1. CASE cli[size - 1] # "nul"
      <3>1. size' = size + 1 /\ cli' = [k \in 0..size |-> IF k < size THEN cli[k] ELSE "nul"]
        BY <2>1
      <3>2. size' - 1 = size /\ size' \in 0..(Word - 1) /\ size' <= alloc /\ size' > 0
        BY <3>1, <1>2, CliParseAssumption
      <3>3. \A k \in 0..size : (IF k < size THEN cli[k] ELSE "nul") \in Char
        BY <1>2 DEF Char
      <3>4. cli' \in [0..size -> Char] /\ cli'[size] = "nul"
        BY <3>1, <3>3, <1>2
      <3> QED
        BY <3>2, <3>4
    <2>2. CASE cli[size - 1] = "nul"
      BY <1>2, <2>2, CliParseAssumption
    <2> QED
      BY <2>1, <2>2
  <1>t. touched' \subseteq Int
    BY TouchedType DEF Next
  <1>4. TypeOK'
    <2>1. dol_argv' \in Seq({Path} \cup 0..(size' - 1))
      BY <1>0, <1>2
    <2>2. i' \in 0..size'
      BY <1>0, <1>2, <1>3
    <2> QED
      BY <1>t, <1>0, <1>1, <1>3, <2>1, <2>2 DEF TypeOK
  <1>5. BufferInv'
    BY <1>0, <1>1, <1>3 DEF BufferInv, Scanned
  <1>6. TextInv'
    BY <1>0, <1>1, <1>2, <1>3 DEF TextInv, Scanned
  <1>7. ArgsInv'
    BY <1>0, <1>1, <1>2 DEF ArgsInv, Scanned, Parsed
  <1>8. PackInv'
    BY <1>0, <1>1 DEF PackInv
  <1> QED
    BY <1>4, <1>5, <1>6, <1>7, <1>8

LEMMA FirstArgInv == CliInv /\ FirstArg => CliInv'
  <1> SUFFICES ASSUME CliInv, FirstArg PROVE CliInv'
    OBVIOUS
  <1>0. /\ UNCHANGED <<file_size, alloc, text, before, cli, size, i, length, commandLine, n>>
        /\ pc = "first" /\ pc' = "scan"
        /\ dol_argv' = IF cli[0] # "eol" THEN <<Path, 0>> ELSE <<Path>>
    BY DEF FirstArg, memory, pack
  <1>1. /\ size \in 0..(Word - 1) /\ size > 0 /\ i = 0
        /\ dol_argv \in Seq({Path} \cup 0..(size - 1))
        /\ cli[0] = text[0]
    <2>1. i = 0
      BY <1>0 DEF CliInv, ArgsInv
    <2>2. size \in 0..(Word - 1) /\ size > 0
      BY <1>0, TextTypes
    <2>3. cli[0] = text[0]
      BY <1>0, <2>1, <2>2 DEF CliInv, TextInv
    <2> QED
      BY <2>1, <2>2, <2>3, <1>0, TextTypes
  <1>2. /\ dol_argv' \in Seq({Path} \cup 0..(size - 1))
        /\ Len(dol_argv') = Base /\ dol_argv'[1] = Path /\ (Base = 2 => dol_argv'[2] = 0)
    <2>1. CASE text[0] # "eol"
      <3>1. dol_argv' = <<Path, 0>> /\ Base = 2 /\ 0 \in 0..(size - 1)
        BY <2>1, <1>0, <1>1 DEF Base
      <3> QED
        BY <3>1
    <2>2. CASE text[0] = "eol"
      <3>1. dol_argv' = <<Path>> /\ Base = 1
        BY <2>2, <1>0, <1>1 DEF Base
      <3> QED
        BY <3>1
    <2> QED
      BY <2>1, <2>2
  <1>3. Base' = Base /\ Base \in {1, 2}
    BY <1>0 DEF Base
  <1>t. touched' \subseteq Int
    BY TouchedType DEF Next
  <1>4. TypeOK'
    BY <1>t, <1>0, <1>2 DEF CliInv, TypeOK
  <1>5. BufferInv'
    BY <1>0 DEF CliInv, BufferInv, Scanned
  <1>6. TextInv'
    BY <1>0 DEF CliInv, TextInv, Scanned
  <1>7. ArgsInv'
    <2>1. dol_argc' < MaxNumArgv /\ dol_argc' = Base
      BY <1>2, <1>3, CliParseAssumption DEF dol_argc
    <2>2. Seen' = 0
      BY <2>1, <1>0, <1>1, <1>3, CliParseAssumption DEF Seen
    <2>3. Sites' = {}
      BY <2>2 DEF Sites
    <2> QED
      BY <2>1, <2>3, <1>0, <1>2, <1>3 DEF ArgsInv, Scanned, Parsed
  <1>8. PackInv'
    BY <1>0 DEF CliInv, PackInv
  <1> QED
    BY <1>4, <1>5, <1>6, <1>7, <1>8 DEF CliInv

\* The loop sees in cli whether it stands at a site.
LEMMA AtSite ==
    ASSUME CliInv, pc = "scan", i < size
    PROVE  /\ cli[i] = text[i]
           /\ IsSite(i) <=> cli[i] # "eol" /\ Previous(i) = "nul"
  <1>1. /\ size \in 0..(Word - 1) /\ i \in 0..(size - 1)
        /\ text \in [0..(size - 1) -> Char]
        /\ \A k \in 0..(size - 1) :
              cli[k] = IF k < i /\ text[k] = "eol" THEN "nul" ELSE text[k]
    <2>1. \A k \in 0..(size - 1) :
             cli[k] = IF k < i /\ text[k] = "eol" THEN "nul" ELSE text[k]
      BY DEF CliInv, TextInv, Scanned
    <2>2. size \in 0..(Word - 1) /\ i \in 0..size /\ text \in [0..(size - 1) -> Char]
      BY TextTypes DEF Scanned
    <2>3. i \in 0..(size - 1)
      BY <2>2
    <2> QED
      BY <2>1, <2>2, <2>3
  <1>2. cli[i] = text[i]
    BY <1>1
  <1>3. CASE i = 0
    BY <1>2, <1>3 DEF IsSite, Previous
  <1>4. CASE i # 0
    <2>1. i - 1 \in 0..(size - 1) /\ i - 1 < i
      BY <1>1, <1>4
    <2>2. cli[i - 1] = IF text[i - 1] = "eol" THEN "nul" ELSE text[i - 1]
      BY <2>1, <1>1
    <2>3. text[i - 1] \in Char
      BY <2>1, <1>1
    <2>4. cli[i - 1] = "nul" <=> text[i - 1] # "char"
      BY <2>2, <2>3 DEF Char
    <2> QED
      BY <2>4, <1>2, <1>4 DEF IsSite, Previous
  <1> QED
    BY <1>2, <1>3, <1>4

\* A turn of the loop that finds no argument.
LEMMA ScanPasses ==
    ASSUME CliInv, Scan, UNCHANGED dol_argv
    PROVE  CliInv'
  <1>0. /\ UNCHANGED <<file_size, alloc, text, before, size, length, commandLine, n, dol_argv>>
        /\ pc = "scan" /\ i < size
    BY DEF Scan, memory, pack
  <1>1. /\ size \in 0..(Word - 1) /\ size > 0 /\ i \in 0..size
        /\ cli \in [0..(size - 1) -> Char] /\ text \in [0..(size - 1) -> Char]
        /\ dol_argv \in Seq({Path} \cup 0..(size - 1))
    BY <1>0, TextTypes DEF Scanned
  <1>2. dol_argv' # Append(dol_argv, i)
    BY <1>0, <1>1
  <1>3. i' = i + 1 /\ pc' = "scan"
    BY <1>0, <1>2 DEF Scan
  <1>4. /\ ~IsSite(i)
        /\ \/ text[i] = "eol" /\ cli' = [cli EXCEPT ![i] = "nul"]
           \/ text[i] # "eol" /\ cli' = cli
    <2>1. cli[i] = text[i] /\ (IsSite(i) <=> cli[i] # "eol" /\ Previous(i) = "nul")
      BY <1>0, AtSite
    <2> QED
      BY <2>1, <1>0, <1>2 DEF Scan
  <1>5. i + 1 \in 0..size /\ i \in 0..(size - 1)
    BY <1>0, <1>1
  <1>t. touched' \subseteq Int
    BY TouchedType DEF Next
  <1>6. TypeOK'
    <2>1. cli' \in [0..(size - 1) -> Char]
      BY <1>1, <1>4, <1>5 DEF Char
    <2>2. text' \in [DOMAIN cli' -> Char]
      BY <2>1, <1>0, <1>1
    <2> QED
      BY <1>t, <1>0, <1>3, <1>5, <2>1, <2>2 DEF CliInv, TypeOK
  <1>7. BufferInv'
    BY <1>0, <1>3 DEF CliInv, BufferInv, Scanned
  <1>8. TextInv'
    <2>1. ASSUME NEW k \in 0..(size - 1)
          PROVE  cli'[k] = IF k < i + 1 /\ text[k] = "eol" THEN "nul" ELSE text[k]
      <3>1. cli[k] = IF k < i /\ text[k] = "eol" THEN "nul" ELSE text[k]
        BY <1>0 DEF CliInv, TextInv, Scanned
      <3>2. CASE k = i
        BY <3>2, <1>4, <1>1, <1>0, AtSite
      <3>3. CASE k # i
        BY <3>1, <3>3, <1>4, <1>1
      <3> QED
        BY <3>2, <3>3
    <2>2. text[size - 1] = "nul"
      BY <1>0, TextTypes DEF Scanned
    <2> QED
      BY <2>1, <2>2, <1>0, <1>3 DEF TextInv, Scanned
  <1>9. ArgsInv'
    <2>1. dol_argc < MaxNumArgv
      BY <1>0 DEF CliInv, ArgsInv
    <2>2. Seen = i /\ Seen' = i + 1
      BY <2>1, <1>0, <1>1, <1>3, CliParseAssumption DEF Seen, dol_argc
    <2>3. Sites' = Sites
      <3>1. Sites = {j \in 0..(i - 1) : IsSite(j)}
        BY <2>2 DEF Sites
      <3>2. Sites' = {j \in 0..i : IsSite(j)}
        BY <2>2, <1>0, <1>1 DEF Sites, IsSite
      <3> QED
        BY <3>1, <3>2, <1>4, <1>1
    <2>4. Base' = Base /\ dol_argc' = dol_argc
      BY <1>0 DEF Base, dol_argc
    <2> QED
      BY <2>1, <2>3, <2>4, <1>0, <1>3 DEF CliInv, ArgsInv, Scanned, Parsed
  <1>10. PackInv'
    BY <1>0, <1>3 DEF CliInv, PackInv
  <1> QED
    BY <1>6, <1>7, <1>8, <1>9, <1>10 DEF CliInv

\* A turn of the loop that finds one.
LEMMA ScanFinds ==
    ASSUME CliInv, Scan, dol_argv' # dol_argv
    PROVE  CliInv'
  <1>0. /\ UNCHANGED <<file_size, alloc, text, before, size, length, commandLine, n, cli>>
        /\ pc = "scan" /\ i < size
        /\ cli[i] # "eol" /\ Previous(i) = "nul" /\ dol_argv' = Append(dol_argv, i)
        /\ \/ dol_argc + 1 >= MaxNumArgv /\ pc' = "measure" /\ i' = i
           \/ ~(dol_argc + 1 >= MaxNumArgv) /\ pc' = "scan" /\ i' = i + 1
    BY DEF Scan, memory, pack
  <1>1. /\ size \in 0..(Word - 1) /\ size > 0 /\ i \in 0..(size - 1)
        /\ cli \in [0..(size - 1) -> Char] /\ text \in [0..(size - 1) -> Char]
        /\ dol_argv \in Seq({Path} \cup 0..(size - 1))
    <2>1. size \in 0..(Word - 1) /\ i \in 0..size /\ size > 0
      BY <1>0, TextTypes DEF Scanned
    <2>2. i \in 0..(size - 1)
      BY <2>1, <1>0
    <2> QED
      BY <2>1, <2>2, <1>0, TextTypes DEF Scanned
  <1>2. IsSite(i) /\ text[i] # "eol"
    BY <1>0, AtSite
  <1>3. dol_argc \in Nat /\ dol_argc < MaxNumArgv /\ MaxNumArgv \in Nat
    BY <1>0, <1>1, CliParseAssumption DEF CliInv, ArgsInv, dol_argc
  <1>4. /\ dol_argv' \in Seq({Path} \cup 0..(size - 1))
        /\ dol_argc' = dol_argc + 1 /\ dol_argv'[dol_argc + 1] = i
        /\ \A k \in 1..dol_argc : dol_argv'[k] = dol_argv[k]
    BY <1>0, <1>1 DEF dol_argc
  <1>t. touched' \subseteq Int
    BY TouchedType DEF Next
  <1>5. TypeOK'
    <2>1. i' \in 0..size
      BY <1>0, <1>1
    <2> QED
      BY <1>t, <1>0, <1>4, <2>1 DEF CliInv, TypeOK
  <1>6. BufferInv'
    BY <1>0 DEF CliInv, BufferInv, Scanned
  <1>7. TextInv'
    <2>1. ASSUME NEW k \in 0..(size - 1)
          PROVE  cli[k] = IF k < i' /\ text[k] = "eol" THEN "nul" ELSE text[k]
      <3>1. cli[k] = IF k < i /\ text[k] = "eol" THEN "nul" ELSE text[k]
        BY <1>0 DEF CliInv, TextInv, Scanned
      <3>2. k < i' => k < i \/ k = i
        BY <1>0, <1>1
      <3>3. k < i => k < i'
        BY <1>0, <1>1
      <3> QED
        BY <3>1, <3>2, <3>3, <1>2
    <2>2. text[size - 1] = "nul"
      BY <1>0, TextTypes DEF Scanned
    <2> QED
      BY <2>1, <2>2, <1>0 DEF TextInv, Scanned
  <1>8. ArgsInv'
    <2>1. Seen = i /\ Seen' = i + 1
      BY <1>0, <1>1, <1>3, <1>4 DEF Seen
    <2>2. Sites' = Sites \cup {i} /\ i \notin Sites /\ \A j \in Sites : j < i
      <3>1. Sites = {j \in 0..(i - 1) : IsSite(j)}
        BY <2>1 DEF Sites
      <3>2. Sites' = {j \in 0..i : IsSite(j)}
        BY <2>1, <1>0, <1>1 DEF Sites, IsSite
      <3> QED
        BY <3>1, <3>2, <1>1, <1>2
    <2>3. Base' = Base /\ Base \in {1, 2}
      BY <1>0 DEF Base
    <2>4. /\ dol_argc >= Base /\ dol_argv[1] = Path
          /\ Base = 2 => dol_argv[2] = 0
          /\ \A k \in (Base + 1)..dol_argc : dol_argv[k] \in Sites
          /\ \A k, l \in (Base + 1)..dol_argc : k < l => dol_argv[k] < dol_argv[l]
          /\ \A j \in Sites : \E k \in (Base + 1)..dol_argc : dol_argv[k] = j
      BY <1>0 DEF CliInv, ArgsInv, Scanned
    <2>5. /\ dol_argc' >= Base /\ dol_argv'[1] = Path
          /\ Base = 2 => dol_argv'[2] = 0
      BY <2>3, <2>4, <1>3, <1>4
    <2>6. ASSUME NEW k \in (Base + 1)..(dol_argc + 1)
          PROVE  dol_argv'[k] \in Sites'
      <3>1. CASE k = dol_argc + 1
        BY <3>1, <2>2, <1>4
      <3>2. CASE k # dol_argc + 1
        <4>1. k \in (Base + 1)..dol_argc /\ k \in 1..dol_argc
          BY <3>2, <2>3, <1>3
        <4> QED
          BY <4>1, <2>2, <2>4, <1>4
      <3> QED
        BY <3>1, <3>2
    <2>7. ASSUME NEW k \in (Base + 1)..(dol_argc + 1), NEW l \in (Base + 1)..(dol_argc + 1),
                 k < l
          PROVE  dol_argv'[k] < dol_argv'[l]
      <3>1. k \in (Base + 1)..dol_argc /\ k \in 1..dol_argc /\ dol_argv'[k] = dol_argv[k]
        BY <2>3, <2>7, <1>3, <1>4
      <3>2. CASE l = dol_argc + 1
        BY <3>1, <3>2, <2>2, <2>4, <1>4
      <3>3. CASE l # dol_argc + 1
        <4>1. l \in (Base + 1)..dol_argc /\ l \in 1..dol_argc
          BY <3>3, <2>3, <1>3
        <4> QED
          BY <4>1, <3>1, <2>4, <2>7, <1>4
      <3> QED
        BY <3>2, <3>3
    <2>8. ASSUME NEW j \in Sites'
          PROVE  \E k \in (Base + 1)..(dol_argc + 1) : dol_argv'[k] = j
      <3>1. CASE j = i
        <4>1. dol_argc + 1 \in (Base + 1)..(dol_argc + 1)
          BY <2>3, <2>4, <1>3
        <4> QED
          BY <3>1, <4>1, <1>4
      <3>2. CASE j # i
        <4>1. PICK k \in (Base + 1)..dol_argc : dol_argv[k] = j
          BY <3>2, <2>2, <2>4
        <4>2. k \in 1..dol_argc /\ k \in (Base + 1)..(dol_argc + 1)
          BY <4>1, <2>3, <1>3
        <4> QED
          BY <4>1, <4>2, <1>4
      <3> QED
        BY <3>1, <3>2
    <2>9. /\ pc' = "scan" => dol_argc' < MaxNumArgv
          /\ pc' = "measure" => dol_argc' = MaxNumArgv /\ i' < size /\ dol_argv'[dol_argc'] = i'
      BY <1>0, <1>3, <1>4
    <2>10. /\ \A k \in (Base' + 1)..dol_argc' : dol_argv'[k] \in Sites'
           /\ \A k, l \in (Base' + 1)..dol_argc' : k < l => dol_argv'[k] < dol_argv'[l]
           /\ \A j \in Sites' : \E k \in (Base' + 1)..dol_argc' : dol_argv'[k] = j
      BY <2>3, <2>6, <2>7, <2>8, <1>4
    <2> QED
      BY <2>3, <2>5, <2>9, <2>10, <1>0 DEF ArgsInv, Scanned, Parsed
  <1>9. PackInv'
    BY <1>0 DEF CliInv, PackInv
  <1> QED
    BY <1>5, <1>6, <1>7, <1>8, <1>9 DEF CliInv

LEMMA ScanEndInv == CliInv /\ ScanEnd => CliInv'
  <1> SUFFICES ASSUME CliInv, ScanEnd PROVE CliInv'
    OBVIOUS
  <1>0. /\ UNCHANGED <<file_size, alloc, text, before, cli, size, i, dol_argv>>
        /\ UNCHANGED <<length, commandLine, n>>
        /\ pc = "scan" /\ pc' = "measure" /\ i = size
    BY DEF ScanEnd, parse, memory, pack
  <1>t. touched' \subseteq Int
    BY TouchedType DEF Next
  <1>1. TypeOK'
    BY <1>t, <1>0 DEF CliInv, TypeOK
  <1>2. BufferInv'
    BY <1>0 DEF CliInv, BufferInv, Scanned
  <1>3. TextInv'
    BY <1>0 DEF CliInv, TextInv, Scanned
  <1>4. ArgsInv'
    <2>1. Sites' = Sites /\ Base' = Base /\ dol_argc' = dol_argc
      BY <1>0 DEF Sites, Seen, IsSite, Base, dol_argc
    <2> QED
      BY <2>1, <1>0 DEF CliInv, ArgsInv, Scanned, Parsed
  <1>5. PackInv'
    BY <1>0 DEF CliInv, PackInv
  <1> QED
    BY <1>1, <1>2, <1>3, <1>4, <1>5 DEF CliInv

\* An argument is a string that ends within the buffer, and its characters are copied
\* with the NUL.
LEMMA ArgumentIs ==
    ASSUME CliInv, Parsed, NEW k \in 1..dol_argc
    PROVE  /\ strlen(dol_argv[k]) \in Nat
           /\ Chars(dol_argv[k]) \in Seq(Char)
           /\ Len(Chars(dol_argv[k])) = strlen(dol_argv[k]) + 1
  <1> DEFINE a == dol_argv[k]
             m == strlen(a)
  <1>1. /\ size \in 0..(Word - 1) /\ cli \in [0..(size - 1) -> Char]
        /\ cli[size - 1] = "nul"
        /\ dol_argv \in Seq({Path} \cup 0..(size - 1))
    BY TextTypes DEF Parsed, Scanned
  <1>2. a = Path \/ a \in 0..(size - 1)
    BY <1>1 DEF dol_argc
  <1>3. a # Path => a \in Nat /\ a < size /\ size \in Nat
    BY <1>1, <1>2
  <1>4. a # Path => End(a) \in a..(size - 1)
    <2> HIDE DEF a
    <2> QED
      BY <1>3, <1>1, EndIs
  <1> HIDE DEF a
  <1>5. /\ m \in Nat
        /\ a # Path => m = End(a) - a
    BY <1>3, <1>4 DEF strlen, PathLen, Path
  <1>6. Chars(a) = [l \in 1..(m + 1) |->
                       IF l = m + 1 THEN "nul" ELSE IF a = Path THEN "char" ELSE cli[a + l - 1]]
    BY DEF Chars
  <1> HIDE DEF m
  <1>7. \A l \in 1..(m + 1) :
           (IF l = m + 1 THEN "nul" ELSE IF a = Path THEN "char" ELSE cli[a + l - 1]) \in Char
    <2> TAKE l \in 1..(m + 1)
    <2>1. CASE l = m + 1
      BY <2>1 DEF Char
    <2>2. CASE l # m + 1 /\ a = Path
      BY <2>2 DEF Char
    <2>3. CASE l # m + 1 /\ a # Path
      <3>1. a + l - 1 \in 0..(size - 1)
        BY <2>3, <1>3, <1>4, <1>5
      <3> QED
        BY <2>3, <3>1, <1>1
    <2> QED
      BY <2>1, <2>2, <2>3
  <1>8. Chars(a) \in Seq(Char) /\ Len(Chars(a)) = m + 1
    BY <1>5, <1>6, <1>7
  <1> QED
    BY <1>5, <1>8 DEF m, a

\* The total grows with each argument.
LEMMA TotalGrows ==
    ASSUME CliInv, Parsed
    PROVE  /\ \A k \in 0..dol_argc : Total[k] \in Nat /\ Total[k] >= 1
           /\ \A k \in 0..dol_argc : k # dol_argc => Total[k] < Total[dol_argc]
  <1> DEFINE Grown(k) == /\ Total[k] \in Nat /\ Total[k] >= 1
                         /\ \A j \in 0..(k - 1) : Total[j] \in Nat /\ Total[j] < Total[k]
             S == {k \in 0..dol_argc : ~Grown(k)}
  <1>0. dol_argc \in Nat
    <2>1. dol_argv \in Seq({Path} \cup 0..(size - 1))
      BY TextTypes DEF Parsed, Scanned
    <2> QED
      BY <2>1 DEF dol_argc
  <1>1. S = {}
    <2> SUFFICES ASSUME S # {} PROVE FALSE
      OBVIOUS
    <2>1. PICK a \in S : \A b \in S : a <= b
      <3>1. S \subseteq Nat
        BY <1>0
      <3> HIDE DEF S
      <3> QED
        BY <3>1, LeastNumber
    <2>2. a \in 0..dol_argc /\ ~Grown(a)
      OBVIOUS
    <2>3. a # 0
      BY <2>2, TotalIs
    <2>4. a - 1 \in 0..dol_argc /\ ~(a <= a - 1) /\ a \in 1..dol_argc /\ a \in Nat \ {0}
      BY <2>2, <2>3, <1>0
    <2>5. Grown(a - 1)
      <3>1. ~(a - 1 \in S)
        <4> HIDE DEF S
        <4> QED
          BY <2>1, <2>4
      <3> HIDE DEF Grown
      <3> QED
        BY <3>1, <2>4
    <2>6. strlen(dol_argv[a]) \in Nat
      BY <2>4, ArgumentIs
    <2>7. Total[a] = Total[a - 1] + strlen(dol_argv[a]) + 1
      BY <2>4, TotalIs
    <2> HIDE DEF S
    <2>8. Total[a] \in Nat /\ Total[a] >= 1 /\ Total[a - 1] < Total[a]
      BY <2>5, <2>6, <2>7
    <2>9. ASSUME NEW j \in 0..(a - 1)
          PROVE  Total[j] \in Nat /\ Total[j] < Total[a]
      <3>1. CASE j = a - 1
        BY <3>1, <2>5, <2>8
      <3>2. CASE j # a - 1
        <4>1. j \in 0..(a - 1 - 1)
          BY <3>2, <2>4
        <4>2. Total[j] \in Nat /\ Total[j] < Total[a - 1] /\ Total[a - 1] \in Nat
          BY <4>1, <2>5
        <4> QED
          BY <4>2, <2>8
      <3> QED
        BY <3>1, <3>2
    <2> QED
      BY <2>2, <2>8, <2>9
  <1>2. \A k \in 0..dol_argc : Grown(k)
    <2> HIDE DEF Grown
    <2> QED
      BY <1>1
  <1>3. \A k \in 0..dol_argc : k # dol_argc => Total[k] < Total[dol_argc]
    <2> TAKE k \in 0..dol_argc
    <2> HAVE k # dol_argc
    <2>1. k \in 0..(dol_argc - 1) /\ dol_argc \in 0..dol_argc
      BY <1>0
    <2> QED
      BY <2>1, <1>2
  <1> QED
    BY <1>2, <1>3

LEMMA MeasureInv == CliInv /\ Measure => CliInv'
  <1> SUFFICES ASSUME CliInv, Measure PROVE CliInv'
    OBVIOUS
  <1>0. /\ UNCHANGED <<file_size, alloc, text, before, cli, size, i, dol_argv>>
        /\ UNCHANGED <<commandLine, n>>
        /\ pc = "measure"
        /\ \/ length' = Total[dol_argc] /\ pc' = "copy"
           \/ length' = 0 /\ pc' = "done"
    BY DEF Measure, parse, memory
  <1>1. Parsed /\ dol_argc \in Nat
    <2>1. dol_argv \in Seq({Path} \cup 0..(size - 1))
      BY <1>0, TextTypes DEF Parsed, Scanned
    <2> QED
      BY <2>1, <1>0 DEF dol_argc, Parsed
  <1>2. Total[dol_argc] \in Nat
    BY <1>1, TotalGrows
  <1>t. touched' \subseteq Int
    BY TouchedType DEF Next
  <1>3. TypeOK'
    BY <1>t, <1>0, <1>2 DEF CliInv, TypeOK
  <1>4. BufferInv'
    BY <1>0 DEF CliInv, BufferInv, Scanned
  <1>5. TextInv'
    BY <1>0 DEF CliInv, TextInv, Scanned
  <1>6. ArgsInv'
    <2>1. Sites' = Sites /\ Base' = Base /\ dol_argc' = dol_argc
      BY <1>0 DEF Sites, Seen, IsSite, Base, dol_argc
    <2> QED
      BY <2>1, <1>0 DEF CliInv, ArgsInv, Scanned, Parsed
  <1>7. PackInv'
    <2>1. commandLine = <<>> /\ n = 1
      BY <1>0 DEF CliInv, PackInv
    <2>2. Total' = Total /\ dol_argc' = dol_argc
      BY <1>0, TotalSame DEF dol_argc
    <2>3. n \in 1..(dol_argc + 1) /\ Len(commandLine) = Total[n - 1] - 1
      BY <2>1, <1>1, TotalIs
    <2> QED
      BY <2>1, <2>2, <2>3, <1>0 DEF PackInv
  <1> QED
    BY <1>3, <1>4, <1>5, <1>6, <1>7 DEF CliInv

LEMMA CopyInv == CliInv /\ Copy => CliInv'
  <1> SUFFICES ASSUME CliInv, Copy PROVE CliInv'
    OBVIOUS
  <1>0. /\ UNCHANGED <<file_size, alloc, text, before, cli, size, i, dol_argv, length>>
        /\ pc = "copy"
        /\ \/ /\ n <= dol_argc
              /\ commandLine' = commandLine \o Chars(dol_argv[n])
              /\ n' = n + 1 /\ pc' = "copy"
           \/ /\ ~(n <= dol_argc)
              /\ commandLine' = Append(commandLine, "nul")
              /\ pc' = "done" /\ n' = n
    BY DEF Copy, parse, memory
  <1>1. Parsed /\ dol_argc \in Nat
    <2>1. dol_argv \in Seq({Path} \cup 0..(size - 1))
      BY <1>0, TextTypes DEF Parsed, Scanned
    <2> QED
      BY <2>1, <1>0 DEF dol_argc, Parsed
  <1>2. /\ commandLine \in Seq(Char) /\ n \in 1..(dol_argc + 1)
        /\ length = Total[dol_argc] /\ Len(commandLine) = Total[n - 1] - 1
    BY <1>0 DEF CliInv, TypeOK, PackInv
  <1>3. /\ commandLine' \in Seq(Char)
        /\ pc' = "copy" => n' \in 1..(dol_argc + 1) /\ Len(commandLine') = Total[n' - 1] - 1
        /\ pc' = "done" => Len(commandLine') = length
        /\ n' \in Nat
    <2>1. CASE n <= dol_argc
      <3>1. /\ commandLine' = commandLine \o Chars(dol_argv[n])
            /\ n' = n + 1 /\ pc' = "copy" /\ n \in 1..dol_argc
        BY <2>1, <1>0, <1>1, <1>2
      <3>2. /\ strlen(dol_argv[n]) \in Nat /\ Chars(dol_argv[n]) \in Seq(Char)
            /\ Len(Chars(dol_argv[n])) = strlen(dol_argv[n]) + 1
        BY <3>1, <1>1, ArgumentIs
      <3>3. Total[n] = Total[n - 1] + strlen(dol_argv[n]) + 1 /\ Total[n - 1] \in Nat
        <4>1. n \in Nat \ {0} /\ n - 1 \in 0..dol_argc
          BY <3>1, <1>1
        <4> QED
          BY <4>1, <1>1, TotalIs, TotalGrows
      <3>4. /\ commandLine' \in Seq(Char)
            /\ Len(commandLine') = Len(commandLine) + Len(Chars(dol_argv[n]))
        <4> DEFINE c == Chars(dol_argv[n])
        <4>1. c \in Seq(Char) /\ commandLine \in Seq(Char) /\ commandLine' = commandLine \o c
          BY <3>1, <3>2, <1>2
        <4> HIDE DEF c
        <4>2. commandLine' \in Seq(Char) /\ Len(commandLine') = Len(commandLine) + Len(c)
          BY <4>1, ConcatProperties
        <4> QED
          BY <4>2 DEF c
      <3>5. n' - 1 = n /\ n' \in 1..(dol_argc + 1)
        BY <3>1, <1>1
      <3>6. Len(commandLine') = Total[n] - 1
        <4> DEFINE w == strlen(dol_argv[n])
                   t == Total[n - 1]
        <4>1. Len(commandLine') = (t - 1) + (w + 1)
          BY <3>2, <3>4, <1>2
        <4>2. Total[n] = t + w + 1 /\ t \in Nat /\ w \in Nat
          BY <3>2, <3>3
        <4> HIDE DEF w, t
        <4> QED
          BY <4>1, <4>2
      <3>7. Len(commandLine') = Total[n' - 1] - 1
        BY <3>5, <3>6
      <3> QED
        BY <3>1, <3>4, <3>5, <3>7
    <2>2. CASE ~(n <= dol_argc)
      <3>1. n = dol_argc + 1
        BY <2>2, <1>1, <1>2
      <3>2. n - 1 = dol_argc /\ Total[dol_argc] \in Nat
        BY <3>1, <1>1, TotalGrows
      <3>3. Len(commandLine) = length - 1
        BY <3>2, <1>2
      <3>4. commandLine' = Append(commandLine, "nul") /\ pc' = "done" /\ n' = n
        BY <2>2, <1>0
      <3>5. commandLine' \in Seq(Char) /\ Len(commandLine') = Len(commandLine) + 1
        BY <3>4, <1>2 DEF Char
      <3> QED
        BY <3>2, <3>3, <3>4, <3>5, <1>2
    <2> QED
      BY <2>1, <2>2
  <1>t. touched' \subseteq Int
    BY TouchedType DEF Next
  <1>4. TypeOK'
    BY <1>t, <1>0, <1>3 DEF CliInv, TypeOK
  <1>5. BufferInv'
    BY <1>0 DEF CliInv, BufferInv, Scanned
  <1>6. TextInv'
    BY <1>0 DEF CliInv, TextInv, Scanned
  <1>7. ArgsInv'
    <2>1. Sites' = Sites /\ Base' = Base /\ dol_argc' = dol_argc
      BY <1>0 DEF Sites, Seen, IsSite, Base, dol_argc
    <2> QED
      BY <2>1, <1>0 DEF CliInv, ArgsInv, Scanned, Parsed
  <1>8. PackInv'
    <2>1. Total' = Total /\ dol_argc' = dol_argc
      BY <1>0, TotalSame DEF dol_argc
    <2> QED
      BY <2>1, <1>0, <1>2, <1>3 DEF PackInv
  <1> QED
    BY <1>4, <1>5, <1>6, <1>7, <1>8 DEF CliInv

-----------------------------------------------------------------------------
\* What holds at every step: where the loop has found arguments so far and how much
\* of the command line they make up.
THEOREM CliInvariant == Spec => []CliInv
  <1>1. CliInv /\ UNCHANGED vars => CliInv'
    <2> SUFFICES ASSUME CliInv, UNCHANGED vars PROVE CliInv'
      OBVIOUS
    <2>0. UNCHANGED <<file_size, alloc, text, before, cli, size, i, dol_argv, length,
                      commandLine, n, pc, touched>>
      BY DEF vars, parse, pack, memory
    <2>1. TypeOK' /\ BufferInv' /\ TextInv'
      BY <2>0 DEF CliInv, TypeOK, BufferInv, TextInv, Scanned
    <2>2. Sites' = Sites /\ Base' = Base /\ dol_argc' = dol_argc
      BY <2>0 DEF Sites, Seen, IsSite, Base, dol_argc
    <2>3. Total' = Total
      BY <2>0, TotalSame
    <2>4. ArgsInv'
      BY <2>0, <2>2 DEF CliInv, ArgsInv, Scanned, Parsed
    <2>5. PackInv'
      BY <2>0, <2>2, <2>3 DEF CliInv, PackInv
    <2> QED
      BY <2>1, <2>4, <2>5 DEF CliInv
  <1>2. CliInv /\ Scan => CliInv'
    BY ScanPasses, ScanFinds
  <1>3. CliInv /\ [Next]_vars => CliInv'
    BY <1>1, <1>2, AllocInv, ReadInv, TerminateInv, FirstArgInv, ScanEndInv, MeasureInv, CopyInv
    DEF Next
  <1> QED
    BY InitInv, <1>3, PTL DEF Spec

\* Up to the loop only bytes of the buffer are touched; the loop touches the one before
\* it where the text does not begin with an end of line.
TouchInv ==
    /\ pc \in {"alloc", "none", "read"} => touched = {}
    /\ pc # "overrun" => touched \subseteq {-1} \cup 0..(alloc - 1)
    /\ -1 \in touched => Scanned /\ text[0] # "eol"

LEMMA TouchStep == CliInv /\ TouchInv /\ [Next]_vars => TouchInv'
  <1> SUFFICES ASSUME CliInv, TouchInv, [Next]_vars PROVE TouchInv'
    OBVIOUS
  <1>1. Touches
    BY StepTouches
  <1>2. /\ touched \subseteq Int /\ size \in Nat /\ i \in 0..size /\ alloc \in Nat
        /\ pc \in {"alloc", "read", "none", "overrun", "terminate", "first", "scan",
                   "measure", "copy", "done"}
    BY CliParseAssumption DEF CliInv, TypeOK
  <1>3. CASE pc \in {"alloc", "none", "overrun"}
    <2>1. Alloc \/ UNCHANGED vars
      BY <1>3 DEF Next, ReadCli, Terminate, FirstArg, Scan, ScanEnd, Measure, Copy
    <2>2. touched' = touched
      BY <2>1 DEF Alloc, vars
    <2>3. CASE Alloc
      BY <2>2, <2>3, <1>2 DEF Alloc, TouchInv
    <2>4. CASE UNCHANGED vars
      BY <2>2, <2>4, <1>2 DEF vars, parse, memory, TouchInv, Scanned
    <2> QED
      BY <2>1, <2>3, <2>4
  <1>4. CASE pc \notin {"alloc", "none", "overrun"}
    <2>1. size > 0
      BY <1>4 DEF CliInv, BufferInv
    <2>2. /\ alloc' = alloc
          /\ ~(pc' \in {"alloc", "none"})
          /\ pc' = "read" => touched' = touched /\ pc = "read"
          /\ Scanned => text' = text /\ Scanned' /\ pc' # "overrun"
          /\ pc' = "overrun" => pc = "read"
      BY <1>2, <1>4 DEF Next, Alloc, ReadCli, Terminate, FirstArg, Scan, ScanEnd, Measure, Copy,
             vars, parse, pack, memory, Scanned
    <2>3. CASE touched' = touched /\ ~Scanned
      BY <2>2, <2>3, <1>2, <1>4 DEF TouchInv
    <2>4. CASE touched' = touched /\ Scanned
      BY <2>2, <2>4, <1>2, <1>4 DEF TouchInv, Scanned
    <2>5. CASE pc = "read" /\ touched' = touched \cup 0..(size - 1)
      <3>1. touched' = 0..(size - 1)
        BY <2>5 DEF TouchInv
      <3>2. pc' # "overrun" => size < alloc
        <4>1. ReadCli \/ UNCHANGED vars
          BY <2>5 DEF Next, Alloc, Terminate, FirstArg, Scan, ScanEnd, Measure, Copy
        <4>2. pc' # "overrun" => ~(size > alloc) \/ touched' = touched
          BY <4>1 DEF ReadCli, vars
        <4>3. touched' # touched
          BY <2>1, <1>2, <2>5, <3>1 DEF TouchInv
        <4>4. ~(size > alloc) => size < alloc
          <5>1. size \in 0..(Word - 1) /\ alloc = (size + 1) % Word
            BY <2>5 DEF CliInv, TypeOK, BufferInv
          <5> QED
            BY <5>1, <2>1, Wraps, CliParseAssumption
        <4> QED
          BY <4>2, <4>3, <4>4
      <3> QED
        BY <3>1, <3>2, <2>1, <2>2, <1>2, <2>5 DEF TouchInv
    <2>6. CASE pc = "terminate" /\ touched' \subseteq touched \cup {size - 1, size}
      <3>1. size < alloc
        BY <2>6 DEF CliInv, BufferInv
      <3>2. ~(-1 \in touched) /\ touched \subseteq 0..(alloc - 1)
        BY <2>6 DEF TouchInv, Scanned
      <3>3. touched' \subseteq 0..(alloc - 1)
        BY <3>1, <3>2, <2>1, <2>6, <1>2
      <3> QED
        BY <3>3, <2>2, <2>6, <1>2 DEF TouchInv
    <2>7. CASE pc = "first" /\ touched' = touched \cup {0}
      <3>1. size <= alloc
        BY <2>7 DEF CliInv, BufferInv
      <3>2. ~(-1 \in touched) /\ touched \subseteq 0..(alloc - 1)
        BY <2>7 DEF TouchInv, Scanned
      <3>3. touched' \subseteq 0..(alloc - 1)
        BY <3>1, <3>2, <2>1, <2>7, <1>2
      <3> QED
        BY <3>3, <2>2, <2>7, <1>2 DEF TouchInv
    <2>8. ASSUME Scanned, NEW T, touched' \subseteq touched \cup T,
                 T \subseteq {-1} \cup 0..(size - 1), -1 \in T => text[0] # "eol"
          PROVE  TouchInv'
      <3>1. size <= alloc
        BY <2>8 DEF CliInv, BufferInv
      <3>2. touched \subseteq {-1} \cup 0..(alloc - 1)
        BY <2>8 DEF TouchInv, Scanned
      <3>3. touched' \subseteq {-1} \cup 0..(alloc - 1)
        BY <3>1, <3>2, <2>8, <1>2
      <3>4. -1 \in touched' => text[0] # "eol"
        BY <2>8 DEF TouchInv
      <3>5. Scanned' /\ text' = text /\ alloc' = alloc
        BY <2>2, <2>8
      <3>6. pc' \notin {"alloc", "none", "read"}
        BY <3>5 DEF Scanned
      <3> QED
        BY <3>3, <3>4, <3>5, <3>6 DEF TouchInv
    <2>9. CASE pc = "scan" /\ i < size /\ touched' = touched \cup {i}
      <3>1. {i} \subseteq {-1} \cup 0..(size - 1) /\ ~(-1 \in {i}) /\ Scanned
        BY <2>9, <1>2 DEF Scanned
      <3> QED
        BY <3>1, <2>8, <2>9
    <2>10. CASE /\ pc = "scan" /\ i < size /\ cli[i] # "eol"
                /\ touched' = touched \cup {i - 1, i}
      <3>1. {i - 1, i} \subseteq {-1} \cup 0..(size - 1) /\ Scanned
        BY <2>10, <1>2 DEF Scanned
      <3>2. -1 \in {i - 1, i} => i = 0
        BY <1>2
      <3>3. i = 0 => text[0] # "eol"
        BY <2>10, AtSite
      <3> QED
        BY <3>1, <3>2, <3>3, <2>8, <2>10
    <2>11. CASE Parsed /\ touched' \subseteq touched \cup 0..(size - 1)
      <3>1. Scanned /\ ~(-1 \in 0..(size - 1))
        BY <2>11, <1>2 DEF Parsed, Scanned
      <3> QED
        BY <3>1, <2>8, <2>11
    <2> QED
      BY <1>1, <2>3, <2>4, <2>5, <2>6, <2>7, <2>9, <2>10, <2>11 DEF Touches
  <1> QED
    BY <1>3, <1>4

LEMMA TouchInvariant == Spec => []TouchInv
  <1>1. Init => TouchInv
    BY DEF Init, TouchInv
  <1> QED
    BY <1>1, TouchStep, CliInvariant, PTL DEF Spec

\* The variables keep their types for any file and any limit; above all, an argument
\* is the path or lies in the buffer.
THEOREM CliTypes == Spec => []TypeOK
  <1>1. CliInv => TypeOK
    BY DEF CliInv
  <1> QED
    BY <1>1, CliInvariant, PTL

\* Neither parsing nor packing leaves its buffers, but for the look at the byte before
\* a text that does not begin with an end of line, and the packed arguments fill theirs,
\* whatever the file is, however long it says to be and wherever malloc fails.
THEOREM BuffersFit == Spec => []PackFits
  <1>1. ASSUME CliInv, TouchInv PROVE PackFits
    <2>1. pc \in {"read", "overrun", "terminate"} => size \in 0..(Word - 1) /\ alloc \in 0..Memory
      BY <1>1 DEF CliInv, TypeOK
    <2>2. pc \in {"read", "overrun"} => alloc = (size + 1) % Word /\ size = file_size % Word
      BY <1>1 DEF CliInv, BufferInv
    <2>3. pc \in {"read", "overrun"} => size < alloc \/ size = Word - 1
      BY <2>1, <2>2, Wraps
    <2>4. pc = "overrun" => file_size % Word = Word - 1
      <3>1. pc = "overrun" => size > alloc
        BY <1>1 DEF CliInv, BufferInv
      <3>2. pc = "overrun" => size = Word - 1
        BY <3>1, <2>1, <2>3
      <3> QED
        BY <3>2, <2>2
    <2>5. /\ pc # "overrun" => touched \subseteq {-1} \cup 0..(alloc - 1)
          /\ -1 \in touched => text[0] # "eol"
      BY <1>1 DEF TouchInv
    <2>6. dol_argc <= MaxNumArgv
      <3>1. dol_argv \in Seq({Path} \cup 0..(size - 1))
        BY <1>1 DEF CliInv, TypeOK
      <3>2. dol_argc \in Nat
        BY <3>1 DEF dol_argc
      <3>3. ~Scanned => dol_argc = 0
        BY <1>1 DEF CliInv, ArgsInv, dol_argc, Scanned
      <3>4. Scanned => dol_argc < MaxNumArgv \/ dol_argc = MaxNumArgv
        BY <1>1 DEF CliInv, ArgsInv, Scanned, Parsed
      <3> QED
        BY <3>2, <3>3, <3>4, CliParseAssumption
    <2>7. pc = "copy" => Len(commandLine) < length
      <3> SUFFICES ASSUME pc = "copy" PROVE Len(commandLine) < length
        OBVIOUS
      <3>1. /\ length = Total[dol_argc] /\ n \in 1..(dol_argc + 1)
            /\ Len(commandLine) = Total[n - 1] - 1
        BY <1>1 DEF CliInv, PackInv
      <3>2. dol_argc \in Nat
        <4>1. dol_argv \in Seq({Path} \cup 0..(size - 1))
          BY <1>1 DEF CliInv, TypeOK
        <4> QED
          BY <4>1 DEF dol_argc
      <3>3. n - 1 \in 0..dol_argc /\ dol_argc \in 0..dol_argc
        BY <3>1, <3>2
      <3>4. /\ Total[n - 1] \in Nat /\ Total[dol_argc] \in Nat
            /\ n - 1 # dol_argc => Total[n - 1] < Total[dol_argc]
        BY <1>1, <3>3, TotalGrows DEF Parsed
      <3> QED
        BY <3>1, <3>4
    <2>8. pc = "done" => Len(commandLine) = length
      BY <1>1 DEF CliInv, PackInv
    <2> QED
      BY <2>4, <2>5, <2>6, <2>7, <2>8 DEF PackFits
  <1> QED
    BY <1>1, CliInvariant, TouchInvariant, PTL

-----------------------------------------------------------------------------
(* The arguments are the lines.                                            *)

Starts(j) == text[j] # "eol" /\ (j = 0 \/ text[j - 1] # "char")

\* What the parser has left of a text, and which arguments it has found there.
LEMMA ParsedText ==
    ASSUME CliInv, Parsed, IsText
    PROVE  /\ size \in Nat /\ size > 1 /\ i \in 0..size /\ dol_argc \in Nat
           /\ Seen \in 1..size /\ Seen - 1 \in 0..(size - 1)
           /\ \A k \in 0..(size - 1) : text[k] \in Char
           /\ cli[size - 1] = "nul" /\ text[size - 1] = "nul"
           /\ \A k \in 0..(size - 1) : text[k] = "nul" => k = size - 1
           /\ \A k \in 0..(i - 1) : cli[k] = "nul" <=> text[k] # "char"
           /\ \A k \in i..(size - 1) : cli[k] = text[k]
  <1>1. /\ size \in 0..(Word - 1) /\ size > 0 /\ i \in 0..size
        /\ text \in [0..(size - 1) -> Char]
        /\ cli[size - 1] = "nul" /\ text[size - 1] = "nul"
        /\ dol_argv \in Seq({Path} \cup 0..(size - 1))
    BY TextTypes DEF Parsed, Scanned
  <1>2. text[0] # "nul" /\ \A k \in 0..(size - 2) : text[k] # "nul"
    BY DEF IsText
  <1>3. size > 1
    BY <1>1, <1>2
  <1>4. \A k \in 0..(size - 1) : text[k] = "nul" => k = size - 1
    <2> TAKE k \in 0..(size - 1)
    <2>1. k \in 0..(size - 2) \/ k = size - 1
      BY <1>1
    <2> QED
      BY <2>1, <1>2
  <1>5. \A k \in 0..(size - 1) :
           cli[k] = IF k < i /\ text[k] = "eol" THEN "nul" ELSE text[k]
    BY DEF CliInv, TextInv, Parsed, Scanned
  <1>6. \A k \in 0..(i - 1) : cli[k] = "nul" <=> text[k] # "char"
    <2> TAKE k \in 0..(i - 1)
    <2>1. k \in 0..(size - 1) /\ k < i
      BY <1>1
    <2>2. text[k] \in Char
      BY <2>1, <1>1
    <2> QED
      BY <2>1, <2>2, <1>5 DEF Char
  <1>7. \A k \in i..(size - 1) : cli[k] = text[k]
    <2> TAKE k \in i..(size - 1)
    <2>1. k \in 0..(size - 1) /\ ~(k < i)
      BY <1>1
    <2> QED
      BY <2>1, <1>5
  <1>8. dol_argc \in Nat
    BY <1>1 DEF dol_argc
  <1>9. \/ dol_argc < MaxNumArgv /\ i = size
        \/ dol_argc = MaxNumArgv /\ i < size
    BY DEF CliInv, ArgsInv
  <1>10. Seen \in 1..size /\ Seen - 1 \in 0..(size - 1)
    BY <1>1, <1>8, <1>9, CliParseAssumption DEF Seen
  <1> QED
    BY <1>1, <1>3, <1>4, <1>6, <1>7, <1>8, <1>10

LEMMA ParsedArgs ==
    ASSUME CliInv, Parsed, Regular
    PROVE  /\ \A k \in 2..dol_argc : dol_argv[k] \in 0..(Seen - 1) /\ Starts(dol_argv[k])
           /\ \A k, l \in 2..dol_argc : k < l => dol_argv[k] < dol_argv[l]
           /\ \A j \in 0..(Seen - 1) : Starts(j) => \E k \in 2..dol_argc : dol_argv[k] = j
  <1>1. IsText /\ before # "nul"
    BY DEF Regular
  <1>2. /\ Base = 2 => dol_argv[2] = 0
        /\ dol_argc >= Base
        /\ \A k \in (Base + 1)..dol_argc : dol_argv[k] \in Sites
        /\ \A k, l \in (Base + 1)..dol_argc : k < l => dol_argv[k] < dol_argv[l]
        /\ \A j \in Sites : \E k \in (Base + 1)..dol_argc : dol_argv[k] = j
    BY DEF CliInv, ArgsInv, Parsed, Scanned
  <1>3. Seen \in 1..size /\ size \in Nat /\ dol_argc \in Nat
    BY <1>1, ParsedText
  <1>4. \A j \in 0..(Seen - 1) : j \in Sites <=> Starts(j) /\ j # 0
    BY <1>1 DEF Sites, IsSite, Starts
  <1>5. \A j \in Sites : j \in 0..(Seen - 1)
    BY DEF Sites
  <1>6. \/ Base = 2 /\ text[0] # "eol"
        \/ Base = 1 /\ text[0] = "eol"
    BY DEF Base
  <1> HIDE DEF Base, Sites, Seen
  <1>7. ASSUME NEW k \in 2..dol_argc
        PROVE  dol_argv[k] \in 0..(Seen - 1) /\ Starts(dol_argv[k])
    <2>1. CASE k \in (Base + 1)..dol_argc
      BY <2>1, <1>2, <1>4, <1>5
    <2>2. CASE k \notin (Base + 1)..dol_argc
      <3>1. Base = 2 /\ k = 2 /\ text[0] # "eol" /\ dol_argv[k] = 0
        BY <2>2, <1>2, <1>3, <1>6
      <3> QED
        BY <3>1, <1>3 DEF Starts
    <2> QED
      BY <2>1, <2>2
  <1>8. ASSUME NEW k \in 2..dol_argc, NEW l \in 2..dol_argc, k < l
        PROVE  dol_argv[k] < dol_argv[l]
    <2>1. CASE k \in (Base + 1)..dol_argc
      <3>1. l \in (Base + 1)..dol_argc
        BY <2>1, <1>8, <1>3, <1>6
      <3> QED
        BY <2>1, <3>1, <1>2, <1>8
    <2>2. CASE k \notin (Base + 1)..dol_argc
      <3>1. dol_argv[k] = 0 /\ l \in (Base + 1)..dol_argc
        BY <2>2, <1>8, <1>2, <1>3, <1>6
      <3>2. dol_argv[l] \in 0..(Seen - 1) /\ dol_argv[l] # 0
        BY <3>1, <1>2, <1>4, <1>5
      <3> QED
        BY <3>1, <3>2, <1>3
    <2> QED
      BY <2>1, <2>2
  <1>9. ASSUME NEW j \in 0..(Seen - 1), Starts(j)
        PROVE  \E k \in 2..dol_argc : dol_argv[k] = j
    <2>1. CASE j = 0
      <3>1. Base = 2 /\ dol_argv[2] = 0 /\ 2 \in 2..dol_argc
        BY <2>1, <1>2, <1>3, <1>6, <1>9 DEF Starts
      <3> QED
        BY <2>1, <3>1
    <2>2. CASE j # 0
      <3>1. PICK k \in (Base + 1)..dol_argc : dol_argv[k] = j
        BY <2>2, <1>2, <1>4, <1>9
      <3>2. k \in 2..dol_argc
        BY <3>1, <1>3, <1>6
      <3> QED
        BY <3>1, <3>2
    <2> QED
      BY <2>1, <2>2
  <1> QED
    BY <1>7, <1>8, <1>9

\* A string that starts at a line and sees what is an end there is the line.
LEMMA LineOf ==
    ASSUME CliInv, Parsed, IsText, NEW a \in 0..(size - 1), Starts(a), text[a] = "char",
           \A k \in a..End(a) : cli[k] = "nul" <=> text[k] # "char"
    PROVE  <<a, End(a)>> \in Lines
  <1> DEFINE e == End(a)
  <1>1. size \in Nat /\ cli[size - 1] = "nul"
    BY ParsedText
  <1>2. e \in a..(size - 1) /\ cli[e] = "nul" /\ \A k \in a..(e - 1) : cli[k] # "nul"
    <2>1. a \in Nat /\ a < size
      BY <1>1
    <2> QED
      BY <2>1, <1>1, EndIs
  <1>3. \A k \in a..e : cli[k] = "nul" <=> text[k] # "char"
    OBVIOUS
  <1> HIDE DEF e
  <1>4. text[e] # "char" /\ a < e /\ e \in 0..size
    <2>1. a \in a..e /\ e \in a..e
      BY <1>1, <1>2
    <2>2. text[e] # "char" /\ cli[a] # "nul"
      BY <2>1, <1>2, <1>3
    <2> QED
      BY <2>2, <1>1, <1>2
  <1>5. \A k \in a..(e - 1) : text[k] = "char"
    BY <1>1, <1>2, <1>3
  <1>6. a = 0 \/ text[a - 1] # "char"
    BY DEF Starts
  <1>7. <<a, e>> \in (0..(size - 1)) \X (0..size)
    BY <1>4
  <1> HIDE DEF Starts
  <1>8. <<a, e>> \in Lines
    BY <1>4, <1>5, <1>6, <1>7 DEF Lines
  <1> QED
    BY <1>8 DEF e

LEMMA BelowTheLimit ==
    ASSUME CliInv, Parsed
    PROVE  ArgsAreLines
  <1> SUFFICES ASSUME Regular, dol_argc < MaxNumArgv PROVE
            /\ \A k \in 2..(dol_argc - 1) : dol_argv[k] < dol_argv[k + 1]
            /\ {Arg(k) : k \in {j \in 2..dol_argc : ~Empty(j)}} = Lines
            /\ \A k \in 2..dol_argc : Empty(k) => k = dol_argc
            /\ (dol_argc > 1 /\ Empty(dol_argc)) <=> (size > 1 /\ text[size - 2] = "eol")
    BY DEF ArgsAreLines
  <1>1. IsText
    BY DEF Regular
  <1>2. i = size /\ Seen = size
    <2>1. dol_argc \in Nat /\ size \in Nat
      BY <1>1, ParsedText
    <2>2. i = size
      BY <2>1, CliParseAssumption DEF CliInv, ArgsInv
    <2> QED
      BY <2>1, <2>2, CliParseAssumption DEF Seen
  <1>3. /\ size \in Nat /\ size > 1 /\ dol_argc \in Nat
        /\ \A k \in 0..(size - 1) : text[k] \in Char
        /\ cli[size - 1] = "nul" /\ text[size - 1] = "nul"
        /\ \A k \in 0..(size - 1) : text[k] = "nul" => k = size - 1
        /\ \A k \in 0..(size - 1) : cli[k] = "nul" <=> text[k] # "char"
    BY <1>1, <1>2, ParsedText
  <1>4. /\ \A k \in 2..dol_argc : dol_argv[k] \in 0..(size - 1) /\ Starts(dol_argv[k])
        /\ \A k, l \in 2..dol_argc : k < l => dol_argv[k] < dol_argv[l]
        /\ \A j \in 0..(size - 1) : Starts(j) => \E k \in 2..dol_argc : dol_argv[k] = j
    BY <1>2, ParsedArgs
  <1>5. \A a \in 0..(size - 1) : End(a) \in a..(size - 1)
    <2> TAKE a \in 0..(size - 1)
    <2>1. a \in Nat /\ a < size
      BY <1>3
    <2> QED
      BY <2>1, <1>3, EndIs
  <1>6. \A a \in 0..(size - 1) : a = End(a) <=> text[a] # "char"
    <2> TAKE a \in 0..(size - 1)
    <2>1. a \in Nat /\ a < size
      BY <1>3
    <2>2. /\ End(a) \in a..(size - 1) /\ cli[End(a)] = "nul"
          /\ \A k \in a..(End(a) - 1) : cli[k] # "nul"
      BY <2>1, <1>3, EndIs
    <2>3. cli[a] = "nul" <=> text[a] # "char"
      BY <1>3
    <2>4. CASE a = End(a)
      BY <2>2, <2>3, <2>4
    <2>5. CASE a # End(a)
      <3>1. a \in a..(End(a) - 1)
        BY <2>1, <2>2, <2>5
      <3> QED
        BY <3>1, <2>2, <2>3, <2>5
    <2> QED
      BY <2>4, <2>5
  <1>7. \A k \in 2..dol_argc : Empty(k) <=> dol_argv[k] = size - 1
    <2> TAKE k \in 2..dol_argc
    <2> DEFINE a == dol_argv[k]
    <2>1. a \in 0..(size - 1) /\ text[a] # "eol" /\ (Empty(k) <=> a = End(a))
      BY <1>4 DEF Starts, Empty
    <2> HIDE DEF a
    <2>2. text[a] # "char" <=> a = size - 1
      <3>1. text[a] \in Char
        BY <2>1, <1>3
      <3>2. text[a] # "char" => text[a] = "nul"
        BY <3>1, <2>1 DEF Char
      <3> QED
        BY <3>2, <2>1, <1>3
    <2>3. Empty(k) <=> a = size - 1
      BY <2>1, <2>2, <1>6
    <2> QED
      BY <2>3 DEF a
  <1>8. \A k \in 2..(dol_argc - 1) : dol_argv[k] < dol_argv[k + 1]
    <2> TAKE k \in 2..(dol_argc - 1)
    <2>1. k \in 2..dol_argc /\ k + 1 \in 2..dol_argc /\ k < k + 1
      BY <1>3
    <2> QED
      BY <2>1, <1>4
  <1>9. \A k \in 2..dol_argc : Empty(k) => k = dol_argc
    <2> TAKE k \in 2..dol_argc
    <2> HAVE Empty(k)
    <2>1. dol_argv[k] = size - 1
      BY <1>7
    <2> SUFFICES ASSUME k # dol_argc PROVE FALSE
      OBVIOUS
    <2>2. dol_argc \in 2..dol_argc /\ k < dol_argc
      BY <1>3
    <2>3. dol_argv[k] < dol_argv[dol_argc] /\ dol_argv[dol_argc] \in 0..(size - 1)
      BY <2>2, <1>4
    <2> QED
      BY <2>1, <2>3, <1>3
  <1>10. (dol_argc > 1 /\ Empty(dol_argc)) <=> (size > 1 /\ text[size - 2] = "eol")
    <2>0. size - 2 \in 0..(size - 1) /\ size - 1 \in 0..(size - 1) /\ size - 2 # size - 1
          /\ (size - 1) - 1 = size - 2 /\ size - 1 # 0
      BY <1>3
    <2>1. ASSUME dol_argc > 1, Empty(dol_argc) PROVE text[size - 2] = "eol"
      <3>1. dol_argc \in 2..dol_argc
        BY <2>1, <1>3
      <3>2. Starts(size - 1)
        BY <3>1, <2>1, <1>4, <1>7
      <3>3. text[size - 2] # "char"
        BY <3>2, <2>0 DEF Starts
      <3> QED
        BY <3>3, <2>0, <1>3 DEF Char
    <2>2. ASSUME text[size - 2] = "eol" PROVE dol_argc > 1 /\ Empty(dol_argc)
      <3>1. Starts(size - 1)
        BY <2>2, <2>0, <1>3 DEF Starts
      <3>2. PICK k \in 2..dol_argc : dol_argv[k] = size - 1
        BY <3>1, <2>0, <1>4
      <3>3. Empty(k)
        BY <3>2, <1>7
      <3>4. k = dol_argc
        BY <3>3, <1>9
      <3>5. dol_argc > 1
        BY <3>2, <1>3
      <3> QED
        BY <3>3, <3>4, <3>5
    <2> QED
      BY <2>1, <2>2, <1>3
  <1>11. ASSUME NEW k \in 2..dol_argc, ~Empty(k)
         PROVE  Arg(k) \in Lines
    <2> DEFINE a == dol_argv[k]
    <2>1. a \in 0..(size - 1) /\ Starts(a) /\ a # End(a) /\ Arg(k) = <<a, End(a)>>
      BY <1>4, <1>11 DEF Empty, Arg
    <2> HIDE DEF a
    <2>2. text[a] = "char"
      BY <2>1, <1>6
    <2>3. \A l \in a..End(a) : cli[l] = "nul" <=> text[l] # "char"
      <3>1. End(a) \in a..(size - 1)
        BY <2>1, <1>5
      <3> QED
        BY <3>1, <2>1, <1>3
    <2>4. <<a, End(a)>> \in Lines
      BY <2>1, <2>2, <2>3, <1>1, LineOf
    <2> QED
      BY <2>1, <2>4
  <1>12. ASSUME NEW r \in Lines
         PROVE  \E k \in {j \in 2..dol_argc : ~Empty(j)} : r = Arg(k)
    <2> DEFINE a == r[1]
               e == r[2]
    <2>1. /\ r = <<a, e>> /\ a \in 0..(size - 1) /\ e \in 0..size /\ a < e
          /\ \A l \in a..(e - 1) : text[l] = "char"
          /\ a = 0 \/ text[a - 1] # "char"
          /\ e = size \/ text[e] # "char"
      BY DEF Lines
    <2> HIDE DEF a, e
    <2>2. text[a] = "char"
      <3>1. a \in a..(e - 1)
        BY <2>1, <1>3
      <3> QED
        BY <3>1, <2>1
    <2>3. e # size
      <3>1. size - 1 \in a..(e - 1) \/ e # size
        BY <2>1, <1>3
      <3> QED
        BY <3>1, <2>1, <1>3
    <2>4. End(a) = e
      <3>1. a \in Nat /\ a < size /\ e \in a..(size - 1) /\ e \in 0..(size - 1)
        BY <2>1, <2>3, <1>3
      <3>2. cli[e] = "nul"
        BY <3>1, <2>1, <2>3, <1>3
      <3>3. \A l \in a..(e - 1) : cli[l] # "nul"
        <4> TAKE l \in a..(e - 1)
        <4>1. l \in 0..(size - 1)
          BY <3>1, <2>1, <1>3
        <4> QED
          BY <4>1, <2>1, <1>3
      <3> QED
        BY <3>1, <3>2, <3>3, <1>3, EndIsOnly
    <2>5. Starts(a)
      BY <2>1, <2>2 DEF Starts
    <2>6. PICK k \in 2..dol_argc : dol_argv[k] = a
      BY <2>1, <2>5, <1>4
    <2>7. ~Empty(k)
      BY <2>1, <2>4, <2>6, <1>3 DEF Empty
    <2>8. r = Arg(k)
      BY <2>1, <2>4, <2>6 DEF Arg
    <2> QED
      BY <2>6, <2>7, <2>8
  <1>13. {Arg(k) : k \in {j \in 2..dol_argc : ~Empty(j)}} = Lines
    <2> HIDE DEF Arg, Empty, Lines
    <2> QED
      BY <1>11, <1>12
  <1> QED
    BY <1>8, <1>9, <1>10, <1>13

LEMMA AtTheLimit ==
    ASSUME CliInv, Parsed
    PROVE  LastArgTakesRest
  <1> SUFFICES ASSUME Regular, dol_argc = MaxNumArgv PROVE
            /\ \A k \in 2..(dol_argc - 1) : Arg(k) \in Lines
            /\ End(dol_argv[dol_argc]) = size - 1
    BY DEF LastArgTakesRest
  <1>1. IsText
    BY DEF Regular
  <1>2. i < size /\ dol_argv[dol_argc] = i /\ Seen = i + 1
    BY CliParseAssumption DEF CliInv, ArgsInv, Seen
  <1>3. /\ size \in Nat /\ size > 1 /\ i \in 0..size /\ dol_argc \in Nat /\ dol_argc > 2
        /\ \A k \in 0..(size - 1) : text[k] \in Char
        /\ cli[size - 1] = "nul" /\ text[size - 1] = "nul"
        /\ \A k \in 0..(size - 1) : text[k] = "nul" => k = size - 1
        /\ \A k \in 0..(i - 1) : cli[k] = "nul" <=> text[k] # "char"
        /\ \A k \in i..(size - 1) : cli[k] = text[k]
    BY <1>1, ParsedText, CliParseAssumption
  <1>4. /\ \A k \in 2..dol_argc : dol_argv[k] \in 0..i /\ Starts(dol_argv[k])
        /\ \A k, l \in 2..dol_argc : k < l => dol_argv[k] < dol_argv[l]
    <2>1. (i + 1) - 1 = i
      BY <1>3
    <2> QED
      BY <2>1, <1>2, ParsedArgs
  <1>5. i > 0 /\ i - 1 \in 0..(size - 1) /\ i - 1 \in 0..(i - 1)
    <2>1. 2 \in 2..dol_argc /\ dol_argc \in 2..dol_argc /\ 2 < dol_argc
      BY <1>3
    <2>2. dol_argv[2] < i /\ dol_argv[2] \in 0..i
      BY <2>1, <1>2, <1>4
    <2> QED
      BY <2>2, <1>2, <1>3
  <1>6. cli[i - 1] = "nul"
    <2>1. Starts(i)
      <3>1. dol_argc \in 2..dol_argc
        BY <1>3
      <3> QED
        BY <3>1, <1>2, <1>4
    <2>2. text[i - 1] # "char"
      BY <2>1, <1>5, <1>3 DEF Starts
    <2> QED
      BY <2>2, <1>3, <1>5
  <1>7. ASSUME NEW k \in 2..(dol_argc - 1)
        PROVE  Arg(k) \in Lines
    <2> DEFINE a == dol_argv[k]
    <2>1. a \in 0..i /\ Starts(a) /\ a < i /\ Arg(k) = <<a, End(a)>>
      <3>1. k \in 2..dol_argc /\ dol_argc \in 2..dol_argc /\ k < dol_argc
        BY <1>3
      <3>2. dol_argv[k] \in 0..i /\ Starts(dol_argv[k]) /\ dol_argv[k] < i
        BY <3>1, <1>2, <1>4
      <3> QED
        BY <3>2 DEF Arg
    <2> HIDE DEF a
    <2>2. a \in 0..(size - 1) /\ a # size - 1 /\ a \in Nat /\ a < size
      BY <2>1, <1>2, <1>3
    <2>3. text[a] = "char"
      <3>1. text[a] # "eol" /\ text[a] # "nul" /\ text[a] \in Char
        BY <2>1, <2>2, <1>3 DEF Starts
      <3> QED
        BY <3>1 DEF Char
    <2>4. End(a) \in a..(i - 1)
      <3>1. /\ End(a) \in a..(size - 1)
            /\ \A l \in a..(End(a) - 1) : cli[l] # "nul"
        BY <2>2, <1>3, EndIs
      <3>2. ~(i - 1 \in a..(End(a) - 1))
        BY <3>1, <1>6
      <3> QED
        BY <3>1, <3>2, <2>1, <2>2, <1>3
    <2>5. \A l \in a..End(a) : cli[l] = "nul" <=> text[l] # "char"
      <3> TAKE l \in a..End(a)
      <3>1. l \in 0..(i - 1)
        BY <2>2, <2>4, <1>3
      <3> QED
        BY <3>1, <1>3
    <2>6. <<a, End(a)>> \in Lines
      BY <2>1, <2>2, <2>3, <2>5, <1>1, LineOf
    <2> QED
      BY <2>1, <2>6
  <1>8. End(i) = size - 1
    <2>1. i \in Nat /\ size - 1 \in i..(size - 1)
      BY <1>2, <1>3
    <2>2. \A k \in i..((size - 1) - 1) : cli[k] # "nul"
      <3> TAKE k \in i..((size - 1) - 1)
      <3>1. k \in 0..(size - 1) /\ k \in i..(size - 1) /\ k # size - 1
        BY <1>2, <1>3
      <3> QED
        BY <3>1, <1>3
    <2> QED
      BY <2>1, <2>2, <1>2, <1>3, EndIsOnly
  <1> QED
    BY <1>2, <1>7, <1>8

LEMMA BehindANul ==
    ASSUME CliInv, Parsed
    PROVE  FirstArgTwice
  <1> SUFFICES ASSUME IsText, before = "nul" PROVE
            /\ \A k \in 2..(dol_argc - 1) : dol_argv[k] < dol_argv[k + 1] \/ dol_argv[k + 1] = 0
            /\ text[0] # "eol" => dol_argv[2] = 0 /\ dol_argv[3] = 0
            /\ \A k \in 4..dol_argc : dol_argv[k] > 0
    BY DEF FirstArgTwice
  <1>1. /\ Base = 2 => dol_argv[2] = 0
        /\ dol_argc >= Base
        /\ \A k \in (Base + 1)..dol_argc : dol_argv[k] \in Sites
        /\ \A k, l \in (Base + 1)..dol_argc : k < l => dol_argv[k] < dol_argv[l]
        /\ \A j \in Sites : \E k \in (Base + 1)..dol_argc : dol_argv[k] = j
    BY DEF CliInv, ArgsInv, Parsed, Scanned
  <1>2. Seen \in 1..size /\ size \in Nat /\ dol_argc \in Nat
    BY ParsedText
  <1>3. /\ \A j \in Sites : j \in Nat
        /\ text[0] # "eol" => 0 \in Sites
    BY <1>2 DEF Sites, IsSite
  <1>4. \/ Base = 2 /\ text[0] # "eol"
        \/ Base = 1 /\ text[0] = "eol"
    BY DEF Base
  <1> HIDE DEF Base, Sites, Seen
  <1>5. \A k \in 2..(dol_argc - 1) : dol_argv[k] < dol_argv[k + 1] \/ dol_argv[k + 1] = 0
    <2> TAKE k \in 2..(dol_argc - 1)
    <2>1. CASE k \in (Base + 1)..dol_argc
      <3>1. k + 1 \in (Base + 1)..dol_argc /\ k < k + 1
        BY <2>1, <1>2, <1>4
      <3> QED
        BY <3>1, <2>1, <1>1
    <2>2. CASE k \notin (Base + 1)..dol_argc
      <3>1. Base = 2 /\ k = 2 /\ k + 1 \in (Base + 1)..dol_argc
        BY <2>2, <1>2, <1>4
      <3>2. dol_argv[k] = 0 /\ dol_argv[k + 1] \in Nat
        BY <3>1, <1>1, <1>3
      <3> QED
        BY <3>2
    <2> QED
      BY <2>1, <2>2
  <1>6. ASSUME text[0] # "eol" PROVE dol_argv[2] = 0 /\ dol_argv[3] = 0
    <2>1. Base = 2 /\ dol_argv[2] = 0 /\ 0 \in Sites
      BY <1>6, <1>1, <1>3, <1>4
    <2>2. PICK k \in 3..dol_argc : dol_argv[k] = 0
      BY <2>1, <1>1
    <2>3. 3 \in 3..dol_argc
      BY <2>2, <1>2
    <2>4. 3 < k => dol_argv[3] < 0
      BY <2>1, <2>2, <2>3, <1>1
    <2>5. dol_argv[3] \in Nat
      BY <2>1, <2>3, <1>1, <1>3
    <2>6. k = 3
      BY <2>2, <2>4, <2>5, <1>2
    <2> QED
      BY <2>1, <2>2, <2>6
  <1>7. ASSUME NEW k \in 4..dol_argc PROVE dol_argv[k] > 0
    <2>1. /\ 3 \in (Base + 1)..dol_argc /\ k \in (Base + 1)..dol_argc /\ 3 < k
      BY <1>2, <1>4
    <2>2. dol_argv[3] < dol_argv[k] /\ dol_argv[3] \in Nat /\ dol_argv[k] \in Nat
      BY <2>1, <1>1, <1>3
    <2> QED
      BY <2>2
  <1> QED
    BY <1>5, <1>6, <1>7

\* The arguments are the lines of the file, whatever text it has: below the limit all
\* of them; at the limit those before the last, which has the rest; and the first one
\* twice where there is a NUL before the buffer.
THEOREM ArgumentsAreLines == Spec => []ArgsParsed
  <1>1. CliInv => ArgsParsed
    BY BelowTheLimit, AtTheLimit, BehindANul DEF ArgsParsed
  <1> QED
    BY <1>1, CliInvariant, PTL

=============================================================================
