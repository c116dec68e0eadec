------------------------------ MODULE CliParse ------------------------------
(***************************************************************************)
(* The arguments of a DOL: load_parse_cli of source/main.c allocates and   *)
(* reads a CLI file and splits it into dol_argv in place, and main packs   *)
(* dol_argv into the one buffer that the stub hands to the DOL.            *)
(*                                                                         *)
(* A character is an ordinary one, an end of line ('\r' or '\n'), or NUL.  *)
(* Offsets into cli count from 0, as in the code.  f_size has 64 bits, a   *)
(* size_t 32.                                                              *)
(***************************************************************************)
EXTENDS Integers, Sequences

CONSTANTS
    MaxNumArgv,   \* MAX_NUM_ARGV: 1024 in the code
    Word,         \* values of a size_t: 2^32 in the code
    FileSizes,    \* bound: sizes of CLI files
    Memory        \* bound: bytes that malloc can hand out for a CLI file

ASSUME CliParseAssumption ==
    /\ MaxNumArgv \in Nat /\ MaxNumArgv > 2
    /\ Word \in Nat \ {0}
    /\ FileSizes \subseteq Nat
    /\ Memory \in Nat /\ Memory < Word - 1

Char    == {"char", "eol", "nul"}
Path    == -1                          \* the pointer to the path, "/x.cli"
PathLen == 2                           \* a length for that string

VARIABLES
    file_size,
    alloc,       \* bytes allocated at cli
    text,        \* what f_read left in cli: any bytes, if it failed
    before,      \* cli[-1]: outside the buffer
    cli, size, i,
    dol_argv,    \* offsets into cli, or Path
    pc,
    touched,     \* history: the offsets from cli that were read or written so far
    length,      \* dolargs.length
    commandLine, \* the characters copied so far
    n            \* the argument copied next

memory == <<file_size, alloc>>
parse == <<memory, text, before, cli, size, i, dol_argv>>
pack  == <<length, commandLine, n>>
vars  == <<parse, pack, pc, touched>>

dol_argc == Len(dol_argv)

TypeOK ==
    /\ file_size \in FileSizes /\ alloc \in 0..Memory
    /\ size \in 0..(Word - 1)
    /\ text \in [DOMAIN cli -> Char]
    /\ cli \in [0..((IF pc \in {"alloc", "read", "none", "overrun"} THEN 0 ELSE size) - 1) -> Char]
    /\ before \in Char
    /\ i \in 0..size
    /\ dol_argv \in Seq({Path} \cup 0..(size - 1))
    /\ pc \in {"alloc", "read", "none", "overrun", "terminate", "first", "scan",
              "measure", "copy", "done"}
    /\ touched \subseteq Int
    /\ length \in Nat
    /\ commandLine \in Seq(Char)
    /\ n \in Nat

Init ==
    /\ file_size \in FileSizes /\ alloc = 0
    /\ size = file_size % Word
    /\ text = [k \in {} |-> "nul"] /\ cli = text
    /\ before \in Char
    /\ i = 0
    /\ dol_argv = <<>>
    /\ pc = "alloc"
    /\ touched = {}
    /\ length = 0 /\ commandLine = <<>> /\ n = 1

\* cli[k - 1]; at k = 0 that is outside the buffer.
Previous(k) == IF k = 0 THEN before ELSE cli[k - 1]

\* The program reads or writes these bytes, counted from cli.
Touch(offsets) == touched' = touched \cup offsets

-----------------------------------------------------------------------------
(* Mistakes one could make here, for the mutants of PROJECT.json.           *)

Terminate_SizeKept ==
    /\ pc = "terminate"
    /\ cli' = IF cli[size - 1] # "nul"
              THEN [k \in 0..size |-> IF k < size THEN cli[k] ELSE "nul"]
              ELSE cli
    /\ text' = cli'
    /\ pc' = "first"
    /\ Touch(IF cli[size - 1] # "nul" THEN {size - 1, size} ELSE {size - 1})
    /\ UNCHANGED <<memory, before, size, i, dol_argv, pack>>

FirstArg_Always ==
    /\ pc = "first"
    /\ dol_argv' = <<Path, 0>>
    /\ pc' = "scan"
    /\ Touch({0})
    /\ UNCHANGED <<memory, text, before, cli, size, i, pack>>

Alloc_NoSpare ==
    /\ pc = "alloc"
    /\ \/ pc' = "none" /\ UNCHANGED alloc
       \/ /\ size # 0
          /\ alloc' = size
          /\ alloc' <= Memory
          /\ pc' = "read"
    /\ UNCHANGED <<file_size, text, before, cli, size, i, dol_argv, pack, touched>>

-----------------------------------------------------------------------------
(* load_parse_cli                                                          *)

\* An empty file and one too large have no arguments, not even the path.  One more
\* byte is allocated than the file has; malloc(0) hands out a buffer, too.
Alloc ==
    /\ pc = "alloc"
    /\ \/ pc' = "none" /\ UNCHANGED alloc
       \/ /\ size # 0
          /\ alloc' = (size + 1) % Word
          /\ alloc' <= Memory
          /\ pc' = "read"
    /\ UNCHANGED <<file_size, text, before, cli, size, i, dol_argv, pack, touched>>

\* f_read of size bytes, or of some, or of none: its result is not looked at, and what
\* malloc found in the buffer is parsed where nothing was read.
ReadCli ==
    /\ pc = "read"
    /\ IF size > alloc
       THEN pc' = "overrun" /\ UNCHANGED text
       ELSE pc' = "terminate" /\ text' \in [0..(size - 1) -> Char]
    /\ cli' = text'
    /\ Touch(0..(size - 1))
    /\ UNCHANGED <<memory, before, size, i, dol_argv, pack>>

\* A NUL is put behind the text unless it ends in one; text then has it, too.
Terminate ==
    /\ pc = "terminate"
    /\ IF cli[size - 1] # "nul"
       THEN /\ cli' = [k \in 0..size |-> IF k < size THEN cli[k] ELSE "nul"]
            /\ size' = size + 1
            /\ Touch({size - 1, size})
       ELSE Touch({size - 1}) /\ UNCHANGED <<cli, size>>
    /\ text' = cli'
    /\ pc' = "first"
    /\ UNCHANGED <<memory, before, i, dol_argv, pack>>

FirstArg ==
    /\ pc = "first"
    /\ dol_argv' = IF cli[0] # "eol" THEN <<Path, 0>> ELSE <<Path>>
    /\ pc' = "scan"
    /\ Touch({0})
    /\ UNCHANGED <<memory, text, before, cli, size, i, pack>>

\* One turn of the loop.  At i = 0 it looks at cli[-1].
Scan ==
    /\ pc = "scan"
    /\ i < size
    /\ \/ /\ cli[i] = "eol"
          /\ cli' = [cli EXCEPT ![i] = "nul"]
          /\ i' = i + 1
          /\ Touch({i})
          /\ UNCHANGED <<dol_argv, pc>>
       \/ /\ cli[i] # "eol" /\ Previous(i) # "nul"
          /\ i' = i + 1
          /\ Touch({i - 1, i})
          /\ UNCHANGED <<cli, dol_argv, pc>>
       \/ /\ cli[i] # "eol" /\ Previous(i) = "nul"
          /\ dol_argv' = Append(dol_argv, i)
          /\ IF dol_argc + 1 >= MaxNumArgv
             THEN pc' = "measure" /\ UNCHANGED i
             ELSE i' = i + 1 /\ UNCHANGED pc
          /\ Touch({i - 1, i})
          /\ UNCHANGED cli
    /\ UNCHANGED <<memory, text, before, size, pack>>

ScanEnd ==
    /\ pc = "scan"
    /\ i = size
    /\ pc' = "measure"
    /\ UNCHANGED <<parse, pack, touched>>

-----------------------------------------------------------------------------
(* main packs the arguments                                                *)

\* strlen: up to the first NUL.
End(a)    == CHOOSE e \in a..(size - 1) :
                 cli[e] = "nul" /\ \A k \in a..(e - 1) : cli[k] # "nul"
strlen(a) == IF a = Path THEN PathLen ELSE End(a) - a

\* What of cli is looked at in an argument: all of it, and the NUL.
Bytes(a) == IF a = Path THEN {} ELSE a..End(a)

\* The length: each argument with its NUL, and one byte more.
Total[k \in Nat] == IF k = 0 THEN 1 ELSE Total[k - 1] + strlen(dol_argv[k]) + 1

\* malloc may fail; the DOL is then started without arguments.
Measure ==
    /\ pc = "measure"
    /\ \/ /\ length' = Total[dol_argc]
          /\ pc' = "copy"
       \/ /\ length' = 0
          /\ pc' = "done"
    /\ Touch(UNION {Bytes(dol_argv[k]) : k \in 1..dol_argc})
    /\ UNCHANGED <<parse, commandLine, n>>

\* memcpy of one argument with its NUL; the byte left over is a NUL at the end.
Chars(a) ==
    [k \in 1..(strlen(a) + 1) |->
        IF k = strlen(a) + 1 THEN "nul"
        ELSE IF a = Path THEN "char" ELSE cli[a + k - 1]]

Copy ==
    /\ pc = "copy"
    /\ IF n <= dol_argc
       THEN /\ commandLine' = commandLine \o Chars(dol_argv[n])
            /\ n' = n + 1
            /\ Touch(Bytes(dol_argv[n]))
            /\ UNCHANGED pc
       ELSE /\ commandLine' = Append(commandLine, "nul")
            /\ pc' = "done"
            /\ UNCHANGED <<n, touched>>
    /\ UNCHANGED <<parse, length>>

Next == Alloc \/ ReadCli \/ Terminate \/ FirstArg \/ Scan \/ ScanEnd \/ Measure \/ Copy
Spec == Init /\ [][Next]_vars

-----------------------------------------------------------------------------
(* Correctness.                                                            *)

Lines == {r \in (0..(size - 1)) \X (0..size) :
              /\ r[1] < r[2]
              /\ \A k \in r[1]..(r[2] - 1) : text[k] = "char"
              /\ r[1] = 0 \/ text[r[1] - 1] # "char"
              /\ r[2] = size \/ text[r[2]] # "char"}
Arg(k) == <<dol_argv[k], End(dol_argv[k])>>
Empty(k) == dol_argv[k] = End(dol_argv[k])
Parsed == pc \in {"measure", "copy", "done"}

\* What the parser takes for granted: a text without NULs but the last character,
\* and, in Regular, none just before the buffer either.
IsText  == text[0] # "nul" /\ \A k \in 0..(size - 2) : text[k] # "nul"
Regular == before # "nul" /\ IsText

\* Of a text file without a NUL before it: below the limit, the arguments are the
\* lines that are not empty, in their order, and an empty one at the end if the file
\* ends with an end of line.
ArgsAreLines ==
    Regular /\ dol_argc < MaxNumArgv =>
        /\ \A k \in 2..(dol_argc - 1) : dol_argv[k] < dol_argv[k + 1]
        /\ {Arg(k) : k \in {j \in 2..dol_argc : ~Empty(j)}} = Lines
        /\ \A k \in 2..dol_argc : Empty(k) => k = dol_argc
        /\ (dol_argc > 1 /\ Empty(dol_argc)) <=> (size > 1 /\ text[size - 2] = "eol")

\* At the limit the loop stops before it has ended the last argument: that one
\* takes in the rest of the file, and only those before it are lines.
LastArgTakesRest ==
    Regular /\ dol_argc = MaxNumArgv =>
        /\ \A k \in 2..(dol_argc - 1) : Arg(k) \in Lines
        /\ End(dol_argv[dol_argc]) = size - 1

\* The look at cli[-1] does no more harm than to give the first argument twice.
FirstArgTwice ==
    IsText /\ before = "nul" =>
        /\ \A k \in 2..(dol_argc - 1) : dol_argv[k] < dol_argv[k + 1] \/ dol_argv[k + 1] = 0
        /\ text[0] # "eol" => dol_argv[2] = 0 /\ dol_argv[3] = 0
        /\ \A k \in 4..dol_argc : dol_argv[k] > 0

\* The arguments that the parser leaves in dol_argv are those of the file, in all
\* three cases.
ArgsParsed == Parsed => ArgsAreLines /\ LastArgTakesRest /\ FirstArgTwice

\* Whatever bytes the file has, nothing outside of the buffers is touched, but for one
\* byte that is read: not of cli, which is allocated with a byte to spare for the NUL,
\* unless that addition wraps around, and of which the loop looks at the byte before it
\* (main.c:118 at i = 0), where the text does not begin with an end of line; not of
\* dol_argv, though only the loop looks at its limit; and the packed arguments fill
\* their buffer exactly, with no byte left uninitialized.
PackFits ==
    /\ pc = "overrun" => file_size % Word = Word - 1
    /\ pc # "overrun" => touched \subseteq {-1} \cup 0..(alloc - 1)
    /\ -1 \in touched => text[0] # "eol"
    /\ dol_argc <= MaxNumArgv
    /\ pc = "copy" => Len(commandLine) < length
    /\ pc = "done" => Len(commandLine) = length
=============================================================================
