------------------------------- MODULE FitArgs -------------------------------
(****************************************************************************)
(* How main (src/fit.c) shares one argument list with the test it calls: it *)
(* scans all of it with getopt, puts NULL over what it takes for its own,   *)
(* closes the gaps with compactArgv and gives the test what is left.        *)
(*                                                                          *)
(* An argument is a string; a dashed one is known by its letters, of which  *)
(* the last may be a value written without a space, as in -I5.              *)
(****************************************************************************)
EXTENDS Integers, Sequences, SequencesExt

CONSTANTS
  Letters,            \* the letters of every dashed argument
  CommandLines,       \* what the user may type after "fit": sequences of phrases
  FitPhrases,         \* the phrases that are options of fit
  Null,
  MAX_RECURS_DEPTH

\* What the user types is a list of words, and a dashed word has a letter at least.
ASSUME ArgsAssumption ==
  /\ \A phrases \in CommandLines : phrases \in Seq(Seq(STRING) \ {<<>>})
  /\ \A word \in DOMAIN Letters : Letters[word] \in Seq(STRING) \ {<<>>}
  /\ Null \notin STRING \cup {"fit", "serial"}
  /\ {"fit", "serial"} \cap DOMAIN Letters = {}

Own == {"L", "F", "V", "I"}
OneLetter(p) == Len(Letters[p[1]]) = 1

\* A phrase is an option of fit with its value, or an argument of the test and its value,
\* of which no word is an option of fit.
ASSUME PhrasesAssumption ==
  \A phrases \in CommandLines : \A i \in DOMAIN phrases :
    LET p == phrases[i]
    IN  IF p \in FitPhrases
          THEN /\ p[1] \in DOMAIN Letters
               /\ OneLetter(p) => /\ Letters[p[1]][1] \in Own
                                  /\ Len(p) = IF Letters[p[1]][1] = "I" THEN 2 ELSE 1
          ELSE \A j \in DOMAIN p :
                 p[j] \in DOMAIN Letters => ToSet(Letters[p[j]]) \cap Own = {}

VARIABLES
  typed,              \* the phrases the user typed
  argv, argc,         \* argv[argc] is NULL, and so are the entries beyond
  optind, nextchar,   \* where getopt is: an argument, and letters left of it
  own, optI,          \* the options that main found, and the value of -I
  argsAt, depth       \* main: scan, compact, found, refused or "recursion"

args == <<typed, argv, argc, optind, nextchar, own, optI, argsAt, depth>>

\* A sequence as a C array that ends in NULL.
CArray(s) == [i \in 0..Len(s) |-> IF i < Len(s) THEN s[i + 1] ELSE Null]

ArgsInit ==
  /\ typed \in CommandLines
  /\ LET words == <<"fit", "serial">> \o FlattenSeq(typed)
     IN  argv = CArray(words) /\ argc = Len(words)
  /\ optind = 1 /\ nextchar = <<>> /\ own = {} /\ optI = Null
  /\ argsAt = "scan" /\ depth = 0

\* One call of getopt, asked to return words in their place (the leading "-"), over the n
\* arguments of v: the letter, word, "?" or end it returns, optarg, and where it is then.
GetOpt(v, n, ind, next, plain, valued) ==
  LET s == IF next # <<>> THEN next ELSE Letters[v[ind]]
      after == IF Len(s) = 1 THEN ind + 1 ELSE ind
  IN  IF next = <<>> /\ ind >= n
        THEN [c |-> "end", optarg |-> Null, ind |-> ind, next |-> <<>>]
      ELSE IF next = <<>> /\ v[ind] \notin DOMAIN Letters
        THEN [c |-> "word", optarg |-> v[ind], ind |-> ind + 1, next |-> <<>>]
      ELSE IF Head(s) \in valued /\ Len(s) > 1
        THEN [c |-> Head(s), optarg |-> s[2], ind |-> ind + 1, next |-> <<>>]
      ELSE IF Head(s) \in valued /\ after < n
        THEN [c |-> Head(s), optarg |-> v[after], ind |-> after + 1, next |-> <<>>]
      ELSE [c |-> IF Head(s) \in plain THEN Head(s) ELSE "?", optarg |-> Null,
            ind |-> after, next |-> Tail(s)]

\* Mutant: the -I before a value stays.
TakenOnlyValue(c) == IF c = "end" \/ c \notin {"L", "F", "V", "I"} THEN {} ELSE {1}

\* How far before optind main puts NULL: of a cluster of letters, all but the last
\* find the argument before, and so does -I when its value is in the same argument.
Taken(c) ==
  CASE c \in {"L", "F", "V"} -> {1}
    [] c = "I" -> {1, 2}
    [] OTHER -> {}

\* One turn of the loop over main's options; the end of them, with optind = 0.
Scan ==
  /\ argsAt = "scan"
  /\ LET o == GetOpt(argv, argc, optind, nextchar, {"L", "F", "V"}, {"I"})
         gone == {o.ind - k : k \in Taken(o.c)}
     IN  /\ argv' = [i \in DOMAIN argv |-> IF i \in gone THEN Null ELSE argv[i]]
         /\ own' = IF gone = {} THEN own ELSE own \cup {o.c}
         /\ optI' = IF o.c = "I" THEN o.optarg ELSE optI
         /\ optind' = IF o.c = "end" THEN 0 ELSE o.ind
         /\ nextchar' = o.next
         /\ argsAt' = IF o.c = "end" THEN "compact" ELSE "scan"
  /\ UNCHANGED <<typed, argc, depth>>

NullFound(v, n) == \E i \in 0..n - 1 : v[i] = Null

\* The loop of compactArgv: every NULL is swapped with its successor, so that the first one
\* ends up behind the last argument and what was behind it moves by one.
OnePass(v, n) ==
  [i \in DOMAIN v |-> IF i > n \/ ~NullFound(v, i + 1) THEN v[i] ELSE IF i < n THEN v[i + 1] ELSE Null]

\* Mutant: one pass is thought to be enough.
CompactOnce ==
  /\ argsAt = "compact"
  /\ argv' = OnePass(argv, argc)
  /\ argc' = IF NullFound(argv, argc) THEN argc - 1 ELSE argc
  /\ argsAt' = "found"
  /\ UNCHANGED <<typed, optind, nextchar, own, optI, depth>>

\* A call of compactArgv; main looks for the test by the name it has kept.
Compact ==
  /\ argsAt = "compact"
  /\ \/ /\ depth >= MAX_RECURS_DEPTH
        /\ argsAt' = "recursion"
        /\ UNCHANGED <<argv, argc, depth>>
     \/ /\ depth < MAX_RECURS_DEPTH /\ NullFound(argv, argc)
        /\ argv' = OnePass(argv, argc)
        /\ argc' = IF argc > 1 /\ argv'[argc - 1] = Null THEN argc - 1 ELSE argc
        /\ depth' = depth + 1
        /\ UNCHANGED argsAt
     \/ /\ depth < MAX_RECURS_DEPTH /\ ~NullFound(argv, argc)
        /\ argsAt' = "found"
        /\ UNCHANGED <<argv, argc, depth>>
  /\ UNCHANGED <<typed, optind, nextchar, own, optI>>

\* What the test is called with: argv[j] and the arguments behind it.
testArgv == [i \in 0..argc - 1 |-> argv[i + 1]]
testArgc == argc - 1

------------------------------------------------------------------------------
\* The arguments of the test end where argc says and hold no NULL before, whatever was
\* typed: its own getopt would follow a NULL (the HACK comment of main).
NoHoles ==
  argsAt = "found" =>
    /\ argv[argc] = Null
    /\ \A i \in 0..argc - 1 : argv[i] # Null

\* Options of fit that are typed one by one reach fit, wherever they stand among those of
\* the test, and the test sees its name and exactly its own arguments in their order.
OneByOne == \A i \in DOMAIN typed : typed[i] \in FitPhrases => OneLetter(typed[i])
mine == [i \in DOMAIN typed |-> IF typed[i] \in FitPhrases THEN <<>> ELSE typed[i]]
TestGetsItsOwn ==
  (argsAt = "found" /\ OneByOne) =>
    /\ [i \in 1..testArgc |-> testArgv[i - 1]] = <<"serial">> \o FlattenSeq(mine)
    /\ own = {Letters[p[1]][1] : p \in ToSet(typed) \cap FitPhrases}
===============================================================================
