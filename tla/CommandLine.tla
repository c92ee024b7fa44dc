---------------------------- MODULE CommandLine ----------------------------
(***************************************************************************)
(* What ps2client makes of its command line (main in src/ps2client.c) and  *)
(* how it packs a program's arguments (fix_argv in src/utility.c).  A word *)
(* of the command line is known by what the code asks of it.               *)
(***************************************************************************)
EXTENDS Integers, Sequences

CONSTANTS
    Words,   \* word -> length (strlen), number (parse_number), atoi, regtype (parse_regtype)
    Room     \* the 256 bytes for a program's arguments

\* Minimum number of arguments of each command.
Args ==
    [reset |-> 0, resetcheck |-> 0, execiop |-> 1, execee |-> 1, poweroff |-> 0, scrdump |-> 0,
     netdump |-> 0, dumpmem |-> 3, startvu |-> 1, stopvu |-> 1, dumpreg |-> 2, gsexec |-> 2,
     writemem |-> 3, iopexcep |-> 0, listen |-> 0, ping |-> 0, console |-> 0]

ASSUME WordsAssumption ==
    /\ \A w \in DOMAIN Words :
         /\ Words[w].length \in Nat /\ Words[w].atoi \in Int
         /\ Words[w].number \in BOOLEAN /\ Words[w].regtype \in BOOLEAN
    /\ "" \in DOMAIN Words => Words[""].length = 0
    /\ Room \in Nat \ {0}

Options == {"-h", "-t", "-e"}
NoOptions == [next |-> 1, host |-> "", timeout |-> -1, marker |-> "", bad |-> FALSE]

\* An option without the value it needs.
NoValue(argv, i) == i = Len(argv) \/ (argv[i] = "-e" /\ argv[i + 1] = "")

\* One turn of the loop over the options: an option and its value.
TakeOption(argv, s) ==
    LET i == s.next
        value == argv[i + 1]
    IN  IF NoValue(argv, i) THEN [s EXCEPT !.bad = TRUE]
        ELSE [s EXCEPT !.next = i + 2,
                       !.host = IF argv[i] = "-h" THEN value ELSE @,
                       !.timeout = IF argv[i] = "-t" THEN Words[value].atoi ELSE @,
                       !.marker = IF argv[i] = "-e" THEN value ELSE @]

\* The loop: it ends at a word that is no option, at the last word, or with an error.
ParseOptions(argv) ==
    LET after[k \in 0..Len(argv)] ==
          IF k = 0 THEN NoOptions
          ELSE LET s == after[k - 1]
               IN  IF s.bad \/ s.next > Len(argv) THEN s
                   ELSE IF argv[s.next] \notin Options THEN s ELSE TakeOption(argv, s)
    IN  after[Len(argv)]

\* Mutant: as many bytes are counted as there is room for.
CountedShort(w) == IF Words[w].length < Room THEN Words[w].length ELSE Room - 1
\* strnlen(argument, 257)
Counted(w) == IF Words[w].length < Room + 1 THEN Words[w].length ELSE Room + 1

\* The bytes of a program's arguments with a null after each.
ArgumentsLength(args) ==
    LET sum[k \in 0..Len(args)] == IF k = 0 THEN 0 ELSE sum[k - 1] + Counted(args[k]) + 1
    IN  sum[Len(args)]

\* fix_argv: the bytes used, or -1 when the arguments do not fit.
FixArgv(args) ==
    LET used[k \in 0..Len(args)] ==
          IF k = 0 THEN 0
          ELSE LET now == used[k - 1] + Words[args[k]].length + 1
               IN  IF used[k - 1] = -1 \/ now > Room THEN -1 ELSE now
    IN  used[Len(args)]

\* The switch over the commands that look at their arguments.
ArgumentsOk(command, args) ==
    CASE command \in {"dumpmem", "writemem"}          -> Words[args[1]].number /\ Words[args[2]].number
      [] command = "dumpreg"                          -> Words[args[1]].regtype
      [] command \in {"execiop", "execee"}            -> ArgumentsLength(args) <= Room
      [] command \in {"startvu", "stopvu", "gsexec"}  -> Words[args[1]].number
      [] command = "resetcheck"                       -> args = <<>>
      [] OTHER                                        -> TRUE

ArgumentsOf(argv) == SubSeq(argv, ParseOptions(argv).next + 1, Len(argv))

\* The command to perform, or "usage".
CommandOf(argv) ==
    LET s == ParseOptions(argv)
        command == argv[s.next]
        args == ArgumentsOf(argv)
    IN  IF s.bad \/ s.next > Len(argv) THEN "usage"
        ELSE IF command \notin DOMAIN Args THEN "usage"
        ELSE IF Len(args) < Args[command] THEN "usage"
        ELSE IF ArgumentsOk(command, args) THEN command ELSE "usage"
----------------------------------------------------------------------------
(* What the usage text says of it: options come in pairs, the first word   *)
(* in an odd place that is none is the command, the last -t counts, and    *)
(* an option lacks its value only as the last word (or, -e, when empty).   *)

OddPlaces(argv) == {i \in DOMAIN argv : i % 2 = 1}
CommandPlace(argv) ==
    {i \in OddPlaces(argv) : /\ argv[i] \notin Options
                             /\ \A j \in OddPlaces(argv) : j < i => argv[j] \in Options}
\* The pairs of an option that are read before the command or the end.
Given(argv, option) ==
    {i \in OddPlaces(argv) : /\ argv[i] = option /\ i < Len(argv)
                             /\ \A j \in OddPlaces(argv) : j <= i => argv[j] \in Options}
LastTimeout(argv) ==
    IF Given(argv, "-t") = {} THEN -1
    ELSE LET i == CHOOSE i \in Given(argv, "-t") : \A j \in Given(argv, "-t") : j <= i
         IN  Words[argv[i + 1]].atoi
EmptyMarker(argv) == \E i \in Given(argv, "-e") : argv[i + 1] = ""

OptionsAreRight(argv) ==
    LET s == ParseOptions(argv)
    IN  /\ (s.bad \/ s.next > Len(argv)) <=> (CommandPlace(argv) = {} \/ EmptyMarker(argv))
        /\ ~s.bad => s.timeout = LastTimeout(argv)
        /\ ~s.bad /\ s.next <= Len(argv) => s.next \in CommandPlace(argv)

\* What main lets through fits, and what it refuses for its length does not.
LengthsAgree(argv) ==
    LET s == ParseOptions(argv)
    IN  ~s.bad /\ s.next <= Len(argv) =>
          LET args == ArgumentsOf(argv)
          IN  ArgumentsLength(args) <= Room <=> FixArgv(args) # -1
=============================================================================
