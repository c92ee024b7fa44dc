------------------------- MODULE CommandLineProofs -------------------------
(***************************************************************************)
(* What the parsing of the command line and the packing of arguments       *)
(* compute, for every command line.  The recursive functions of            *)
(* CommandLine run over the words one by one; facts about them are shown   *)
(* by induction over intervals, in the form of sets of numbers.            *)
(***************************************************************************)
EXTENDS CommandLine, WellFoundedInduction, TLAPS

\* Every non-empty set of naturals has a least element.
LEMMA LeastNat ==
    ASSUME NEW T \in SUBSET Nat, T # {}
    PROVE  \E x \in T : \A y \in T : x <= y
<1>1. IsWellFoundedOn(OpToRel(<, Nat), Nat)
  BY NatLessThanWellFounded
<1>2. PICK x \in T : \A y \in T : <<y, x>> \notin OpToRel(<, Nat)
  BY <1>1, WFMin
<1>3. \A y \in T : ~ (y < x)
  BY <1>2 DEF OpToRel
<1> QED
  BY <1>3

\* Induction over 0..n: a set with 0 that is closed under successor has all of it.
LEMMA IntervalInduction ==
    ASSUME NEW n \in Nat, NEW G,
           0 \in G,
           \A k \in 1..n : k - 1 \in G => k \in G
    PROVE  \A k \in 0..n : k \in G
<1> SUFFICES ASSUME {k \in 0..n : k \notin G} # {}
             PROVE  FALSE
  OBVIOUS
<1>1. PICK m \in {k \in 0..n : k \notin G} : \A k \in {k \in 0..n : k \notin G} : m <= k
  <2> DEFINE T == {k \in 0..n : k \notin G}
  <2>1. T \in SUBSET Nat
    OBVIOUS
  <2> HIDE DEF T
  <2>2. T # {} => \E x \in T : \A y \in T : x <= y
    BY <2>1, LeastNat
  <2> QED
    BY <2>2 DEF T
<1>2. m \in 1..n
  BY <1>1
<1>3. m - 1 \in G
  BY <1>1, <1>2
<1> QED
  BY <1>1, <1>2, <1>3

\* f is what n steps make of c, one after the other.
Iterates(f, n, S, c, step) ==
    f \in [0..n -> S] /\ f[0] = c /\ \A k \in 1..n : f[k] = step[k][f[k - 1]]

\* A step function can be iterated n times.
LEMMA IterationExists ==
    ASSUME NEW n \in Nat, NEW S, NEW c \in S, NEW step \in [1..n -> [S -> S]]
    PROVE  \E f : Iterates(f, n, S, c, step)
<1> DEFINE Upto(f, m) == f[0] = c /\ \A k \in 1..m : f[k] = step[k][f[k - 1]]
           G == {m \in 0..n : \E f \in [0..m -> S] : Upto(f, m)}
<1>1. 0 \in G
  <2> DEFINE h == [k \in 0..0 |-> c]
  <2>1. h \in [0..0 -> S] /\ h[0] = c
    OBVIOUS
  <2> HIDE DEF h
  <2> QED
    BY <2>1
<1>2. ASSUME NEW m \in 1..n, m - 1 \in G
      PROVE  m \in G
  <2>1. PICK f \in [0..(m - 1) -> S] : Upto(f, m - 1)
    BY <1>2
  <2> DEFINE g == [k \in 0..m |-> IF k = m THEN step[m][f[m - 1]] ELSE f[k]]
  <2>2. step[m][f[m - 1]] \in S
    OBVIOUS
  <2>3. g \in [0..m -> S]
    BY <2>2
  <2>4. g[0] = c
    BY <2>1
  <2>5. \A k \in 1..m : g[k] = step[k][g[k - 1]]
    <3> SUFFICES ASSUME NEW k \in 1..m PROVE g[k] = step[k][g[k - 1]]
      OBVIOUS
    <3>1. g[k - 1] = f[k - 1]
      OBVIOUS
    <3>2. CASE k = m
      <4>1. g[m] = step[m][f[m - 1]]
        OBVIOUS
      <4> HIDE DEF g
      <4> QED
        BY <3>1, <3>2, <4>1
    <3>3. CASE k # m
      BY <2>1, <3>1, <3>3
    <3> QED
      BY <3>2, <3>3
  <2> HIDE DEF g
  <2>6. Upto(g, m)
    BY <2>4, <2>5
  <2> HIDE DEF Upto
  <2> QED
    BY <2>3, <2>6
<1> HIDE DEF G
<1>3. \A m \in 0..n : m \in G
  BY <1>1, <1>2, IntervalInduction
<1>4. n \in G
  BY <1>3
<1> QED
  BY <1>4 DEF G, Iterates
----------------------------------------------------------------------------
(* The room for a program's arguments.                                     *)

LEMMA RoomType == Room \in Nat /\ Room > 0
<1>1. Room \in Nat \ {0}
  BY WordsAssumption, Zenon
<1> QED
  BY <1>1

\* What is counted of a word, and its length, are numbers.
LEMMA WordTypes ==
    \A w \in DOMAIN Words :
      /\ Words[w].length \in Nat /\ Words[w].atoi \in Int
      /\ Counted(w) \in Nat
      /\ Counted(w) = Words[w].length \/ (Counted(w) = Room + 1 /\ Words[w].length > Room)
      /\ Room \in Nat
<1> SUFFICES ASSUME NEW w \in DOMAIN Words
             PROVE  /\ Words[w].length \in Nat /\ Words[w].atoi \in Int
                    /\ Counted(w) \in Nat
                    /\ Counted(w) = Words[w].length \/ (Counted(w) = Room + 1 /\ Words[w].length > Room)
                    /\ Room \in Nat
  OBVIOUS
<1>1. Words[w].length \in Nat /\ Words[w].atoi \in Int /\ Room \in Nat
  BY WordsAssumption
<1> QED
  BY <1>1 DEF Counted

\* main's sum: the bytes of the first k arguments.
LEMMA SumDefined ==
    ASSUME NEW args \in Seq(DOMAIN Words)
    PROVE  \E sum \in [0..Len(args) -> Nat] :
             /\ sum[0] = 0
             /\ \A k \in 1..Len(args) : sum[k] = sum[k - 1] + Counted(args[k]) + 1
             /\ ArgumentsLength(args) = sum[Len(args)]
<1> DEFINE n == Len(args)
           Eq(f) == f = [k \in 0..n |-> IF k = 0 THEN 0 ELSE f[k - 1] + Counted(args[k]) + 1]
           sum == CHOOSE f : Eq(f)
           step == [k \in 1..n |-> [v \in Nat |-> v + Counted(args[k]) + 1]]
<1>1. n \in Nat /\ \A k \in 1..n : Counted(args[k]) \in Nat
  BY WordTypes
<1>2. \E f : Eq(f)
  <2>1. step \in [1..n -> [Nat -> Nat]]
    BY <1>1
  <2>2. ASSUME NEW k \in 1..n, NEW v \in Nat
        PROVE  step[k][v] = v + Counted(args[k]) + 1
    OBVIOUS
  <2> HIDE DEF step, n
  <2>3. PICK f : Iterates(f, n, Nat, 0, step)
    BY <1>1, <2>1, IterationExists
  <2>4. f \in [0..n -> Nat] /\ f[0] = 0 /\ \A k \in 1..n : f[k] = step[k][f[k - 1]]
    BY <2>3 DEF Iterates
  <2>5. ASSUME NEW k \in 1..n
        PROVE  f[k] = f[k - 1] + Counted(args[k]) + 1
    <3>1. k - 1 \in 0..n
      BY <1>1
    <3>2. f[k - 1] \in Nat
      BY <2>4, <3>1
    <3> QED
      BY <2>2, <2>4, <3>2
  <2>6. Eq(f)
    BY <1>1, <2>4, <2>5
  <2> HIDE DEF Eq
  <2> QED
    BY <2>6
<1>3. Eq(sum)
  BY <1>2
<1> HIDE DEF sum
<1>4. sum[0] = 0 /\ \A k \in 1..n : sum[k] = sum[k - 1] + Counted(args[k]) + 1
  BY <1>1, <1>3
<1>5. ArgumentsLength(args) = sum[n]
  BY DEF ArgumentsLength, sum
<1>6. \A k \in 0..n : sum[k] \in Nat
  <2> DEFINE G == {k \in 0..n : sum[k] \in Nat}
  <2>1. 0 \in G
    BY <1>1, <1>4
  <2>2. \A k \in 1..n : k - 1 \in G => k \in G
    BY <1>1, <1>4
  <2> HIDE DEF G
  <2>3. \A k \in 0..n : k \in G
    BY <1>1, <2>1, <2>2, IntervalInduction
  <2> QED
    BY <2>3 DEF G
<1>7. sum \in [0..n -> Nat]
  BY <1>3, <1>6
<1> QED
  BY <1>4, <1>5, <1>7

\* fix_argv's loop: the bytes that the first k arguments use, or -1.
LEMMA UsedDefined ==
    ASSUME NEW args \in Seq(DOMAIN Words)
    PROVE  \E used \in [0..Len(args) -> Int] :
             /\ used[0] = 0
             /\ \A k \in 1..Len(args) :
                  used[k] = IF \/ used[k - 1] = -1
                               \/ used[k - 1] + Words[args[k]].length + 1 > Room
                            THEN -1 ELSE used[k - 1] + Words[args[k]].length + 1
             /\ FixArgv(args) = used[Len(args)]
<1> DEFINE n == Len(args)
           Now(v, k) == v + Words[args[k]].length + 1
           Then(v, k) == IF v = -1 \/ Now(v, k) > Room THEN -1 ELSE Now(v, k)
           Eq(f) == f = [k \in 0..n |-> IF k = 0 THEN 0 ELSE Then(f[k - 1], k)]
           used == CHOOSE f : Eq(f)
           step == [k \in 1..n |-> [v \in Int |-> Then(v, k)]]
<1>1. n \in Nat /\ Room \in Nat /\ \A k \in 1..n : Words[args[k]].length \in Nat
  BY RoomType, WordTypes
<1>2. \A k \in 1..n, v \in Int : Then(v, k) \in Int
  BY <1>1
<1>3. \E f : Eq(f) /\ f \in [0..n -> Int]
  <2>1. step \in [1..n -> [Int -> Int]]
    <3> HIDE DEF Then
    <3> QED
      BY <1>2
  <2>2. ASSUME NEW k \in 1..n, NEW v \in Int
        PROVE  step[k][v] = Then(v, k)
    <3> HIDE DEF Then
    <3> QED
      OBVIOUS
  <2> HIDE DEF step, n, Then
  <2>3. PICK f : Iterates(f, n, Int, 0, step)
    <3> DEFINE S == Int
               c == 0
    <3>1. n \in Nat /\ c \in S /\ step \in [1..n -> [S -> S]]
      BY <1>1, <2>1
    <3> HIDE DEF S, c
    <3>2. \E f : Iterates(f, n, S, c, step)
      BY <3>1, IterationExists
    <3> QED
      BY <3>2 DEF S, c
  <2>4. f \in [0..n -> Int] /\ f[0] = 0 /\ \A k \in 1..n : f[k] = step[k][f[k - 1]]
    BY <2>3 DEF Iterates
  <2>5. ASSUME NEW k \in 1..n
        PROVE  f[k] = Then(f[k - 1], k)
    <3>1. k - 1 \in 0..n
      BY <1>1
    <3>2. f[k - 1] \in Int
      BY <2>4, <3>1
    <3> QED
      BY <2>2, <2>4, <3>2
  <2>6. Eq(f)
    BY <1>1, <2>4, <2>5
  <2> HIDE DEF Eq
  <2> QED
    BY <2>4, <2>6
<1>4. Eq(used)
  <2> HIDE DEF Eq
  <2> QED
    BY <1>3
<1>5. FixArgv(args) = used[n]
  BY DEF FixArgv
<1> HIDE DEF used
<1>6. used[0] = 0 /\ \A k \in 1..n : used[k] = Then(used[k - 1], k)
  <2> HIDE DEF Then
  <2> QED
    BY <1>1, <1>4
<1>7. \A k \in 0..n : used[k] \in Int
  <2> DEFINE G == {k \in 0..n : used[k] \in Int}
  <2>1. 0 \in G
    BY <1>1, <1>6
  <2>2. ASSUME NEW k \in 1..n, k - 1 \in G
        PROVE  k \in G
    <3>1. Then(used[k - 1], k) \in Int
      BY <1>2, <2>2
    <3> HIDE DEF Then
    <3> QED
      BY <1>1, <1>6, <3>1
  <2> HIDE DEF G
  <2>3. \A k \in 0..n : k \in G
    BY <1>1, <2>1, <2>2, IntervalInduction
  <2> QED
    BY <2>3 DEF G
<1>8. used \in [0..n -> Int]
  <2> HIDE DEF Then
  <2> QED
    BY <1>4, <1>7
<1> QED
  BY <1>5, <1>6, <1>8

\* main's count and fix_argv's agree on every list of arguments: what main lets through
\* fits into the 256 bytes, and what it refuses would not (src/ps2client.c, src/utility.c).
THEOREM LengthsOfArgumentsAgree ==
    \A args \in Seq(DOMAIN Words) :
      /\ ArgumentsLength(args) <= Room <=> FixArgv(args) # -1
      /\ FixArgv(args) # -1 => FixArgv(args) = ArgumentsLength(args)
<1> SUFFICES ASSUME NEW args \in Seq(DOMAIN Words)
             PROVE  /\ ArgumentsLength(args) <= Room <=> FixArgv(args) # -1
                    /\ FixArgv(args) # -1 => FixArgv(args) = ArgumentsLength(args)
  OBVIOUS
<1> DEFINE n == Len(args)
<1>1. PICK sum \in [0..n -> Nat] :
        /\ sum[0] = 0
        /\ \A k \in 1..n : sum[k] = sum[k - 1] + Counted(args[k]) + 1
        /\ ArgumentsLength(args) = sum[n]
  BY SumDefined
<1>2. PICK used \in [0..n -> Int] :
        /\ used[0] = 0
        /\ \A k \in 1..n :
             used[k] = IF \/ used[k - 1] = -1
                          \/ used[k - 1] + Words[args[k]].length + 1 > Room
                       THEN -1 ELSE used[k - 1] + Words[args[k]].length + 1
        /\ FixArgv(args) = used[n]
  BY UsedDefined
<1> DEFINE Agree(k) == IF used[k] = -1 THEN sum[k] > Room ELSE used[k] = sum[k] /\ sum[k] <= Room
           G == {k \in 0..n : Agree(k)}
<1>3. n \in Nat /\ Room \in Nat
  BY RoomType
<1>4. 0 \in G
  BY <1>1, <1>2, <1>3
<1>5. ASSUME NEW k \in 1..n, k - 1 \in G
      PROVE  k \in G
  <2>1. /\ Words[args[k]].length \in Nat /\ Counted(args[k]) \in Nat
        /\ Counted(args[k]) = Words[args[k]].length
             \/ (Counted(args[k]) = Room + 1 /\ Words[args[k]].length > Room)
    BY WordTypes
  <2>2. k - 1 \in 0..n /\ k \in 0..n /\ Agree(k - 1)
    BY <1>3, <1>5
  <2>3. sum[k - 1] \in Nat /\ sum[k] \in Nat /\ used[k - 1] \in Int /\ used[k] \in Int
    BY <2>2
  <2>4. sum[k] = sum[k - 1] + Counted(args[k]) + 1
    BY <1>1
  <2>5. used[k] = IF \/ used[k - 1] = -1
                     \/ used[k - 1] + Words[args[k]].length + 1 > Room
                  THEN -1 ELSE used[k - 1] + Words[args[k]].length + 1
    BY <1>2
  <2>6. Agree(k)
    BY <1>3, <2>1, <2>2, <2>3, <2>4, <2>5
  <2> QED
    BY <2>2, <2>6
<1> HIDE DEF G
<1>6. \A k \in 0..n : k \in G
  BY <1>3, <1>4, <1>5, IntervalInduction
<1>7. Agree(n) /\ sum[n] \in Nat
  BY <1>3, <1>6 DEF G
<1> QED
  BY <1>1, <1>2, <1>3, <1>7
----------------------------------------------------------------------------
(* The loop over the options.                                              *)

\* What the loop may know: where it is, and what it has read so far.
Readings(argv) ==
    [next : 1..(Len(argv) + 1), host : DOMAIN Words \cup {""}, timeout : Int,
     marker : DOMAIN Words \cup {""}, bad : BOOLEAN]

Stopped(argv, s) == s.bad \/ s.next > Len(argv) \/ argv[s.next] \notin Options
Turn(argv, s) ==
    IF s.bad \/ s.next > Len(argv) THEN s
    ELSE IF argv[s.next] \notin Options THEN s ELSE TakeOption(argv, s)

\* A turn of the loop that takes an option, field by field.
LEMMA TurnTakes ==
    ASSUME NEW argv \in Seq(DOMAIN Words), NEW s \in Readings(argv), ~Stopped(argv, s)
    PROVE  LET t == Turn(argv, s)
               i == s.next
           IN  /\ i \in 1..Len(argv) /\ argv[i] \in Options
               /\ NoValue(argv, i) => t = [s EXCEPT !.bad = TRUE]
               /\ ~NoValue(argv, i) =>
                    /\ i < Len(argv) /\ (argv[i] = "-e" => argv[i + 1] # "")
                    /\ t.next = i + 2 /\ t.bad = FALSE
                    /\ t.timeout = IF argv[i] = "-t" THEN Words[argv[i + 1]].atoi ELSE s.timeout
                    /\ t.host \in {s.host, argv[i + 1]} /\ t.marker \in {s.marker, argv[i + 1]}
                    /\ t = [next |-> t.next, host |-> t.host, timeout |-> t.timeout,
                            marker |-> t.marker, bad |-> t.bad]
<1> DEFINE t == Turn(argv, s)
           i == s.next
<1>0. Len(argv) \in Nat
  OBVIOUS
<1>1. i \in 1..Len(argv) /\ argv[i] \in Options /\ s.bad = FALSE
  <2>1. i \in 1..(Len(argv) + 1) /\ s.bad \in BOOLEAN
    BY DEF Readings
  <2>2. ~s.bad /\ ~(i > Len(argv)) /\ argv[i] \in Options
    BY DEF Stopped
  <2> QED
    BY <1>0, <2>1, <2>2
<1>2. t = TakeOption(argv, s)
  BY <1>1 DEF Turn
<1>3. NoValue(argv, i) => t = [s EXCEPT !.bad = TRUE]
  BY <1>2 DEF TakeOption
<1>4. ASSUME ~NoValue(argv, i)
      PROVE  /\ i < Len(argv) /\ (argv[i] = "-e" => argv[i + 1] # "")
             /\ t.next = i + 2 /\ t.bad = FALSE
             /\ t.timeout = IF argv[i] = "-t" THEN Words[argv[i + 1]].atoi ELSE s.timeout
             /\ t.host \in {s.host, argv[i + 1]} /\ t.marker \in {s.marker, argv[i + 1]}
             /\ t = [next |-> t.next, host |-> t.host, timeout |-> t.timeout,
                     marker |-> t.marker, bad |-> t.bad]
  <2>1. i < Len(argv) /\ (argv[i] = "-e" => argv[i + 1] # "")
    <3>1. i # Len(argv) /\ ~(argv[i] = "-e" /\ argv[i + 1] = "")
      BY <1>4 DEF NoValue
    <3> HIDE DEF i
    <3>2. i < Len(argv)
      <4>1. i \in 1..Len(argv) /\ i # Len(argv)
        BY <1>1, <3>1
      <4> QED
        BY <1>0, <4>1
    <3> QED
      BY <3>1, <3>2
  <2>2. t = [s EXCEPT !.next = i + 2,
                      !.host = IF argv[i] = "-h" THEN argv[i + 1] ELSE @,
                      !.timeout = IF argv[i] = "-t" THEN Words[argv[i + 1]].atoi ELSE @,
                      !.marker = IF argv[i] = "-e" THEN argv[i + 1] ELSE @]
    BY <1>2, <1>4 DEF TakeOption
  <2> HIDE DEF t
  <2> QED
    BY <1>1, <2>1, <2>2 DEF Readings
<1> QED
  BY <1>1, <1>3, <1>4

LEMMA TurnTypes ==
    ASSUME NEW argv \in Seq(DOMAIN Words), NEW s \in Readings(argv)
    PROVE  Turn(argv, s) \in Readings(argv)
<1>1. CASE Stopped(argv, s)
  BY <1>1 DEF Stopped, Turn
<1>2. CASE ~Stopped(argv, s)
  <2> DEFINE t == Turn(argv, s)
             i == s.next
  <2>1. i \in 1..Len(argv)
    BY <1>2, TurnTakes
  <2>2. CASE NoValue(argv, i)
    <3>1. t = [s EXCEPT !.bad = TRUE]
      BY <1>2, <2>2, TurnTakes
    <3> QED
      BY <3>1 DEF Readings
  <2>3. CASE ~NoValue(argv, i)
    <3>1. /\ i < Len(argv) /\ t.next = i + 2 /\ t.bad = FALSE
          /\ t.timeout = IF argv[i] = "-t" THEN Words[argv[i + 1]].atoi ELSE s.timeout
          /\ t.host \in {s.host, argv[i + 1]} /\ t.marker \in {s.marker, argv[i + 1]}
          /\ t = [next |-> t.next, host |-> t.host, timeout |-> t.timeout,
                  marker |-> t.marker, bad |-> t.bad]
      BY <1>2, <2>3, TurnTakes
    <3> HIDE DEF t
    <3>2. argv[i + 1] \in DOMAIN Words
      BY <2>1, <3>1
    <3>3. Words[argv[i + 1]].atoi \in Int
      BY <3>2, WordTypes
    <3>4. t.next \in 1..(Len(argv) + 1) /\ t.timeout \in Int /\ t.bad \in BOOLEAN
      <4>1. s.timeout \in Int
        BY DEF Readings
      <4>2. Len(argv) \in Nat
        OBVIOUS
      <4> HIDE DEF i
      <4>3. t.next \in 1..(Len(argv) + 1)
        BY <2>1, <3>1, <4>2
      <4>4. t.timeout \in Int
        BY <3>1, <3>3, <4>1
      <4> QED
        BY <3>1, <4>3, <4>4
    <3>5. t.host \in DOMAIN Words \cup {""} /\ t.marker \in DOMAIN Words \cup {""}
      BY <3>1, <3>2 DEF Readings
    <3>6. t \in Readings(argv)
      BY <3>1, <3>4, <3>5 DEF Readings
    <3> QED
      BY <3>6 DEF t
  <2> QED
    BY <2>2, <2>3
<1> QED
  BY <1>1, <1>2

LEMMA NoOptionsType ==
    ASSUME NEW argv \in Seq(DOMAIN Words)
    PROVE  NoOptions \in Readings(argv)
<1>1. 1 \in 1..(Len(argv) + 1)
  OBVIOUS
<1> QED
  BY <1>1 DEF NoOptions, Readings

\* The loop as a sequence of turns.
LEMMA ParseDefined ==
    ASSUME NEW argv \in Seq(DOMAIN Words)
    PROVE  \E after \in [0..Len(argv) -> Readings(argv)] :
             /\ after[0] = NoOptions
             /\ \A k \in 1..Len(argv) : after[k] = Turn(argv, after[k - 1])
             /\ ParseOptions(argv) = after[Len(argv)]
<1> DEFINE n == Len(argv)
           S == Readings(argv)
           Eq(f) == f = [k \in 0..n |-> IF k = 0 THEN NoOptions ELSE Turn(argv, f[k - 1])]
           after == CHOOSE f : Eq(f)
           step == [k \in 1..n |-> [v \in S |-> Turn(argv, v)]]
<1>1. n \in Nat /\ NoOptions \in S /\ \A v \in S : Turn(argv, v) \in S
  BY NoOptionsType, TurnTypes
<1>2. \E f : Eq(f)
  <2> HIDE DEF S
  <2>1. step \in [1..n -> [S -> S]]
    BY <1>1
  <2>2. ASSUME NEW k \in 1..n, NEW v \in S
        PROVE  step[k][v] = Turn(argv, v)
    OBVIOUS
  <2> HIDE DEF step, n
  <2>3. PICK f : Iterates(f, n, S, NoOptions, step)
    BY <1>1, <2>1, IterationExists
  <2>4. f \in [0..n -> S] /\ f[0] = NoOptions /\ \A k \in 1..n : f[k] = step[k][f[k - 1]]
    BY <2>3 DEF Iterates
  <2>5. ASSUME NEW k \in 1..n
        PROVE  f[k] = Turn(argv, f[k - 1])
    <3>1. k - 1 \in 0..n
      BY <1>1
    <3>2. f[k - 1] \in S
      BY <2>4, <3>1
    <3> QED
      BY <2>2, <2>4, <3>2
  <2>6. Eq(f)
    BY <1>1, <2>4, <2>5
  <2> HIDE DEF Eq
  <2> QED
    BY <2>6
<1>3. Eq(after)
  <2> HIDE DEF Eq
  <2> QED
    BY <1>2
<1>4. ParseOptions(argv) = after[n]
  BY DEF ParseOptions, Turn
<1> HIDE DEF after, S
<1>5. after[0] = NoOptions /\ \A k \in 1..n : after[k] = Turn(argv, after[k - 1])
  BY <1>1, <1>3
<1>6. \A k \in 0..n : after[k] \in S
  <2> DEFINE G == {k \in 0..n : after[k] \in S}
  <2>1. 0 \in G
    BY <1>1, <1>5
  <2>2. \A k \in 1..n : k - 1 \in G => k \in G
    BY <1>1, <1>5
  <2> HIDE DEF G
  <2>3. \A k \in 0..n : k \in G
    BY <1>1, <2>1, <2>2, IntervalInduction
  <2> QED
    BY <2>3 DEF G
<1>7. after \in [0..n -> S]
  BY <1>3, <1>6
<1> QED
  BY <1>4, <1>5, <1>7 DEF S

\* What is true of the words before the one the loop is at.
TimeoutSoFar(argv, s) ==
    \/ /\ s.timeout = -1
       /\ \A j \in OddPlaces(argv) : j < s.next => argv[j] # "-t"
    \/ \E i \in OddPlaces(argv) :
         /\ i < s.next /\ argv[i] = "-t" /\ s.timeout = Words[argv[i + 1]].atoi
         /\ \A j \in OddPlaces(argv) : j < s.next /\ argv[j] = "-t" => j <= i
ReadSoFar(argv, s) ==
    /\ s.next % 2 = 1
    /\ \A j \in OddPlaces(argv) : j < s.next =>
         argv[j] \in Options /\ j + 1 < s.next /\ (argv[j] = "-e" => argv[j + 1] # "")
    /\ s.bad => s.next <= Len(argv) /\ argv[s.next] \in Options /\ NoValue(argv, s.next)
    /\ TimeoutSoFar(argv, s)

LEMMA ReadSoFarInit ==
    ASSUME NEW argv \in Seq(DOMAIN Words)
    PROVE  ReadSoFar(argv, NoOptions)
<1>1. \A j \in OddPlaces(argv) : ~(j < 1)
  BY DEF OddPlaces
<1>2. NoOptions.next = 1 /\ NoOptions.bad = FALSE /\ NoOptions.timeout = -1
  BY DEF NoOptions
<1>3. TimeoutSoFar(argv, NoOptions)
  BY <1>1, <1>2 DEF TimeoutSoFar
<1>4. NoOptions.next % 2 = 1
  BY <1>2
<1> QED
  BY <1>1, <1>2, <1>3, <1>4 DEF ReadSoFar

LEMMA ReadSoFarTurn ==
    ASSUME NEW argv \in Seq(DOMAIN Words), NEW s \in Readings(argv), ReadSoFar(argv, s)
    PROVE  ReadSoFar(argv, Turn(argv, s))
<1>1. CASE Stopped(argv, s)
  BY <1>1 DEF Stopped, Turn
<1>2. CASE ~Stopped(argv, s)
  <2> DEFINE t == Turn(argv, s)
             i == s.next
             O == OddPlaces(argv)
  <2>1. i \in 1..Len(argv) /\ argv[i] \in Options
    BY <1>2, TurnTakes
  <2>o. \A j \in O : j \in Nat /\ j % 2 = 1
    BY DEF OddPlaces
  <2>n. Len(argv) \in Nat
    OBVIOUS
  <2>i. i \in Nat /\ i <= Len(argv)
    BY <2>1, <2>n
  <2>2. CASE NoValue(argv, i)
    <3>1. t = [s EXCEPT !.bad = TRUE]
      BY <1>2, <2>2, TurnTakes
    <3> HIDE DEF t
    <3>2. t.next = i /\ t.timeout = s.timeout
      BY <3>1 DEF Readings
    <3>3. TimeoutSoFar(argv, t)
      BY <3>2 DEF ReadSoFar, TimeoutSoFar
    <3>4. t.next <= Len(argv) /\ argv[t.next] \in Options /\ NoValue(argv, t.next)
      BY <2>1, <2>2, <2>i, <3>2
    <3>5. /\ t.next % 2 = 1
          /\ \A j \in O : j < t.next =>
               argv[j] \in Options /\ j + 1 < t.next /\ (argv[j] = "-e" => argv[j + 1] # "")
      BY <3>2 DEF ReadSoFar
    <3>6. ReadSoFar(argv, t)
      BY <3>3, <3>4, <3>5 DEF ReadSoFar
    <3> QED
      BY <3>6 DEF t
  <2>3. CASE ~NoValue(argv, i)
    <3>1. /\ i < Len(argv) /\ (argv[i] = "-e" => argv[i + 1] # "")
          /\ t.next = i + 2 /\ t.bad = FALSE
          /\ t.timeout = IF argv[i] = "-t" THEN Words[argv[i + 1]].atoi ELSE s.timeout
      BY <1>2, <2>3, TurnTakes
    <3> HIDE DEF t
    <3>2. t.next = i + 2
      BY <3>1
    <3>3. i % 2 = 1
      BY DEF ReadSoFar
    <3>4. /\ TimeoutSoFar(argv, s)
          /\ \A j \in O : j < i =>
               argv[j] \in Options /\ j + 1 < i /\ (argv[j] = "-e" => argv[j + 1] # "")
      BY DEF ReadSoFar
    <3>5. i \in O
      BY <2>1, <3>3 DEF OddPlaces
    <3>6. TimeoutSoFar(argv, s) <=>
            \/ /\ s.timeout = -1
               /\ \A j \in O : j < i => argv[j] # "-t"
            \/ \E k \in O :
                 /\ k < i /\ argv[k] = "-t" /\ s.timeout = Words[argv[k + 1]].atoi
                 /\ \A j \in O : j < i /\ argv[j] = "-t" => j <= k
      BY DEF TimeoutSoFar
    <3> HIDE DEF i, O
    <3>7. ASSUME NEW j \in O, j < t.next
          PROVE  j = i \/ j < i
      BY <2>o, <2>i, <3>2, <3>3, <3>7
    <3>8. ASSUME NEW j \in O, j < t.next
          PROVE  argv[j] \in Options /\ j + 1 < t.next /\ (argv[j] = "-e" => argv[j + 1] # "")
      <4>1. CASE j = i
        <5>1. j + 1 < t.next
          BY <2>i, <3>2, <4>1
        <5> QED
          BY <2>1, <3>1, <4>1, <5>1
      <4>2. CASE j < i
        <5>1. argv[j] \in Options /\ j + 1 < i /\ (argv[j] = "-e" => argv[j + 1] # "")
          BY <3>4, <4>2
        <5>2. j + 1 < t.next
          BY <2>i, <2>o, <3>2, <4>2
        <5> QED
          BY <5>1, <5>2
      <4> QED
        BY <3>7, <3>8, <4>1, <4>2
    <3>9. TimeoutSoFar(argv, t)
      <4>0. i < t.next
        BY <2>i, <3>2
      <4>1. CASE argv[i] = "-t"
        <5>1. t.timeout = Words[argv[i + 1]].atoi
          BY <3>1, <4>1
        <5>2. ASSUME NEW j \in O, j < t.next PROVE j <= i
          BY <2>i, <2>o, <3>7, <5>2
        <5> QED
          BY <3>5, <4>0, <4>1, <5>1, <5>2 DEF TimeoutSoFar, O
      <4>2. CASE argv[i] # "-t"
        <5>1. t.timeout = s.timeout
          BY <3>1, <4>2
        <5>2. ASSUME NEW j \in O
              PROVE  (j < t.next /\ argv[j] = "-t") <=> (j < i /\ argv[j] = "-t")
          <6>1. j < i => j < t.next
            BY <2>i, <2>o, <3>2
          <6> QED
            BY <3>7, <4>2, <6>1
        <5> QED
          BY <3>4, <3>6, <5>1, <5>2 DEF TimeoutSoFar, O
      <4> QED
        BY <4>1, <4>2
    <3>10. t.next % 2 = 1
      BY <2>i, <3>2, <3>3
    <3>11. ~t.bad
      BY <3>1
    <3>12. ReadSoFar(argv, t)
      BY <3>8, <3>9, <3>10, <3>11 DEF ReadSoFar, O
    <3> QED
      BY <3>12 DEF t
  <2> QED
    BY <2>2, <2>3
<1> QED
  BY <1>1, <1>2

\* The loop ends: Len(argv) turns are enough, and then all of ReadSoFar holds.
LEMMA ParseStops ==
    ASSUME NEW argv \in Seq(DOMAIN Words)
    PROVE  LET s == ParseOptions(argv)
           IN  s \in Readings(argv) /\ Stopped(argv, s) /\ ReadSoFar(argv, s)
<1> DEFINE n == Len(argv)
<1>1. PICK after \in [0..n -> Readings(argv)] :
        /\ after[0] = NoOptions
        /\ \A k \in 1..n : after[k] = Turn(argv, after[k - 1])
        /\ ParseOptions(argv) = after[n]
  BY ParseDefined
<1>2. n \in Nat
  OBVIOUS
<1> DEFINE Good(k) == /\ ReadSoFar(argv, after[k])
                      /\ Stopped(argv, after[k]) \/ after[k].next = 2 * k + 1
           G == {k \in 0..n : Good(k)}
<1>3. 0 \in G
  <2>1. ReadSoFar(argv, after[0])
    BY <1>1, ReadSoFarInit
  <2>2. NoOptions.next = 1
    BY DEF NoOptions
  <2>3. after[0].next = 1
    BY <1>1, <2>2
  <2> QED
    BY <1>2, <2>1, <2>3
<1>4. ASSUME NEW k \in 1..n, k - 1 \in G
      PROVE  k \in G
  <2> DEFINE s == after[k - 1]
             t == after[k]
  <2>1. k - 1 \in 0..n /\ k \in 0..n /\ k \in Nat
    BY <1>2
  <2>2. s \in Readings(argv) /\ t = Turn(argv, s)
    BY <1>1, <2>1
  <2>3. ReadSoFar(argv, s) /\ (Stopped(argv, s) \/ s.next = 2 * (k - 1) + 1)
    BY <1>4
  <2> HIDE DEF s, t
  <2>4. ReadSoFar(argv, t)
    BY <2>2, <2>3, ReadSoFarTurn
  <2>5. Stopped(argv, t) \/ t.next = 2 * k + 1
    <3>1. CASE Stopped(argv, s)
      <4>1. t = s
        BY <2>2, <3>1 DEF Stopped, Turn
      <4> QED
        BY <3>1, <4>1
    <3>2. CASE ~Stopped(argv, s)
      <4>1. CASE NoValue(argv, s.next)
        <5>1. t = [s EXCEPT !.bad = TRUE]
          BY <2>2, <3>2, <4>1, TurnTakes
        <5>2. t.bad
          BY <2>2, <5>1 DEF Readings
        <5> QED
          BY <5>2 DEF Stopped
      <4>2. CASE ~NoValue(argv, s.next)
        <5>1. t.next = s.next + 2
          BY <2>2, <3>2, <4>2, TurnTakes
        <5>2. s.next = 2 * (k - 1) + 1
          BY <2>3, <3>2
        <5>3. t.next = 2 * k + 1
          BY <2>1, <5>1, <5>2
        <5> QED
          BY <5>3
      <4> QED
        BY <4>1, <4>2
    <3> QED
      BY <3>1, <3>2
  <2> QED
    BY <2>1, <2>4, <2>5 DEF t
<1> HIDE DEF G
<1>5. \A k \in 0..n : k \in G
  BY <1>2, <1>3, <1>4, IntervalInduction
<1>6. Good(n) /\ after[n] \in Readings(argv)
  BY <1>2, <1>5 DEF G
<1>7. after[n].next = 2 * n + 1 => after[n].next > n
  BY <1>2
<1>8. Stopped(argv, after[n])
  BY <1>6, <1>7 DEF Stopped
<1> QED
  BY <1>1, <1>6, <1>8

\* Every command line is read as the usage text says: the loop of main over the options
\* (src/ps2client.c) fails exactly when there is no command or an empty marker, the last
\* -t counts, and the command is the first word in an odd place that is no option.
THEOREM EveryLineIsRead ==
    \A argv \in Seq(DOMAIN Words) : OptionsAreRight(argv)
<1> SUFFICES ASSUME NEW argv \in Seq(DOMAIN Words)
             PROVE  OptionsAreRight(argv)
  OBVIOUS
<1> DEFINE s == ParseOptions(argv)
           O == OddPlaces(argv)
           n == Len(argv)
           i == s.next
<1>1. s \in Readings(argv) /\ Stopped(argv, s) /\ ReadSoFar(argv, s)
  BY ParseStops
<1> HIDE DEF s
<1>2. n \in Nat /\ i \in 1..(n + 1)
  <2>1. n \in Nat
    OBVIOUS
  <2>2. i \in 1..(n + 1)
    BY <1>1 DEF Readings
  <2> QED
    BY <2>1, <2>2
<1>3. \A j \in O : j \in 1..n /\ j % 2 = 1
  BY DEF OddPlaces
<1>4. i <= n => i \in O
  <2>1. i % 2 = 1
    BY <1>1 DEF ReadSoFar
  <2> HIDE DEF i
  <2> QED
    BY <1>2, <2>1 DEF OddPlaces
<1>5. /\ \A j \in O : j < i =>
           argv[j] \in Options /\ j + 1 < i /\ (argv[j] = "-e" => argv[j + 1] # "")
      /\ s.bad => i <= n /\ argv[i] \in Options /\ NoValue(argv, i)
      /\ TimeoutSoFar(argv, s)
  BY <1>1 DEF ReadSoFar
<1>o. \A j \in O : j < i => argv[j] \in Options /\ j + 1 < i
  BY <1>5
<1>6. ASSUME ~s.bad, i <= n
      PROVE  argv[i] \notin Options
  BY <1>1, <1>2, <1>6 DEF Stopped
<1> HIDE DEF i, O, n
\* Without an error, the pairs of an option that count are those before the command.
<1>7. ASSUME ~s.bad, NEW option
      PROVE  Given(argv, option) = {j \in O : j < i /\ argv[j] = option}
  <2>1. ASSUME NEW j \in O, j < i, argv[j] = option
        PROVE  j \in Given(argv, option)
    <3>1. j < n
      BY <1>2, <1>3, <1>o, <2>1
    <3>2. \A k \in O : k <= j => argv[k] \in Options
      BY <1>2, <1>3, <1>o, <2>1
    <3> QED
      BY <2>1, <3>1, <3>2 DEF Given, O, n
  <2>2. ASSUME NEW j \in Given(argv, option)
        PROVE  j \in O /\ j < i /\ argv[j] = option
    <3>1. j \in O /\ argv[j] = option /\ j < n /\ \A k \in O : k <= j => argv[k] \in Options
      BY DEF Given, O, n
    <3>2. j < i
      <4>1. CASE i <= n
        <5>1. ~(i <= j)
          BY <1>4, <1>6, <1>7, <3>1, <4>1
        <5> QED
          BY <1>2, <1>3, <3>1, <5>1
      <4>2. CASE ~(i <= n)
        BY <1>2, <1>3, <3>1, <4>2
      <4> QED
        BY <4>1, <4>2
    <3> QED
      BY <3>1, <3>2
  <2> QED
    BY <2>1, <2>2
<1>8. ~s.bad /\ i <= n => i \in CommandPlace(argv)
  <2> SUFFICES ASSUME ~s.bad, i <= n PROVE i \in CommandPlace(argv)
    OBVIOUS
  <2> QED
    BY <1>4, <1>5, <1>6 DEF CommandPlace, O
<1>9. s.bad \/ i > n => CommandPlace(argv) = {} \/ EmptyMarker(argv)
  <2>1. CASE i > n
    <3>1. \A j \in O : argv[j] \in Options
      BY <1>2, <1>3, <1>o, <2>1
    <3> QED
      BY <3>1 DEF CommandPlace, O
  <2>2. CASE s.bad
    <3>1. i \in O /\ argv[i] \in Options /\ i <= n /\ NoValue(argv, i)
      BY <1>4, <1>5, <2>2
    <3>2. CASE i = n
      <4>1. \A j \in O : argv[j] \in Options
        BY <1>2, <1>3, <1>o, <3>1, <3>2
      <4> QED
        BY <4>1 DEF CommandPlace, O
    <3>3. CASE i # n
      <4>1. argv[i] = "-e" /\ argv[i + 1] = ""
        BY <3>1, <3>3 DEF NoValue, n
      <4>2. i < n
        BY <1>2, <3>1, <3>3
      <4>3. \A j \in O : j <= i => argv[j] \in Options
        BY <1>2, <1>3, <1>o, <3>1
      <4>4. i \in Given(argv, "-e")
        BY <3>1, <4>1, <4>2, <4>3 DEF Given, O, n
      <4> QED
        BY <4>1, <4>4 DEF EmptyMarker
    <3> QED
      BY <3>2, <3>3
  <2> QED
    BY <2>1, <2>2
<1>10. ASSUME ~s.bad, i <= n
       PROVE  CommandPlace(argv) # {} /\ ~EmptyMarker(argv)
  <2>1. CommandPlace(argv) # {}
    BY <1>8, <1>10
  <2>2. \A j \in Given(argv, "-e") : argv[j + 1] # ""
    BY <1>5, <1>7, <1>10
  <2> QED
    BY <2>1, <2>2 DEF EmptyMarker
<1>11. ASSUME ~s.bad
       PROVE  s.timeout = LastTimeout(argv)
  <2> DEFINE T == Given(argv, "-t")
  <2>1. T = {j \in O : j < i /\ argv[j] = "-t"}
    BY <1>7, <1>11
  <2>2. \/ s.timeout = -1 /\ T = {}
        \/ \E k \in T : s.timeout = Words[argv[k + 1]].atoi /\ \A j \in T : j <= k
    BY <1>5, <2>1 DEF TimeoutSoFar, O, i
  <2> HIDE DEF T
  <2>3. CASE T = {}
    BY <2>2, <2>3 DEF LastTimeout, T
  <2>4. CASE T # {}
    <3>1. PICK k \in T : s.timeout = Words[argv[k + 1]].atoi /\ \A j \in T : j <= k
      BY <2>2, <2>4
    <3> DEFINE m == CHOOSE m \in T : \A j \in T : j <= m
    <3>2. m \in T /\ \A j \in T : j <= m
      BY <3>1
    <3>3. LastTimeout(argv) = Words[argv[m + 1]].atoi
      BY <2>4 DEF LastTimeout, T
    <3> HIDE DEF m
    <3>4. m = k
      BY <1>3, <2>1, <3>1, <3>2
    <3> QED
      BY <3>1, <3>3, <3>4
  <2> QED
    BY <2>3, <2>4
<1>12. (s.bad \/ i > n) <=> (CommandPlace(argv) = {} \/ EmptyMarker(argv))
  BY <1>2, <1>9, <1>10
<1> QED
  BY <1>8, <1>11, <1>12 DEF OptionsAreRight, s, i, n

\* Whatever the command line, the arguments that main lets through fit (LengthsAgree).
THEOREM EveryLengthAgrees ==
    \A argv \in Seq(DOMAIN Words) : LengthsAgree(argv)
<1> SUFFICES ASSUME NEW argv \in Seq(DOMAIN Words),
                    ParseOptions(argv).next <= Len(argv)
             PROVE  LET args == ArgumentsOf(argv)
                    IN  ArgumentsLength(args) <= Room <=> FixArgv(args) # -1
  BY DEF LengthsAgree
<1> DEFINE i == ParseOptions(argv).next
<1>1. i \in 1..Len(argv) /\ Len(argv) \in Nat
  <2>1. Len(argv) \in Nat
    OBVIOUS
  <2>2. i \in 1..(Len(argv) + 1)
    BY ParseStops DEF Readings
  <2> QED
    BY <2>1, <2>2
<1> HIDE DEF i
<1>2. SubSeq(argv, i + 1, Len(argv)) \in Seq(DOMAIN Words)
  BY <1>1
<1>3. ArgumentsOf(argv) \in Seq(DOMAIN Words)
  BY <1>2 DEF ArgumentsOf, i
<1> QED
  BY <1>3, LengthsOfArgumentsAgree

\* The command is one that main knows, or "usage".
LEMMA CommandOfType ==
    \A argv : CommandOf(argv) \in DOMAIN Args \cup {"usage"}
BY DEF CommandOf

\* The options' numbers.
LEMMA ParsedTimeout ==
    \A argv \in Seq(DOMAIN Words) : ParseOptions(argv).timeout \in Int
BY ParseStops DEF Readings
=============================================================================
