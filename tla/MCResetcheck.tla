---------------------------- MODULE MCResetcheck ----------------------------
(* Every command line of up to four words from a few: options, commands,   *)
(* numbers and words of different lengths, one of which has no room.       *)
EXTENDS Resetcheck

Word(length, atoi, number) ==
    [length |-> length, atoi |-> atoi, number |-> number, regtype |-> number]
FewWords ==
    [w \in {"-t", "-e", "resetcheck", "execee", "", "3", "121", "-h", "long"} |->
       CASE w = "3" -> Word(1, 3, TRUE) [] w = "121" -> Word(3, 121, TRUE)
         [] w = "" -> Word(0, 0, FALSE)
         [] w = "long" -> Word(9, 0, FALSE) [] OTHER -> Word(2, 0, FALSE)]
ShortLines == UNION {[1..n -> DOMAIN FewWords] : n \in 0..4}
=============================================================================
