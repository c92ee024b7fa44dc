--------------------------- MODULE MCConsoleScan ---------------------------
(* Instances of ConsoleScan: a marker that overlaps itself, and a line that *)
(* overflows its buffer several times within MaxChars.                      *)
EXTENDS ConsoleScan

DoubleM == <<"m", "m">>
OneS == <<"s">>
=============================================================================
