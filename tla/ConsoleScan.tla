---------------------------- MODULE ConsoleScan ----------------------------
(***************************************************************************)
(* The scan of the console output for the -e marker, character by          *)
(* character (ps2link_scan_console and ps2link_check_line, ps2link.c): the *)
(* current line is collected in a buffer that holds LineCap characters; of *)
(* a line that does not fit only the end is kept.                          *)
(*                                                                         *)
(* How the characters are split into datagrams makes no difference to the  *)
(* scanner, so there are no datagrams here; Ps2Client has the datagrams    *)
(* and the threads, and abstracts a line to what was found in it.          *)
(***************************************************************************)
EXTENDS Integers, Sequences

CONSTANTS
    Letters,      \* the characters a line is made of: all but '\n', '\r' and 0
    Marker,       \* what -e gives
    StatusWord,   \* "status="
    LineCap,      \* sizeof(ps2link_line) - 1
    Keep,         \* what is kept of a line that does not fit
    MaxChars      \* bound: characters of console output

ASSUME ScanAssumption ==
    /\ Marker \in Seq(Letters) /\ StatusWord \in Seq(Letters)
    /\ LineCap \in Nat /\ Keep \in Nat /\ Keep < LineCap
    /\ MaxChars \in Nat

VARIABLES
    line,          \* ps2link_line, up to ps2link_line_length
    marker_seen,   \* ps2link_marker_seen
    told,          \* the text after "status=", which strtol makes ps2link_marker_status of
    ended,         \* the main loop checked the unfinished line and left
    used,          \* characters of console output so far
    raw, raws      \* history: the whole current line; the lines that were checked

vars == <<line, marker_seen, told, ended, used, raw, raws>>

\* strstr: the offsets at which w occurs in s, and the first of them.
At(s, w) == {i \in 0..(Len(s) - Len(w)) : \A j \in 1..Len(w) : s[i + j] = w[j]}
First(S) == CHOOSE i \in S : \A j \in S : i <= j

\* What follows the first "status=" at or after the first marker; without one
\* the status is 0, as for an empty text.
Told(s) ==
    LET after == {i \in At(s, StatusWord) : i >= First(At(s, Marker))}
    IN  IF after = {} THEN <<>>
        ELSE SubSeq(s, First(after) + Len(StatusWord) + 1, Len(s))

Init ==
    /\ line = <<>> /\ marker_seen = FALSE /\ told = <<>> /\ ended = FALSE
    /\ used = 0 /\ raw = <<>> /\ raws = <<>>

Scanning == ~ended /\ used < MaxChars /\ used' = used + 1

\* ps2link_check_line
CheckLine ==
    IF ~marker_seen /\ At(line, Marker) # {}
      THEN marker_seen' = TRUE /\ told' = Told(line)
      ELSE UNCHANGED <<marker_seen, told>>

\* Mutant: the next line is added to the one that was checked.
NewlineKeepsLine ==
    /\ Scanning
    /\ CheckLine
    /\ UNCHANGED line
    /\ raws' = Append(raws, raw) /\ raw' = <<>>
    /\ UNCHANGED ended

Newline ==
    /\ Scanning
    /\ CheckLine
    /\ line' = <<>>
    /\ raws' = Append(raws, raw) /\ raw' = <<>>
    /\ UNCHANGED ended

\* '\r' and 0
Ignored == Scanning /\ UNCHANGED <<line, marker_seen, told, ended, raw, raws>>

\* Mutant: the buffer is taken to hold one character more, and no 0.
FullLate == Len(line) = LineCap + 1
Full == Len(line) = LineCap

\* Mutant: ps2link_line_length is set back and nothing is moved.
KeepStart == SubSeq(line, 1, Keep)

\* Mutant: the line starts afresh.
KeepNothing == <<>>
KeepEnd == SubSeq(line, Len(line) - Keep + 1, Len(line))

Letter(c) ==
    /\ Scanning
    /\ line' = Append(IF Full THEN KeepEnd ELSE line, c)
    /\ raw' = Append(raw, c)
    /\ UNCHANGED <<marker_seen, told, ended, raws>>

\* ps2link_mainloop after an idle timeout or a loss: the line without a newline.
CheckPartial ==
    /\ ~ended
    /\ ended' = TRUE
    /\ IF Len(line) > 0
         THEN CheckLine /\ raws' = Append(raws, raw)
         ELSE UNCHANGED <<marker_seen, told, raws>>
    /\ UNCHANGED <<line, used, raw>>

Next == Newline \/ Ignored \/ (\E c \in Letters : Letter(c)) \/ CheckPartial

Spec == Init /\ [][Next]_vars
----------------------------------------------------------------------------
(* Properties.                                                             *)

\* The type invariant: ps2link_line_length leaves room for the 0 that
\* ps2link_check_line writes after the line.
TypeOK ==
    /\ line \in Seq(Letters) /\ Len(line) <= LineCap
    /\ marker_seen \in BOOLEAN /\ told \in Seq(Letters) /\ ended \in BOOLEAN
    /\ used \in 0..MaxChars /\ raw \in Seq(Letters) /\ raws \in Seq(Seq(Letters))

HasMarker(s) == At(s, Marker) # {}
\* A marker that starts among the last Keep characters.
EndsWithMarker(s) == \E i \in At(s, Marker) : i >= Len(s) - Keep

\* No false alarm: whatever ps2link_scan_console drops and moves, a marker is
\* only seen when a line of the console output contains it.
NoFalseMarker == marker_seen => \E i \in 1..Len(raws) : HasMarker(raws[i])

\* "Keep its end, where a marker can still start": however long a line is, a
\* marker that starts among its last Keep characters is seen.
EndOfLineCounts == \A i \in 1..Len(raws) : EndsWithMarker(raws[i]) => marker_seen

\* ps2link_check_line on lines that fit: the first line with the marker is the
\* one that is seen, and its status is the one that is told.
ShortLinesAreExact ==
    (\A i \in 1..Len(raws) : Len(raws[i]) <= LineCap) =>
      LET hits == {i \in 1..Len(raws) : HasMarker(raws[i])}
      IN  /\ marker_seen <=> hits # {}
          /\ marker_seen => told = Told(raws[First(hits)])
=============================================================================
