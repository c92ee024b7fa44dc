------------------------------ MODULE FileCopy ------------------------------
(***************************************************************************)
(* What fsclient promises of copyfrom and copyto, without the connection,  *)
(* the buffer and the calls: the destination is left alone, or emptied and *)
(* then extended by what comes next in the source; the copy succeeds only  *)
(* when nothing is missing, and may fail at any point.                     *)
(***************************************************************************)
EXTENDS Integers, Sequences

CONSTANTS Sources, Old     \* the files there may be, and what was at the destination

VARIABLES source, dest, result

copyVars == <<source, dest, result>>

CopyInit == source \in Sources /\ dest = Old /\ result = "running"

Truncate ==
    /\ result = "running" /\ dest = Old
    /\ dest' = <<>>
    /\ UNCHANGED <<source, result>>

Extend ==
    /\ result = "running" /\ dest # Old
    /\ \E k \in 1..(Len(source) - Len(dest)) :
         dest' = dest \o SubSeq(source, Len(dest) + 1, Len(dest) + k)
    /\ UNCHANGED <<source, result>>

Succeed ==
    /\ result = "running" /\ dest = source
    /\ result' = "copied"
    /\ UNCHANGED <<source, dest>>

Fail ==
    /\ result = "running"
    /\ result' = "failed"
    /\ UNCHANGED <<source, dest>>

CopyNext == Truncate \/ Extend \/ Succeed \/ Fail

CopySpec == CopyInit /\ [][CopyNext]_copyVars
=============================================================================
