--------------------------- MODULE MCHostRequests ---------------------------
(* Instances of HostRequests: two directories with an entry of the same    *)
(* name, one a file and one a directory, and one other path.               *)
EXTENDS HostRequests

TwoDirs == [d1 |-> [a |-> "file"], d2 |-> [a |-> "dir"]]
=============================================================================
