----------------------------- MODULE MCFsClient -----------------------------
(* Instances of FsClient.  Three commands share their number with another  *)
(* one and have an instance of their own.                                  *)
EXTENDS FsClient

SharedNumbers == {"sync", "mount", "umount"}
AllLines == [c \in Copies \cup (Singles \ SharedNumbers) \cup {"dir", "nonsense"} |->
               IF c \in Copies THEN {"fits", "long", "missing"} ELSE {"fits"}]
SyncLines == [c \in {"sync"} |-> {"fits"}]
=============================================================================
