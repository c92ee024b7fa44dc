------------------------------ MODULE FsClient ------------------------------
(***************************************************************************)
(* One run of fsclient (src/fsclient.c) and the ps2netfs calls it makes    *)
(* (src/ps2netfs.c) over one TCP connection (network_send,                 *)
(* network_receive_all in src/network.c).                                  *)
(*                                                                         *)
(* The copies are one program read in two directions: side 0 is the        *)
(* source, side 1 the destination, and one of them is on the ps2.  A call  *)
(* on the local side is a system call, on the other side a command sent in *)
(* pieces, and a response received in pieces.  A packet is cut down to a   *)
(* few cells, and a file's bytes are cells too, so that a stream can be    *)
(* cut, and can be misread, between any two of them.                       *)
(*                                                                         *)
(* The ps2netfs server is the environment: it may do less than it is       *)
(* asked, refuse, claim more than it was asked for, and go away.           *)
(***************************************************************************)
EXTENDS Integers, Sequences

CONSTANTS
    CommandLines,  \* command -> how its first pathname may be: "fits", "long" or "missing"
    Lengths,       \* lengths of the file to copy
    Buffer,        \* sizeof(buffer) of the copies
    IntMax,        \* the largest int
    Entries        \* entries in the directory listed

Copies == {"copyfrom", "copyto"}
Singles == {"delete", "devlist", "mkdir", "mount", "rmdir", "sync", "umount"}

ASSUME FsAssumption ==
    /\ DOMAIN CommandLines \subseteq Copies \cup Singles \cup {"dir", "nonsense"}
    /\ \A c \in DOMAIN CommandLines : CommandLines[c] \subseteq {"fits", "long", "missing"}
    /\ Lengths \subseteq Nat /\ Buffer \in Nat \ {0} /\ IntMax \in Nat \ {0} /\ Entries \in Nat

VARIABLES
    cmd, name,                           \* the command, and how its pathname is
    at, status,                          \* where in fsclient_*; the exit status
    fd0, fd1, size, total, bytes, sent,  \* the copies' variables
    buffer, files,                       \* the copies' buffer; dir's count
    phase, call, ret,                    \* the call under way and what it returned
    out, got, need,                      \* network_send, network_receive_all: what is left
    link, to, from,                      \* the connection and its two streams
    source, dest,                        \* the two files
    held, pos, left,                     \* sides open, position in the source, entries left
    served, cut                          \* history: what the server did; a dread was refused

line == <<cmd, name>>
copying == <<fd0, fd1, size, total, bytes, sent>>
client == <<line, at, status, copying, files>>
rpc == <<phase, call, ret, out, got, need, buffer>>
wire == <<link, to, from>>
disks == <<source, dest, held, pos>>
server == <<disks, left, served, cut>>
vars == <<client, rpc, wire, server>>

Old == <<0>>
File(n) == [i \in 1..n |-> i]
AsInt(n) == LET m == n % (2 * (IntMax + 1)) IN IF m > IntMax THEN m - 2 * (IntMax + 1) ELSE m
Smaller(a, b) == IF a < b THEN a ELSE b
Cell(t, v) == [t |-> t, v |-> v]
NoCall == [op |-> "none", n |-> 0]

Init ==
    /\ cmd \in DOMAIN CommandLines /\ name \in CommandLines[cmd]
    /\ at = "start" /\ status = -1
    /\ fd0 = -1 /\ fd1 = -1 /\ size = 0 /\ total = 0 /\ bytes = 0 /\ sent = 0
    /\ buffer = <<>> /\ files = 0
    /\ phase = "idle" /\ call = NoCall /\ ret = 0
    /\ out = <<>> /\ got = <<>> /\ need = 0
    /\ link = "none" /\ to = <<>> /\ from = <<>>
    /\ \E n \in Lengths : source = File(IF cmd \in Copies THEN n ELSE 0)
    /\ dest = Old
    /\ held = {} /\ pos = 0 /\ left = Entries
    /\ served = {} /\ cut = FALSE
----------------------------------------------------------------------------
(* Files, on either machine (external): what an operation may return, and  *)
(* what it does to the file.                                               *)

LSEEK_SET == 0
LSEEK_END == 2

\* What an operation may return; a read or a write may be short.
Results(op, side, n) ==
    CASE op = "open"  -> {-1, side}
      [] op = "lseek" -> {-1, IF n = LSEEK_END THEN Len(source) ELSE 0}
      [] op = "read"  -> {-1, 0} \cup 1..Smaller(n, Len(source) - pos)
      [] op = "write" -> {-1, 0} \cup 1..n
      [] op = "dread" -> {-1, IF left > 0 THEN 1 ELSE 0}
      [] OTHER        -> {-1, 0}

FileOp(op, side, data, r) ==
    /\ held' = (IF op = "open" /\ r >= 0 THEN held \cup {side}
                ELSE IF op = "close" THEN held \ {side} ELSE held)
    /\ dest' = (IF op = "open" /\ r >= 0 /\ side = 1 THEN <<>>
                ELSE IF op = "write" /\ r > 0 THEN dest \o SubSeq(data, 1, Smaller(r, Len(data)))
                ELSE dest)
    /\ pos' = (IF op = "lseek" /\ r >= 0 THEN r
               ELSE IF op = "read" /\ r > 0 THEN pos + r ELSE pos)
    /\ UNCHANGED source

\* What a read of r bytes finds.
Piece(r) == SubSeq(source, pos + 1, pos + r)
----------------------------------------------------------------------------
(* The network layer and the ps2netfs calls.                               *)

Return(r) == phase' = "back" /\ ret' = r

\* The numbers of the commands (ps2netfs.h): three of them are used twice.
Number ==
    [open |-> "8011", close |-> "8021", read |-> "8031", write |-> "8041", lseek |-> "8051",
     delete |-> "8071", mkdir |-> "8081", rmdir |-> "8091", dopen |-> "80A1", dclose |-> "80B1",
     dread |-> "80C1", sync |-> "8031", mount |-> "8041", umount |-> "8051", devlist |-> "8F21"]

\* A response is a head and its result; read's has a size, and dread's and
\* devlist's what they tell, after it.
ResponseLength(op) == IF op \in {"read", "dread", "devlist"} THEN 3 ELSE 2

DataCells(data) == [i \in DOMAIN data |-> Cell("data", data[i])]

\* A command: its packet, with a pathname or without, and the data after a write's.
Rpc(op, path, n, data) ==
    /\ call' = [op |-> op, n |-> n]
    /\ out' = <<Cell(Number[op], 0), Cell(path, n)>> \o DataCells(data)
    /\ got' = <<>> /\ need' = ResponseLength(op)
    /\ phase' = "send"
    /\ UNCHANGED <<ret, buffer, wire, server>>

\* Mutant: the length of the pathname is not looked at.
OpenRefusesNone(op) == FALSE
\* open does not let its pathname be cut off at 255 characters.
OpenRefuses(op) == op = "open" /\ name # "fits"

\* The pathname as all the others send it; without one, what was on the stack.
SentName == CASE name = "long" -> "cut" [] name = "missing" -> "any" [] OTHER -> name

\* ps2netfs_command_open, _close, _read, _write, _lseek
FileCall(op, n, data) ==
    IF OpenRefuses(op)
      THEN /\ call' = [op |-> op, n |-> n] /\ Return(-1)
           /\ UNCHANGED <<out, got, need, buffer, wire, server>>
      ELSE Rpc(op, IF op = "open" THEN SentName ELSE "fits", n, data)

\* ps2netfs_command_delete, _mkdir, _rmdir
PathCall(op) == Rpc(op, SentName, 0, <<>>)

\* ps2netfs_command_dopen, _dclose, _dread
DirCall(op) == Rpc(op, IF op = "dopen" THEN SentName ELSE "fits", 0, <<>>)

\* ps2netfs_command_sync, _mount, _umount and _devlist, which is given ""
DeviceCall(op) == Rpc(op, IF op = "devlist" THEN "fits" ELSE SentName, 0, <<>>)

\* send takes as many bytes as it likes; a peer that has gone is noticed late.
SendPiece ==
    /\ phase = "send"
    /\ \E k \in 1..Len(out) :
         /\ out' = SubSeq(out, k + 1, Len(out))
         /\ to' = (IF link = "up" THEN to \o SubSeq(out, 1, k) ELSE to)
    /\ phase' = (IF out' = <<>> THEN "reply" ELSE "send")
    /\ UNCHANGED <<client, call, ret, got, need, buffer, link, from, server>>

SendFails ==
    /\ phase = "send" /\ link = "closed"
    /\ Return(-1) /\ out' = <<>>
    /\ UNCHANGED <<client, call, got, need, buffer, wire, server>>

\* ntohl(response.result), or what data makes of it.
ResultOf(cells) == IF cells[2].t = "result" THEN {cells[2].v} ELSE {-1, 0}

\* Mutant: the data is expected whatever the response says of its length.
ReadTooLongTaken(r) == FALSE
ReadTooLong(r) == r > call.n

\* network_receive_all has the whole response.
Responded(cells) ==
    \E r \in ResultOf(cells) :
      IF call.op # "read" \/ r <= 0
        THEN Return(r) /\ UNCHANGED <<got, need, buffer>>
        ELSE IF ReadTooLong(r)
          THEN Return(-1) /\ UNCHANGED <<got, need, buffer>>
          ELSE /\ phase' = "data" /\ got' = <<>> /\ need' = r
               /\ UNCHANGED <<ret, buffer>>

AllReceived(cells) == Len(cells) = need

\* recvfrom returns what has arrived; network_receive_all goes on (also after
\* EINTR, which changes nothing) until it has all of it.
ReceivePiece ==
    /\ phase \in {"reply", "data"} /\ from # <<>>
    /\ \E k \in 1..Smaller(need - Len(got), Len(from)) :
         LET cells == got \o SubSeq(from, 1, k)
         IN  /\ from' = SubSeq(from, k + 1, Len(from))
             /\ \/ /\ ~AllReceived(cells)
                   /\ got' = cells /\ UNCHANGED <<phase, ret, need, buffer>>
                \/ /\ AllReceived(cells) /\ phase = "reply"
                   /\ Responded(cells)
                \/ /\ AllReceived(cells) /\ phase = "data"
                   /\ Return(need)
                   /\ buffer' = [i \in DOMAIN cells |-> cells[i].v]
                   /\ UNCHANGED <<got, need>>
    /\ UNCHANGED <<client, call, out, link, to, server>>

ReceiveFails ==
    /\ phase \in {"reply", "data"} /\ from = <<>> /\ link = "closed"
    /\ Return(-1)
    /\ UNCHANGED <<client, call, out, got, need, buffer, wire, server>>

Network == SendPiece \/ SendFails \/ ReceivePiece \/ ReceiveFails
----------------------------------------------------------------------------
(* fsclient.                                                               *)

\* A system call on the local file; what lseek returns is stored in an int.
SystemCall(op, side, n, data) ==
    /\ \E r \in Results(op, side, n) :
         /\ Return(IF op = "lseek" THEN AsInt(r) ELSE r)
         /\ FileOp(op, side, data, r)
         /\ buffer' = (IF op = "read" /\ r > 0 THEN Piece(r) ELSE buffer)
    /\ call' = [op |-> op, n |-> n]
    /\ UNCHANGED <<out, got, need, wire, left, served, cut>>

OnPs2(side) == IF cmd = "copyfrom" THEN side = 0 ELSE side = 1

Calls(op, side, n, data) ==
    /\ phase = "idle"
    /\ IF OnPs2(side) THEN FileCall(op, n, data) ELSE SystemCall(op, side, n, data)
    /\ UNCHANGED client

Goes(label) ==
    /\ at' = label /\ phase' = "idle"
    /\ UNCHANGED <<line, call, ret, out, got, need, buffer, wire, server>>
Fails == ret < 0

\* main, up to its dispatch: copies need two pathnames; then the connection.
Start ==
    /\ at = "start"
    /\ \/ Goes("exit")
       \/ /\ ~(cmd \in Copies /\ name = "missing")
          /\ link' = "up"
          /\ at' = (CASE cmd \in Copies -> "open0" [] cmd = "dir" -> "dopen"
                      [] cmd \in Singles -> "single" [] OTHER -> "exit")
          /\ UNCHANGED <<line, to, from, server, rpc>>
    /\ UNCHANGED <<status, copying, files>>

Open0 == at = "open0" /\ Calls("open", 0, 0, <<>>)
Opened0 ==
    /\ at = "open0" /\ phase = "back"
    /\ fd0' = ret
    /\ Goes(IF Fails THEN "close0" ELSE "end")
    /\ UNCHANGED <<status, fd1, size, total, bytes, sent, files>>

End == at = "end" /\ Calls("lseek", 0, LSEEK_END, <<>>)
Ended ==
    /\ at = "end" /\ phase = "back"
    /\ size' = ret
    /\ Goes(IF Fails THEN "close0" ELSE "rewind")
    /\ UNCHANGED <<status, fd0, fd1, total, bytes, sent, files>>

Rewind == at = "rewind" /\ Calls("lseek", 0, LSEEK_SET, <<>>)
Rewound ==
    /\ at = "rewind" /\ phase = "back"
    /\ Goes(IF Fails THEN "close0" ELSE "open1")
    /\ UNCHANGED <<status, copying, files>>

Open1 == at = "open1" /\ Calls("open", 1, 0, <<>>)
Opened1 ==
    /\ at = "open1" /\ phase = "back"
    /\ fd1' = ret
    /\ Goes(IF Fails THEN "close0" ELSE "read")
    /\ UNCHANGED <<status, fd0, size, total, bytes, sent, files>>

Read ==
    /\ at = "read" /\ total < size
    /\ Calls("read", 0, Smaller(size - total, Buffer), <<>>)

\* Mutant: a read of nothing is no error.
ReadFailsOnlyBelow == ret < 0 \/ (cmd = "copyfrom" /\ ret > call.n)
ReadFails == ret <= 0 \/ (cmd = "copyfrom" /\ ret > call.n)

\* bytes; an empty piece, if there were one, would leave total as it is.
HaveRead ==
    /\ at = "read" /\ phase = "back"
    /\ IF ReadFails THEN UNCHANGED <<bytes, sent>> ELSE bytes' = ret /\ sent' = 0
    /\ Goes(IF ReadFails THEN "close0" ELSE IF ret = 0 THEN "read" ELSE "write")
    /\ UNCHANGED <<status, fd0, fd1, size, total, files>>

Write == at = "write" /\ Calls("write", 1, bytes - sent, SubSeq(buffer, sent + 1, bytes))

WriteFails == ret <= 0 \/ (cmd = "copyto" /\ ret > bytes - sent)

\* Mutant: a short write is taken for a whole one.
SentAll == bytes
SentSoFar == sent + ret

HaveWritten ==
    /\ at = "write" /\ phase = "back"
    /\ \/ WriteFails /\ Goes("close0") /\ UNCHANGED <<sent, total>>
       \/ /\ ~WriteFails
          /\ sent' = SentSoFar
          /\ IF sent' < bytes THEN Goes("write") /\ UNCHANGED total
             ELSE Goes("read") /\ total' = total + bytes
    /\ UNCHANGED <<status, fd0, fd1, size, bytes, files>>

Copied ==
    /\ at = "read" /\ phase = "idle" /\ total >= size
    /\ status' = 0
    /\ Goes("close0")
    /\ UNCHANGED <<copying, files>>

\* done: both files are closed, and either close may still fail the copy.
Closing(side, label, fd, next) ==
    /\ at = label
    /\ \/ fd >= 0 /\ Calls("close", side, 0, <<>>)
       \/ /\ phase = "idle" /\ fd < 0
          /\ Goes(next) /\ UNCHANGED <<status, copying, files>>
       \/ /\ phase = "back"
          /\ status' = (IF Fails THEN -1 ELSE status)
          /\ Goes(next) /\ UNCHANGED <<copying, files>>

\* Mutant: a failed copy returns without closing the destination.
Close0Leaves == Closing(0, "close0", fd0, IF status = 0 THEN "close1" ELSE "exit")
Close0 == Closing(0, "close0", fd0, "close1")
Close1 == Closing(1, "close1", fd1, "exit")

\* delete, mkdir and rmdir; devlist, mount, sync and umount
Single ==
    /\ at = "single" /\ phase = "idle"
    /\ IF cmd \in {"delete", "mkdir", "rmdir"} THEN PathCall(cmd) ELSE DeviceCall(cmd)
    /\ UNCHANGED client

SingleDone ==
    /\ at = "single" /\ phase = "back"
    /\ status' = (IF Fails THEN -1 ELSE 0)
    /\ Goes("exit") /\ UNCHANGED <<copying, files>>

Dir(label) == at = label /\ phase = "idle" /\ DirCall(label) /\ UNCHANGED client
DirOpened ==
    /\ at = "dopen" /\ phase = "back"
    /\ Goes(IF Fails THEN "exit" ELSE "dread")
    /\ UNCHANGED <<status, copying, files>>

\* Whatever is not an entry ends the list: its end and an error look the same.
DirRead ==
    /\ at = "dread" /\ phase = "back"
    /\ files' = (IF ret > 0 THEN files + 1 ELSE files)
    /\ Goes(IF ret > 0 THEN "dread" ELSE "dclose")
    /\ UNCHANGED <<status, copying>>

\* Mutant: the result of the last call is not looked at.
DirStatusIgnored == 0
DirStatus == IF Fails THEN -1 ELSE 0
DirClosed ==
    /\ at = "dclose" /\ phase = "back"
    /\ status' = DirStatus
    /\ Goes("exit") /\ UNCHANGED <<copying, files>>

Copy == \/ Open0 \/ Opened0 \/ End \/ Ended \/ Rewind \/ Rewound \/ Open1 \/ Opened1
        \/ Read \/ HaveRead \/ Write \/ HaveWritten \/ Copied \/ Close0 \/ Close1
List == \/ Dir("dopen") \/ DirOpened \/ Dir("dread") \/ DirRead \/ Dir("dclose") \/ DirClosed

Client == Start \/ Copy \/ Single \/ SingleDone \/ List \/ Network
----------------------------------------------------------------------------
(* The ps2netfs server (external).                                         *)

\* The numbers it knows (doc/ps2netfs-protocol.txt).
Documented == [Number EXCEPT !.sync = "8131", !.mount = "8141", !.umount = "8151"]
Understood(number) == CHOOSE op \in DOMAIN Documented : Documented[op] = number

Response(op, r, data) ==
    <<Cell("head", 0), Cell("result", AsInt(r))>>
      \o (IF ResponseLength(op) = 3 THEN <<Cell("body", 0)>> ELSE <<>>) \o DataCells(data)

ServerSide == IF cmd = "copyfrom" THEN 0 ELSE 1

\* It knows the descriptors it gave out, and may get the count of a read or a
\* write wrong.
ServerResults(op, n) ==
    IF op \in {"read", "write", "lseek", "close"} /\ ServerSide \notin held THEN {-1}
    ELSE Results(op, ServerSide, n) \cup (IF op \in {"read", "write"} THEN {n + 1} ELSE {})

Serve ==
    /\ link = "up" /\ Len(to) >= 2
    /\ LET op == Understood(to[1].t)
           n == to[2].v
           length == IF op = "write" THEN n ELSE 0
           data == [i \in 1..length |-> to[i + 2].v]
       IN  /\ Len(to) >= 2 + length
           /\ to' = SubSeq(to, 3 + length, Len(to))
           /\ \E r \in ServerResults(op, n) :
                /\ FileOp(op, ServerSide, data, r)
                /\ from' = from \o Response(op, r, IF op # "read" THEN <<>>
                                                   ELSE IF r > n THEN [i \in 1..r |-> 0]
                                                   ELSE Piece(r))
                /\ left' = (IF op = "dread" /\ r > 0 THEN left - 1 ELSE left)
                /\ cut' = (cut \/ (op = "dread" /\ r < 0))
                /\ served' = served \cup {[op |-> op, name |-> to[2].t, ok |-> r >= 0]}
    /\ UNCHANGED <<client, rpc, link>>

\* It goes away, with a part of what it had to say.
Closes ==
    /\ link = "up" /\ at # "exit"
    /\ link' = "closed" /\ to' = <<>>
    /\ \E k \in 0..Len(from) : from' = SubSeq(from, 1, k)
    /\ UNCHANGED <<client, rpc, server>>

Exited == at = "exit" /\ UNCHANGED vars

Next == Client \/ Serve \/ Closes \/ Exited

Spec == Init /\ [][Next]_vars

\* fsclient runs, and the server answers or goes away: fsclient itself has no
\* timeout.
FairSpec == Spec /\ WF_vars(Client) /\ WF_vars(Serve)
----------------------------------------------------------------------------
(* Properties.                                                             *)

Labels == {"start", "open0", "end", "rewind", "open1", "read", "write", "close0", "close1",
           "single", "dopen", "dread", "dclose", "exit"}
Cells == [t : {Number[op] : op \in DOMAIN Number}
              \cup {"fits", "cut", "any", "head", "result", "body", "data"}, v : Int]

\* The type invariant: in particular the copies never use more than their buffer.
TypeOK ==
    /\ at \in Labels /\ status \in {-1, 0}
    /\ fd0 \in {-1, 0} /\ fd1 \in {-1, 1}
    /\ size \in -(IntMax + 1)..IntMax /\ total \in 0..IntMax
    /\ bytes \in 0..Buffer /\ sent \in 0..bytes
    /\ buffer \in Seq(Int) /\ Len(buffer) <= Buffer /\ files \in 0..Entries
    /\ phase \in {"idle", "send", "reply", "data", "back"} /\ ret \in Int
    /\ out \in Seq(Cells) /\ got \in Seq(Cells) /\ to \in Seq(Cells) /\ from \in Seq(Cells)
    /\ need \in Nat /\ link \in {"none", "up", "closed"}
    /\ source \in Seq(Nat) /\ dest \in Seq(Nat)
    /\ held \subseteq {0, 1} /\ pos \in Nat /\ left \in 0..Entries /\ cut \in BOOLEAN

\* fsclient_copyfrom, fsclient_copyto: whatever comes in pieces, comes short, is
\* refused or never comes, the copies do what FileCopy says.
Abstract == INSTANCE FileCopy WITH
    Sources <- {File(n) : n \in Lengths \cup {0}},
    result <- IF at # "exit" \/ cmd \notin Copies THEN "running"
              ELSE IF status = 0 THEN "copied" ELSE "failed"
CopyIsFaithful == Abstract!CopySpec

\* The operations a command stands for, and those without which it has not been done.
OpsOf == CASE cmd = "copyfrom" -> {"open", "lseek", "read", "close"}
           [] cmd = "copyto"   -> {"open", "write", "close"}
           [] cmd = "dir"      -> {"dopen", "dread", "dclose"}
           [] cmd \in Singles  -> {cmd}
           [] OTHER            -> {}
Needed == OpsOf \ {"lseek", "read", "write", "dread"}

\* doc/ps2netfs-protocol.txt, "0xBEEF8131 (sync request)": the server performs the
\* operations of the command that was given, on the pathname that was given, and
\* nothing else; exit status 0 says that it did so without an error.
ServedAsAsked ==
    /\ \A s \in served : s.op \in OpsOf /\ s.name = "fits"
    /\ at = "exit" /\ status = 0 =>
         \A op \in Needed : [op |-> op, name |-> "fits", ok |-> TRUE] \in served

\* The done: labels of the copies: every path out of them closes what it opened, on
\* both machines, also after a failure and with a stream out of step; only a
\* connection that is gone, or a close on its way, leaves a file open on the ps2.
NothingStaysOpen ==
    at = "exit" => \A side \in held : OnPs2(side) /\ (link = "closed" \/ to # <<>>)

\* fsclient_dir: a listing that ends with status 0 has every entry, however the
\* connection ended, unless the server refused to go on.
ListingIsWhole ==
    at = "exit" /\ cmd = "dir" /\ status = 0 => files = Entries \/ cut

\* No call waits for what cannot come and no loop goes on without progress: as
\* long as the server answers or goes away, fsclient ends.
Ends == <>(at = "exit")
=============================================================================
