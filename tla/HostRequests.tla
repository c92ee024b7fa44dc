---------------------------- MODULE HostRequests ----------------------------
(***************************************************************************)
(* The host: requests of ps2link and their responses (the request_ and     *)
(* response_ functions of ps2link.c): the file and directory descriptors   *)
(* ps2client hands out, its ten directory slots, and the two byte streams  *)
(* of the request connection, in which the data of a write follows its     *)
(* request and the data of a read follows its response.                    *)
(*                                                                         *)
(* A request is served in one step: the request thread is the only one     *)
(* that touches this state.  Ps2Client has the thread, its wake-ups and    *)
(* its end.  Files are reduced to what the handlers ask about them: a path *)
(* is absent, a file or a directory.                                       *)
(***************************************************************************)
EXTENDS Integers, Sequences, FiniteSets

CONSTANTS
    Entries,       \* the directories with entries: path -> name -> what the entry is
    Files,         \* other pathnames of the host
    MaxDd,         \* the slots of ps2link_dd
    MaxFd,         \* file descriptors 1..MaxFd are there for ps2link
    Failures,      \* what may go wrong, of Faults
    Excused,       \* the failures after which the properties below need not hold
    Depth,         \* bound: requests ps2link has under way
    MaxRequests    \* bound: requests in all

Paths == DOMAIN Entries \cup Files
NoPath == "no path"
Slots == 0..(MaxDd - 1)
Fds == 1..MaxFd
Kinds == {"absent", "file", "dir"}

\* What may go wrong: malloc of a big buffer ("nomem"); opendir of what stat called a
\* directory ("opendir"); stat of an entry that has just gone ("stat"); another process
\* of the host changing a path between stat and open ("race").  The program does not
\* survive the others: malloc of a directory's pathname ("nopath"), and a localtime that
\* returns NULL for what a failed stat has left ("badtime").
Fatal == {"nopath", "badtime"}
Faults == {"nomem", "opendir", "stat", "race"} \cup Fatal

ASSUME HostAssumption ==
    /\ NoPath \notin Paths
    /\ \A d \in DOMAIN Entries : \A n \in DOMAIN Entries[d] : Entries[d][n] \in {"file", "dir"}
    /\ MaxDd \in Nat /\ MaxFd \in Nat /\ Depth \in Nat /\ MaxRequests \in Nat
    /\ Failures \subseteq Faults /\ Excused \subseteq Failures

VARIABLES
    dd,                       \* ps2link_dd: slot -> the DIR's directory and the pathname
    streams, names,           \* DIR streams open, pathnames allocated
    fds,                      \* descriptor -> what was opened
    disk,                     \* path -> what is there
    stream, lost,             \* what ps2link sent and is not read yet; the thread ended
    asked, inbox,             \* ps2link: requests under way, what it received and has not read
    files, handles,           \* ps2link: the descriptors its programs have
    closed, requests,         \* ps2link: connection closed; requests so far
    failed                    \* history: the failures that happened

dirVars == <<dd, streams, names>>
hostVars == <<dirVars, fds, disk, failed>>
ps2Vars == <<asked, files, handles, closed, requests>>
vars == <<hostVars, stream, lost, inbox, ps2Vars>>

Empty == [dir |-> NoPath, pathname |-> NoPath]
Request(op, path, n) ==
    [op |-> op, path |-> path, n |-> n, big |-> FALSE, creat |-> FALSE, dir |-> NoPath]
\* Data, in either direction.
Data == Request("data", NoPath, 0)

Init ==
    /\ dd = [i \in Slots |-> Empty] /\ streams = 0 /\ names = 0
    /\ fds = [fd \in Fds |-> "free"]
    /\ disk = [p \in Paths |-> IF p \in Files THEN "file" ELSE "dir"]
    /\ stream = <<>> /\ lost = FALSE /\ inbox = <<>>
    /\ asked = <<>> /\ files = {} /\ handles = {} /\ closed = FALSE /\ requests = 0
    /\ failed = {}
----------------------------------------------------------------------------
(* Serving a request.                                                      *)

Dead == failed \cap Fatal # {}

\* The next header has been read.
Serving(op) == ~lost /\ ~Dead /\ stream # <<>> /\ Head(stream).op = op
Took == stream' = Tail(stream) /\ UNCHANGED <<lost, ps2Vars>>
Fails(f) == f \in Failures /\ failed' = failed \cup {f}

\* The program dies in the handler: the request is never done with.
DiesServing(op, f) == Serving(op) /\ Fails(f) /\ UNCHANGED <<dirVars, fds, disk, stream, lost,
                                                            inbox, ps2Vars>>

\* ps2link_response_*: nobody looks at what network_send returns.
Response(result, name, sort) ==
    [op |-> Head(stream).op, result |-> result, name |-> name, sort |-> sort, req |-> Head(stream)]
Reply(result) == Response(result, NoPath, "none")
Entry(name, sort) == Response(1, name, sort)
Send(replies) == inbox' = (IF closed THEN inbox ELSE inbox \o replies)

\* Posix, as far as the handlers can tell.
LowestFree(fd) == fds[fd] = "free" /\ \A f \in Fds : fds[f] = "free" => fd <= f
PosixOpens(kind, creat, fd) ==
    \/ fd = -1
    \/ /\ fd \in Fds /\ LowestFree(fd)
       /\ kind = "absent" => creat
       /\ kind = "dir" => ~creat
PosixEmpty(p) == disk[p] = "dir" /\ p \notin DOMAIN Entries
EntriesOf(p) == IF p \in DOMAIN Entries THEN Entries[p] ELSE <<>>
IsOpen(fd) == fd \in Fds /\ fds[fd] # "free"

\* Mutant: directories are not told from files.
OpenAllowedAny(r) == TRUE
OpenAllowed(r) == disk[r.path] = "file" \/ r.creat

\* What open finds is what stat saw, unless another process came in between.
Meanwhile(p, kind) ==
    \/ kind = disk[p] /\ UNCHANGED failed
    \/ p \in Files /\ Fails("race")

RequestOpen ==
    /\ Serving("open") /\ Took
    /\ LET r == Head(stream)
       IN  \E fd \in Fds \cup {-1}, kind \in Kinds :
             /\ Meanwhile(r.path, kind)
             /\ IF OpenAllowed(r) THEN PosixOpens(kind, r.creat, fd) ELSE fd = -1
             /\ LET left == IF fd # -1 /\ kind = "absent" THEN "file" ELSE kind
                IN  /\ disk' = [disk EXCEPT ![r.path] = left]
                    /\ fds' = (IF fd = -1 THEN fds ELSE [fds EXCEPT ![fd] = left])
             /\ Send(<<Reply(fd)>>)
    /\ UNCHANGED dirVars

RequestClose ==
    /\ Serving("close") /\ Took
    /\ LET fd == Head(stream).n
       IN  IF IsOpen(fd)
             THEN fds' = [fds EXCEPT ![fd] = "free"] /\ Send(<<Reply(0)>>)
             ELSE UNCHANGED fds /\ Send(<<Reply(-1)>>)
    /\ UNCHANGED <<dirVars, disk, failed>>

\* Mutant: as much is sent as was asked for, whatever read returned.
ReadRepliesAsked(size) == <<Reply(size), Data>>
ReadReplies(size) == IF size > 0 THEN <<Reply(size), Data>> ELSE <<Reply(size)>>

RequestRead ==
    /\ Serving("read") /\ Took
    /\ \/ Head(stream).big /\ "nomem" \in Failures /\ Send(<<Reply(-1)>>)
       \/ \E size \in -1..1 :
            /\ size >= 0 => IsOpen(Head(stream).n)
            /\ Send(ReadReplies(size))
    /\ UNCHANGED hostVars

\* The data is read before anything is written.  It may not come: then the
\* connection is closed, which the next header will show.
RequestWrite ==
    /\ Serving("write") /\ UNCHANGED <<lost, ps2Vars, dirVars, fds, disk>>
    /\ \/ /\ Head(stream).big /\ Fails("nomem")
          /\ stream' = Tail(stream) /\ UNCHANGED inbox
       \/ /\ Len(stream) = 1
          /\ stream' = Tail(stream) /\ UNCHANGED <<inbox, failed>>
       \/ /\ Len(stream) > 1
          /\ stream' = Tail(Tail(stream)) /\ UNCHANGED failed
          /\ \E result \in {-1, 1} :
               (result = 1 => IsOpen(Head(stream).n)) /\ Send(<<Reply(result)>>)

RequestLseek ==
    /\ Serving("lseek") /\ Took
    /\ \E result \in {-1, 0} :
         (result = 0 => IsOpen(Head(stream).n)) /\ Send(<<Reply(result)>>)
    /\ UNCHANGED hostVars

FreeSlot(i) == dd[i].dir = NoPath /\ \A j \in Slots : dd[j].dir = NoPath => i <= j

\* Mutant: the loop's counter is answered when no slot is free.
NoSlotCounted == MaxDd
NoSlot == -1

\* The slot is answered even when opendir fails and leaves it free.
RequestOpendir ==
    /\ Serving("opendir") /\ Took
    /\ LET p == Head(stream).path
       IN  \/ \E i \in Slots :
                /\ disk[p] = "dir" /\ FreeSlot(i)
                /\ names' = names + 1
                /\ \/ /\ dd' = [dd EXCEPT ![i] = [dir |-> p, pathname |-> p]]
                      /\ streams' = streams + 1 /\ UNCHANGED failed
                   \/ /\ Fails("opendir")
                      /\ dd' = [dd EXCEPT ![i] = [dir |-> NoPath, pathname |-> p]]
                      /\ UNCHANGED streams
                /\ Send(<<Reply(i)>>)
           \/ /\ disk[p] # "dir" \/ \A i \in Slots : ~FreeSlot(i)
              /\ Send(<<Reply(NoSlot)>>)
              /\ UNCHANGED <<dirVars, failed>>
    /\ UNCHANGED <<fds, disk>>

\* strcpy to the NULL that malloc returned
OpendirDies ==
    /\ DiesServing("opendir", "nopath")
    /\ disk[Head(stream).path] = "dir" /\ \E i \in Slots : FreeSlot(i)

\* An open directory; the comparison is unsigned, so that -1 is none.
GoodDd(n) == n \in Slots /\ dd[n].dir # NoPath

\* Mutant: nothing is answered when the descriptor is bad.
ClosedirBadSilent == UNCHANGED inbox
ClosedirBad == Send(<<Reply(-1)>>)

\* Mutant: the pathname is kept.
ClosedirPathKept(i) ==
    /\ dd' = [dd EXCEPT ![i].dir = NoPath]
    /\ UNCHANGED names
\* dir and pathname are given back together.
ClosedirFree(i) ==
    /\ dd' = [dd EXCEPT ![i] = Empty]
    /\ names' = (IF dd[i].pathname # NoPath THEN names - 1 ELSE names)

RequestClosedir ==
    /\ Serving("closedir") /\ Took
    /\ LET i == Head(stream).n
       IN  IF GoodDd(i)
             THEN ClosedirFree(i) /\ streams' = streams - 1 /\ Send(<<Reply(0)>>)
             ELSE ClosedirBad /\ UNCHANGED dirVars
    /\ UNCHANGED <<fds, disk, failed>>

\* Mutant: the entry is looked up in the current directory.
StatEntryHere(i, name) ==
    LET cwd == CHOOSE d \in DOMAIN Entries : TRUE IN Entries[cwd][name]
StatEntry(i, name) == EntriesOf(dd[i].pathname)[name]

\* An entry that has gone when stat looks leaves stats as it was on the stack.
RequestReaddir ==
    /\ Serving("readdir") /\ Took
    /\ LET i == Head(stream).n
       IN  \/ ~GoodDd(i) /\ Send(<<Reply(-1)>>) /\ UNCHANGED failed
           \/ GoodDd(i) /\ Send(<<Reply(0)>>) /\ UNCHANGED failed
           \/ /\ GoodDd(i)
              /\ \E name \in DOMAIN EntriesOf(dd[i].dir) :
                   \/ Send(<<Entry(name, StatEntry(i, name))>>) /\ UNCHANGED failed
                   \/ /\ Fails("stat")
                      /\ \E sort \in {"none", "file", "dir"} : Send(<<Entry(name, sort)>>)
    /\ UNCHANGED <<dirVars, fds, disk>>

\* The times on the stack may be none localtime can convert, and NULL is dereferenced.
ReaddirDies ==
    /\ DiesServing("readdir", "badtime")
    /\ GoodDd(Head(stream).n) /\ DOMAIN EntriesOf(dd[Head(stream).n].dir) # {}

\* remove, mkdir and rmdir pass the call on; so does getstat, which tells what is there.
RequestPath(op, works, kind) ==
    /\ Serving(op) /\ Took
    /\ \/ /\ works
          /\ disk' = [disk EXCEPT ![Head(stream).path] = kind]
          /\ Send(<<Reply(0)>>)
       \/ UNCHANGED disk /\ Send(<<Reply(-1)>>)
    /\ UNCHANGED <<dirVars, fds, failed>>

RequestRemove == RequestPath("remove", LET p == Head(stream).path
                                       IN  disk[p] = "file" \/ PosixEmpty(p), "absent")
RequestMkdir == RequestPath("mkdir", disk[Head(stream).path] = "absent", "dir")
RequestRmdir == RequestPath("rmdir", PosixEmpty(Head(stream).path), "absent")

RequestGetstat ==
    /\ Serving("getstat") /\ Took
    /\ LET kind == disk[Head(stream).path]
       IN  Send(<<IF kind = "absent" THEN Reply(-1)
                  ELSE Response(0, NoPath, kind)>>)
    /\ UNCHANGED hostVars

\* No handler has this number, and no response is sent.
RequestUnknown ==
    /\ Serving("unknown") /\ Took
    /\ UNCHANGED <<hostVars, inbox>>

\* The data of a write that was not read is taken for a header: a bad length
\* ends the thread; otherwise its number is unknown, and the rest of the packet
\* may take in the start of what follows.
RequestGarbage ==
    /\ Serving("data")
    /\ \/ stream' = Tail(stream) /\ lost' \in BOOLEAN
       \/ /\ Len(stream) > 1
          /\ stream' = <<Data>> \o Tail(Tail(stream)) /\ UNCHANGED lost
    /\ UNCHANGED <<hostVars, inbox, ps2Vars>>

\* network_receive_all fails on the header.
ReceiveFails ==
    /\ closed /\ stream = <<>> /\ ~lost /\ ~Dead
    /\ lost' = TRUE
    /\ UNCHANGED <<hostVars, stream, inbox, ps2Vars>>

Serve == \/ RequestOpen \/ RequestClose \/ RequestRead \/ RequestWrite \/ RequestLseek
         \/ RequestOpendir \/ OpendirDies \/ RequestClosedir
         \/ RequestReaddir \/ ReaddirDies
         \/ RequestRemove \/ RequestMkdir \/ RequestRmdir \/ RequestGetstat
         \/ RequestUnknown \/ RequestGarbage \/ ReceiveFails
----------------------------------------------------------------------------
(* ps2link and its programs.                                               *)

Asks(r) ==
    /\ ~closed /\ requests < MaxRequests /\ Len(asked) < Depth
    /\ requests' = requests + 1
    /\ stream' = stream \o (IF r.op = "write" THEN <<r, Data>> ELSE <<r>>)
    /\ asked' = (IF r.op = "unknown" THEN asked ELSE Append(asked, r))
    /\ UNCHANGED <<hostVars, lost, inbox, closed>>

AskPath ==
    /\ \E p \in Paths :
         \/ \E op \in {"opendir", "remove", "mkdir", "rmdir", "getstat"} :
              Asks(Request(op, p, 0))
         \/ \E c \in BOOLEAN : Asks([Request("open", p, 0) EXCEPT !.creat = c])
    /\ UNCHANGED <<files, handles>>

\* A program closes what it opened; everything else it may try with any number.
AskFile ==
    \/ \E fd \in files \cup {-1}, b \in BOOLEAN, op \in {"read", "write"} :
         Asks([Request(op, NoPath, fd) EXCEPT !.big = b]) /\ UNCHANGED <<files, handles>>
    \/ \E fd \in files \cup {-1} :
         Asks(Request("lseek", NoPath, fd)) /\ UNCHANGED <<files, handles>>
    \/ \E fd \in files \cup {-1} :
         Asks(Request("close", NoPath, fd)) /\ files' = files \ {fd} /\ UNCHANGED handles

AskDir ==
    \/ \E h \in handles :
         /\ Asks([Request("readdir", NoPath, h.dd) EXCEPT !.dir = h.dir])
         /\ UNCHANGED <<files, handles>>
    \/ \E h \in handles :
         /\ Asks([Request("closedir", NoPath, h.dd) EXCEPT !.dir = h.dir])
         /\ handles' = handles \ {h} /\ UNCHANGED files
    \/ \E op \in {"readdir", "closedir"}, n \in {-1, MaxDd} :
         Asks(Request(op, NoPath, n)) /\ UNCHANGED <<files, handles>>

AskUnknown == Asks(Request("unknown", NoPath, 0)) /\ UNCHANGED <<files, handles>>

\* ps2link reads the response to its oldest request, and a read's data with it.
TakeReply ==
    /\ asked # <<>> /\ inbox # <<>> /\ Head(inbox).op = Head(asked).op
    /\ LET r == Head(inbox)
       IN  /\ inbox' = (IF r.op = "read" /\ r.result > 0 THEN Tail(Tail(inbox)) ELSE Tail(inbox))
           /\ files' = (IF r.op = "open" /\ r.result >= 0 THEN files \cup {r.result} ELSE files)
           /\ handles' = (IF r.op = "opendir" /\ r.result >= 0
                            THEN handles \cup {[dd |-> r.result, dir |-> Head(asked).path]}
                            ELSE handles)
    /\ asked' = Tail(asked)
    /\ UNCHANGED <<hostVars, stream, lost, closed, requests>>

\* The ps2 is reset; the data of its last write may not have been sent.
Closes ==
    /\ ~closed
    /\ closed' = TRUE
    /\ asked' = <<>> /\ inbox' = <<>> /\ files' = {} /\ handles' = {}
    /\ \/ UNCHANGED stream
       \/ /\ stream # <<>> /\ stream[Len(stream)] = Data
          /\ stream' = SubSeq(stream, 1, Len(stream) - 1)
    /\ UNCHANGED <<hostVars, lost, requests>>

Ps2 == AskPath \/ AskFile \/ AskDir \/ AskUnknown \/ TakeReply \/ Closes

Next == Serve \/ Ps2

Spec == Init /\ [][Next]_vars
----------------------------------------------------------------------------
(* Properties.                                                             *)

PathOps == {"open", "opendir", "remove", "mkdir", "rmdir", "getstat"}
Ops == PathOps \cup {"close", "read", "write", "lseek", "closedir", "readdir", "unknown", "data"}
Requests ==
    {r \in [op : Ops, path : Paths \cup {NoPath}, n : Fds \cup Slots \cup {-1, 0, MaxDd},
            big : BOOLEAN, creat : BOOLEAN, dir : Paths \cup {NoPath}] :
       r.op \in PathOps => r.path \in Paths}
Names == UNION {DOMAIN Entries[d] : d \in DOMAIN Entries}
Replies ==
    {m \in [op : Ops \ {"unknown", "data"}, result : Int, name : Names \cup {NoPath},
            sort : {"none", "file", "dir"}, req : Requests] :
       /\ m.req.op = m.op
       /\ m.op = "open" => m.result \in Fds \cup {-1}
       /\ m.op = "opendir" => m.result \in Slots \cup {-1}}

\* The type invariant: slots, descriptors and paths keep to their values, and so do
\* the requests and responses under way.
TypeOK ==
    /\ dd \in [Slots -> [dir : Paths \cup {NoPath}, pathname : Paths \cup {NoPath}]]
    /\ streams \in Nat /\ names \in Nat
    /\ fds \in [Fds -> {"free", "file", "dir"}] /\ disk \in [Paths -> Kinds]
    /\ stream \in Seq(Requests) /\ asked \in Seq(Requests) /\ inbox \in Seq(Replies \cup {Data})
    /\ lost \in BOOLEAN /\ closed \in BOOLEAN /\ requests \in 0..MaxRequests
    /\ files \subseteq Fds /\ handles \subseteq [dd : Slots, dir : Paths]
    /\ failed \subseteq Failures

\* What went wrong is among the failures the run makes allowance for.
Spared(f) == f \in Excused /\ f \in failed

\* ps2link_request_readdir: a program that opened a directory gets the entries of
\* that directory, each told for what it is, whoever else opens and closes
\* directories, and however often the ten slots are used again.
ReadsItsDirectory == Spared("opendir") \/ Spared("stat") \/ Spared("nomem") \/
    \A i \in DOMAIN inbox : inbox[i].op = "readdir" /\ inbox[i].result = 1 =>
      LET d == EntriesOf(inbox[i].req.dir)
      IN  inbox[i].name \in DOMAIN d /\ inbox[i].sort = d[inbox[i].name]

\* ps2link_request_opendir and _closedir: every DIR stream and every pathname is
\* in a slot, so that a program can have it closed and freed.
NothingLeaks == Spared("opendir") \/
    /\ streams = Cardinality({i \in Slots : dd[i].dir # NoPath})
    /\ names = Cardinality({i \in Slots : dd[i].pathname # NoPath})

\* ps2link_request_open: no descriptor of a directory is ever handed out as a file,
\* unless the host's tree changes between stat and open.
OpensFilesOnly == Spared("race") \/ \A fd \in Fds : fds[fd] # "dir"

\* The two streams stay in step: what ps2link takes for a response is the
\* response to its oldest request, and what the request thread takes for a
\* header is one.
InStep == Spared("nomem") \/
    /\ inbox # <<>> => asked # <<>> /\ Head(inbox).op = Head(asked).op
    /\ stream # <<>> => Head(stream).op # "data"

\* doc/ps2link-protocol.txt: "A single response packet is sent with the result of
\* the operation."  Once everything sent is read, or the program is gone, no request is
\* left waiting as long as the connection is up.
EveryRequestAnswered ==
    (stream = <<>> \/ Dead) /\ inbox = <<>> /\ ~closed /\ ~lost =>
      asked = <<>> \/ \E f \in Fatal \cup {"nomem"} : Spared(f)
=============================================================================
