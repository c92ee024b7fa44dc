------------------------- MODULE HostRequestsProofs -------------------------
(***************************************************************************)
(* What the host side promises, for every tree of files, number of slots,  *)
(* descriptors and requests, and every set of failures.                    *)
(***************************************************************************)
EXTENDS HostRequests, FiniteSetTheorems, TLAPS

\* A failure that may happen and the properties make allowance for.
Allowed(f) == f \in Failures => f \in Excused

Full == "nomem" \notin failed
DirsOpen == "opendir" \notin failed
Waits(r) == r.op \notin {"unknown", "data"}

\* Slots: every DIR stream is in a slot; a pathname is lost only to a failed opendir.
OpenDirs == {i \in Slots : dd[i].dir # NoPath}
NamedDirs == {i \in Slots : dd[i].pathname # NoPath}
LeakInv ==
    /\ streams = Cardinality(OpenDirs)
    /\ names >= Cardinality(NamedDirs)
    /\ \A i \in OpenDirs : dd[i].pathname = dd[i].dir
    /\ DirsOpen => names = Cardinality(NamedDirs) /\ \A i \in Slots : dd[i].pathname = dd[i].dir

\* Descriptors: a directory gets one only by a change between stat and open.
FilesFine == "race" \notin failed => \A fd \in Fds : fds[fd] # "dir"

\* A closed connection carries nothing, and nobody waits for what is not answered.
EndInv ==
    /\ closed => inbox = <<>> /\ asked = <<>> /\ handles = {}
    /\ \A k \in 1..Len(asked) : Waits(asked[k])

\* Data follows what announces it: a write's request, a read's response.
StreamShape ==
    /\ \A i \in 1..Len(stream) : stream[i].op = "data" => i > 1 /\ stream[i - 1].op = "write"
    /\ \A i \in 1..Len(stream) : stream[i].op = "write" =>
         IF i < Len(stream) THEN stream[i + 1].op = "data" ELSE closed
InboxShape ==
    /\ \A i \in 1..Len(inbox) : inbox[i].op = "data" =>
         i > 1 /\ inbox[i - 1].op = "read" /\ inbox[i - 1].result > 0
    /\ \A i \in 1..Len(inbox) : inbox[i].op = "read" /\ inbox[i].result > 0 =>
         i < Len(inbox) /\ inbox[i + 1].op = "data"

\* What lies between ps2link's requests and their answers: the responses it has not
\* read, then the requests the host has not read.  w and n: the items and how many.
Answers(m) == IF m.op = "data" THEN Data ELSE m.req
Under(i) == IF i <= Len(inbox) THEN Answers(inbox[i]) ELSE stream[i - Len(inbox)]
UnderWay == [i \in 1..(Len(inbox) + Len(stream)) |-> Under(i)]

\* f takes every request ps2link waits for to its place, in the order of asking.
Match(w, n, a, f) ==
    /\ f \in [1..Len(a) -> 1..n]
    /\ \A j, k \in 1..Len(a) : j < k => f[j] < f[k]
    /\ \A k \in 1..Len(a) : w[f[k]] = a[k]
    /\ \A i \in 1..n : Waits(w[i]) => \E k \in 1..Len(a) : f[k] = i
Matches(w, n, a) == \E f \in [1..Len(a) -> 1..n] : Match(w, n, a, f)
MatchInv == ~closed => Matches(UnderWay, Len(inbox) + Len(stream), asked)

\* Directories: whoever has a slot's number has the directory that is open there, and
\* nobody has it once its closedir is on its way.
ByHandle(r) == r.op \in {"readdir", "closedir"} /\ r.dir # NoPath
ByNumber(r) == r.op \in {"readdir", "closedir"} /\ r.dir = NoPath
Opened(m) == m.op = "opendir" /\ m.result >= 0
HandleInv ==
    /\ \A h \in handles : dd[h.dd].dir = h.dir
    /\ \A g, h \in handles : g.dd = h.dd => g = h
QueueInv ==
    /\ \A k \in 1..Len(stream) : ByNumber(stream[k]) => stream[k].n \notin Slots
    /\ \A k \in 1..Len(stream) : ByHandle(stream[k]) =>
         stream[k].n \in Slots /\ dd[stream[k].n].dir = stream[k].dir
    /\ \A j, k \in 1..Len(stream) :
         j < k /\ stream[j].op = "closedir" /\ ByHandle(stream[j]) /\ ByHandle(stream[k])
           => stream[j].n # stream[k].n
    /\ \A h \in handles : \A k \in 1..Len(stream) :
         stream[k].op = "closedir" /\ ByHandle(stream[k]) => stream[k].n # h.dd
Unheld(n, hs, s) ==
    /\ \A h \in hs : h.dd # n
    /\ \A k \in 1..Len(s) : ByHandle(s[k]) => s[k].n # n
OpenedInv ==
    /\ \A i \in 1..Len(inbox) : Opened(inbox[i]) =>
         dd[inbox[i].result].dir = inbox[i].req.path /\ Unheld(inbox[i].result, handles, stream)
    /\ \A i, j \in 1..Len(inbox) : Opened(inbox[i]) /\ Opened(inbox[j]) /\ i # j =>
         inbox[i].result # inbox[j].result

\* Every entry that was answered is one of its directory.
GoodEntry(m) == m.op = "readdir" /\ m.result = 1 =>
    LET d == EntriesOf(m.req.dir) IN m.name \in DOMAIN d /\ m.sort = d[m.name]
EntryInv == "stat" \notin failed => \A i \in 1..Len(inbox) : GoodEntry(inbox[i])

DirOk == HandleInv /\ QueueInv /\ OpenedInv /\ EntryInv
DirInv == Full /\ DirsOpen /\ ~closed => DirOk

Inv ==
    /\ TypeOK /\ LeakInv /\ FilesFine /\ EndInv /\ InboxShape
    /\ Full => StreamShape /\ MatchInv
    /\ DirInv
----------------------------------------------------------------------------
(* Sequences.                                                              *)

LEMMA TailFacts ==
    ASSUME NEW S, NEW s \in Seq(S), s # <<>>
    PROVE  /\ Tail(s) \in Seq(S) /\ Len(s) \in Nat /\ Len(s) >= 1 /\ Len(Tail(s)) = Len(s) - 1
           /\ Head(s) = s[1] /\ Head(s) \in S
           /\ \A i \in 1..(Len(s) - 1) : Tail(s)[i] = s[i + 1]
OBVIOUS

LEMMA TailTwoFacts ==
    ASSUME NEW S, NEW s \in Seq(S), Len(s) > 1
    PROVE  /\ Tail(Tail(s)) \in Seq(S) /\ Len(s) \in Nat /\ Len(Tail(Tail(s))) = Len(s) - 2
           /\ \A i \in 1..(Len(s) - 2) : Tail(Tail(s))[i] = s[i + 2]
<1> DEFINE t == Tail(s)
<1>1. s # <<>>
  OBVIOUS
<1>2. /\ t \in Seq(S) /\ Len(s) \in Nat /\ Len(t) = Len(s) - 1
      /\ \A i \in 1..(Len(s) - 1) : t[i] = s[i + 1]
  BY <1>1, TailFacts
<1> HIDE DEF t
<1>3. t # <<>>
  <2>1. Len(t) >= 1
    BY <1>2
  <2> QED
    BY <2>1
<1>4. /\ Tail(t) \in Seq(S) /\ Len(Tail(t)) = Len(t) - 1
      /\ \A i \in 1..(Len(t) - 1) : Tail(t)[i] = t[i + 1]
  BY <1>2, <1>3, TailFacts
<1>5. Len(Tail(t)) = Len(s) - 2
  BY <1>2, <1>4
<1>6. ASSUME NEW i \in 1..(Len(s) - 2) PROVE Tail(t)[i] = s[i + 2]
  <2>1. i \in 1..(Len(t) - 1) /\ i + 1 \in 1..(Len(s) - 1) /\ (i + 1) + 1 = i + 2
    BY <1>2
  <2> QED
    BY <1>2, <1>4, <2>1
<1> QED
  BY <1>2, <1>4, <1>5, <1>6 DEF t

LEMMA AddFacts ==
    ASSUME NEW S, NEW s \in Seq(S), NEW x \in S
    PROVE  /\ s \o <<x>> \in Seq(S) /\ Len(s) \in Nat /\ Len(s \o <<x>>) = Len(s) + 1
           /\ \A i \in 1..Len(s) : (s \o <<x>>)[i] = s[i]
           /\ (s \o <<x>>)[Len(s) + 1] = x
OBVIOUS

LEMMA AddTwoFacts ==
    ASSUME NEW S, NEW s \in Seq(S), NEW x \in S, NEW y \in S
    PROVE  /\ s \o <<x, y>> \in Seq(S) /\ Len(s) \in Nat /\ Len(s \o <<x, y>>) = Len(s) + 2
           /\ \A i \in 1..Len(s) : (s \o <<x, y>>)[i] = s[i]
           /\ (s \o <<x, y>>)[Len(s) + 1] = x /\ (s \o <<x, y>>)[Len(s) + 2] = y
OBVIOUS

LEMMA AppendFacts ==
    ASSUME NEW S, NEW s \in Seq(S), NEW x \in S
    PROVE  /\ Append(s, x) \in Seq(S) /\ Len(s) \in Nat /\ Len(Append(s, x)) = Len(s) + 1
           /\ \A i \in 1..Len(s) : Append(s, x)[i] = s[i]
           /\ Append(s, x)[Len(s) + 1] = x
OBVIOUS

LEMMA CutFacts ==
    ASSUME NEW S, NEW s \in Seq(S), s # <<>>
    PROVE  LET t == SubSeq(s, 1, Len(s) - 1)
           IN  /\ t \in Seq(S) /\ Len(s) \in Nat /\ Len(s) >= 1 /\ Len(t) = Len(s) - 1
               /\ \A i \in 1..(Len(s) - 1) : t[i] = s[i]
<1>1. Len(s) \in Nat /\ Len(s) >= 1
  OBVIOUS
<1> DEFINE n == Len(s) - 1
           t == SubSeq(s, 1, n)
<1>2. n \in Nat /\ n <= Len(s)
  BY <1>1
<1> HIDE DEF n
<1>3. t \in Seq(S) /\ Len(t) = n
  BY <1>2
<1>4. \A i \in 1..n : t[i] = s[i]
  BY <1>2
<1> QED
  BY <1>1, <1>3, <1>4 DEF n
----------------------------------------------------------------------------
(* Requests and responses.                                                 *)

LEMMA HostTypes ==
    /\ NoPath \notin Paths /\ MaxDd \in Nat /\ MaxFd \in Nat
    /\ \A d \in DOMAIN Entries : \A n \in DOMAIN Entries[d] : Entries[d][n] \in {"file", "dir"}
    /\ Slots \subseteq Nat /\ Fds \subseteq Nat /\ -1 \notin Slots /\ MaxDd \notin Slots
BY HostAssumption DEF Slots, Fds

LEMMA DataFacts ==
    /\ Data \in Requests /\ Data.op = "data" /\ ~Waits(Data)
BY DEF Data, Request, Requests, Ops, PathOps, Waits

\* What may be known of a request by its fields.
LEMMA RequestFields ==
    ASSUME NEW r \in Requests
    PROVE  /\ r.op \in Ops /\ r.path \in Paths \cup {NoPath} /\ r.dir \in Paths \cup {NoPath}
           /\ r.n \in Fds \cup Slots \cup {-1, 0, MaxDd}
           /\ r.big \in BOOLEAN /\ r.creat \in BOOLEAN
           /\ r.op \in PathOps => r.path \in Paths
BY DEF Requests

LEMMA ReplyFields ==
    ASSUME NEW m \in Replies
    PROVE  /\ m.op \in Ops \ {"unknown", "data"} /\ m.result \in Int /\ m.req \in Requests
           /\ m.req.op = m.op
           /\ m.op = "open" => m.result \in Fds \cup {-1}
           /\ m.op = "opendir" => m.result \in Slots \cup {-1}
BY DEF Replies

\* A response to the request that is being served.
LEMMA ResponseTypes ==
    ASSUME Head(stream) \in Requests, Waits(Head(stream)),
           NEW result \in Int, NEW name \in Names \cup {NoPath}, NEW sort \in {"none", "file", "dir"},
           Head(stream).op = "open" => result \in Fds \cup {-1},
           Head(stream).op = "opendir" => result \in Slots \cup {-1}
    PROVE  LET m == Response(result, name, sort)
           IN  /\ m \in Replies /\ m.op = Head(stream).op /\ m.req = Head(stream)
               /\ m.result = result /\ m.name = name /\ m.sort = sort
<1> DEFINE r == Head(stream)
           m == [op |-> r.op, result |-> result, name |-> name, sort |-> sort, req |-> r]
<1>1. r.op \in Ops \ {"unknown", "data"}
  BY RequestFields DEF Waits
<1>2. Response(result, name, sort) = m
  BY DEF Response
<1>3. /\ r \in Requests /\ (r.op = "open" => result \in Fds \cup {-1})
      /\ (r.op = "opendir" => result \in Slots \cup {-1})
  OBVIOUS
<1> HIDE DEF r
<1>4. m \in Replies
  BY <1>1, <1>3 DEF Replies
<1> QED
  BY <1>2, <1>4 DEF r
----------------------------------------------------------------------------
(* What a handler does to the host's own state, and what it sends.         *)

HostOk ==
    /\ dd \in [Slots -> [dir : Paths \cup {NoPath}, pathname : Paths \cup {NoPath}]]
    /\ streams \in Nat /\ names \in Nat
    /\ fds \in [Fds -> {"free", "file", "dir"}] /\ disk \in [Paths -> Kinds]
    /\ failed \subseteq Failures /\ LeakInv /\ FilesFine

\* The request at hand is answered with m.
Answered(m) ==
    /\ stream # <<>> /\ stream' = Tail(stream)
    /\ m \in Replies /\ m.req = Head(stream)
    /\ inbox' = (IF closed THEN inbox ELSE inbox \o <<m>>)
    /\ UNCHANGED <<lost, asked, files, handles, closed, requests>>

LEMMA AnsweredBySend ==
    ASSUME NEW op, NEW m \in Replies, m.req = Head(stream), Serving(op), Took, Send(<<m>>)
    PROVE  Answered(m)
BY DEF Serving, Took, Send, Answered, ps2Vars

\* The request at hand.
LEMMA HeadFacts ==
    ASSUME TypeOK, NEW op \in Ops \ {"unknown", "data"}, Serving(op)
    PROVE  /\ stream # <<>> /\ Head(stream) \in Requests /\ Head(stream).op = op /\ Waits(Head(stream))
           /\ op \in PathOps => Head(stream).path \in Paths
<1>1. stream \in Seq(Requests) /\ stream # <<>> /\ Head(stream).op = op
  BY DEF TypeOK, Serving
<1>2. Head(stream) \in Requests
  BY <1>1, TailFacts
<1> QED
  BY <1>1, <1>2, RequestFields DEF Waits

LEMMA PlainReply ==
    ASSUME TypeOK, NEW op \in Ops \ {"unknown", "data", "open", "opendir"}, Serving(op), Took,
           NEW result \in Int, Send(<<Reply(result)>>)
    PROVE  LET m == Reply(result) IN Answered(m) /\ m.op = op /\ m.result = result
<1>1. Head(stream) \in Requests /\ Head(stream).op = op /\ Waits(Head(stream))
  BY HeadFacts
<1>2. NoPath \in Names \cup {NoPath} /\ "none" \in {"none", "file", "dir"}
  OBVIOUS
<1>3. LET m == Reply(result)
      IN  m \in Replies /\ m.op = op /\ m.req = Head(stream) /\ m.result = result
  BY <1>1, <1>2, ResponseTypes DEF Reply
<1> QED
  BY <1>3, AnsweredBySend

LEMMA HostKept == HostOk /\ UNCHANGED hostVars => HostOk'
BY DEF HostOk, hostVars, dirVars, LeakInv, FilesFine, OpenDirs, NamedDirs, DirsOpen

\* The slots are as they were.
LEMMA LeakKept == LeakInv /\ UNCHANGED <<dirVars, failed>> => LeakInv'
BY DEF LeakInv, dirVars, OpenDirs, NamedDirs, DirsOpen

LEMMA OpenActs ==
    ASSUME TypeOK, HostOk, RequestOpen
    PROVE  /\ HostOk' /\ UNCHANGED dirVars /\ failed \subseteq failed'
           /\ \E m : Answered(m) /\ m.op = "open"
<1> DEFINE r == Head(stream)
           left(fd, kind) == IF fd # -1 /\ kind = "absent" THEN "file" ELSE kind
<1>1. Serving("open") /\ Took /\ UNCHANGED dirVars
  BY DEF RequestOpen
<1>2. r \in Requests /\ r.op = "open" /\ Waits(r) /\ r.path \in Paths
  BY <1>1, HeadFacts DEF Ops, PathOps
<1>3. PICK fd \in Fds \cup {-1}, kind \in Kinds :
        /\ Meanwhile(r.path, kind)
        /\ IF OpenAllowed(r) THEN PosixOpens(kind, r.creat, fd) ELSE fd = -1
        /\ disk' = [disk EXCEPT ![r.path] = left(fd, kind)]
        /\ fds' = (IF fd = -1 THEN fds ELSE [fds EXCEPT ![fd] = left(fd, kind)])
        /\ Send(<<Reply(fd)>>)
  BY DEF RequestOpen
<1> HIDE DEF r
<1>4. fd \in Int
  <2>1. ASSUME NEW x \in Fds \cup {-1} PROVE x \in Int
    BY HostTypes
  <2> QED
    BY <2>1
<1>5. LET m == Reply(fd) IN m \in Replies /\ m.op = "open" /\ m.req = r
  BY <1>2, <1>3, <1>4, ResponseTypes DEF Reply, r
<1>6. \E m : Answered(m) /\ m.op = "open"
  BY <1>1, <1>3, <1>5, AnsweredBySend DEF r
<1>7. /\ failed \subseteq failed' /\ failed' \subseteq Failures
      /\ "opendir" \in failed' => "opendir" \in failed
      /\ "race" \notin failed' => kind = disk[r.path]
  BY <1>3 DEF Meanwhile, Fails, HostOk
<1>8. left(fd, kind) \in Kinds
  BY <1>3 DEF Kinds
<1>9. ASSUME fd # -1
      PROVE  /\ fd \in Fds /\ left(fd, kind) \in {"file", "dir"}
             /\ "race" \notin failed' => left(fd, kind) = "file"
  <2>1. fd \in Fds /\ OpenAllowed(r) /\ PosixOpens(kind, r.creat, fd)
    BY <1>3, <1>9
  <2>2. left(fd, kind) \in {"file", "dir"}
    BY <1>3, <1>9 DEF Kinds
  <2>3. ASSUME kind = disk[r.path] PROVE kind # "dir"
    BY <1>9, <2>1, <2>3 DEF OpenAllowed, PosixOpens
  <2> QED
    BY <1>7, <2>1, <2>2, <2>3
<1> HIDE DEF left
<1>10. disk' \in [Paths -> Kinds]
  BY <1>2, <1>3, <1>8 DEF HostOk
<1>11. fds' \in [Fds -> {"free", "file", "dir"}] /\ FilesFine'
  <2>1. CASE fd = -1
    BY <1>3, <1>7, <2>1 DEF HostOk, FilesFine
  <2>2. CASE fd # -1
    <3>1. fds' = [fds EXCEPT ![fd] = left(fd, kind)]
      BY <1>3, <2>2
    <3> QED
      BY <1>7, <1>9, <2>2, <3>1 DEF HostOk, FilesFine
  <2> QED
    BY <2>1, <2>2
<1>12. LeakInv'
  BY <1>1, <1>7 DEF HostOk, LeakInv, dirVars, OpenDirs, NamedDirs, DirsOpen
<1> QED
  BY <1>1, <1>6, <1>7, <1>10, <1>11, <1>12 DEF HostOk, dirVars

LEMMA CloseActs ==
    ASSUME TypeOK, HostOk, RequestClose
    PROVE  /\ HostOk' /\ UNCHANGED <<dirVars, failed>>
           /\ \E m : Answered(m) /\ m.op = "close"
<1>1. Serving("close") /\ Took /\ UNCHANGED <<dirVars, disk, failed>>
  BY DEF RequestClose
<1>2. \E result \in {0, -1} : Send(<<Reply(result)>>)
  BY DEF RequestClose
<1>3. \E m : Answered(m) /\ m.op = "close"
  BY <1>1, <1>2, PlainReply DEF Ops
<1>4. fds' \in [Fds -> {"free", "file", "dir"}] /\ FilesFine'
  BY DEF RequestClose, HostOk, FilesFine
<1>5. LeakInv'
  BY <1>1, LeakKept DEF HostOk
<1> QED
  BY <1>1, <1>3, <1>4, <1>5 DEF HostOk, dirVars

LEMMA LseekActs ==
    ASSUME TypeOK, HostOk, RequestLseek
    PROVE  /\ HostOk' /\ UNCHANGED <<dirVars, failed>>
           /\ \E m : Answered(m) /\ m.op = "lseek"
<1>1. Serving("lseek") /\ Took /\ UNCHANGED hostVars
  BY DEF RequestLseek
<1>2. \E result \in {-1, 0} : Send(<<Reply(result)>>)
  BY DEF RequestLseek
<1>3. \E m : Answered(m) /\ m.op = "lseek"
  BY <1>1, <1>2, PlainReply DEF Ops
<1> QED
  BY <1>1, <1>3, HostKept DEF hostVars

LEMMA GetstatActs ==
    ASSUME TypeOK, HostOk, RequestGetstat
    PROVE  /\ HostOk' /\ UNCHANGED <<dirVars, failed>>
           /\ \E m : Answered(m) /\ m.op = "getstat"
<1> DEFINE kind == disk[Head(stream).path]
<1>1. Serving("getstat") /\ Took /\ UNCHANGED hostVars
  BY DEF RequestGetstat
<1>2. /\ Head(stream) \in Requests /\ Head(stream).op = "getstat" /\ Waits(Head(stream))
      /\ Head(stream).path \in Paths
  BY <1>1, HeadFacts DEF Ops, PathOps
<1>3. kind \in Kinds
  BY <1>2 DEF HostOk
<1>4. \E m : Answered(m) /\ m.op = "getstat"
  <2>1. CASE kind = "absent"
    <3>1. Send(<<Reply(-1)>>)
      BY <2>1 DEF RequestGetstat
    <3> QED
      BY <1>1, <3>1, PlainReply DEF Ops, PathOps
  <2>2. CASE kind # "absent"
    <3>1. Send(<<Response(0, NoPath, kind)>>)
      BY <2>2 DEF RequestGetstat
    <3>2. kind \in {"none", "file", "dir"}
      BY <1>3, <2>2 DEF Kinds
    <3>3. LET m == Response(0, NoPath, kind)
          IN  m \in Replies /\ m.op = "getstat" /\ m.req = Head(stream)
      BY <1>2, <3>2, ResponseTypes
    <3> QED
      BY <1>1, <3>1, <3>3, AnsweredBySend
  <2> QED
    BY <2>1, <2>2
<1> QED
  BY <1>1, <1>4, HostKept DEF hostVars

LEMMA PathActs ==
    ASSUME TypeOK, HostOk, RequestRemove \/ RequestMkdir \/ RequestRmdir
    PROVE  /\ HostOk' /\ UNCHANGED <<dirVars, failed>>
           /\ \E m : Answered(m) /\ m.op \in {"remove", "mkdir", "rmdir"}
<1>1. ASSUME NEW op \in {"remove", "mkdir", "rmdir"}, NEW works, NEW kind \in Kinds,
             RequestPath(op, works, kind)
      PROVE  /\ HostOk' /\ UNCHANGED <<dirVars, failed>>
             /\ \E m : Answered(m) /\ m.op \in {"remove", "mkdir", "rmdir"}
  <2>1. Serving(op) /\ Took /\ UNCHANGED <<dirVars, fds, failed>>
    BY <1>1 DEF RequestPath
  <2>2. \E result \in {0, -1} : Send(<<Reply(result)>>)
    BY <1>1 DEF RequestPath
  <2>3. \E m : Answered(m) /\ m.op = op
    BY <2>1, <2>2, PlainReply DEF Ops, PathOps
  <2>4. disk' \in [Paths -> Kinds]
    BY <1>1 DEF RequestPath, HostOk
  <2>5. LeakInv' /\ FilesFine'
    BY <2>1, LeakKept DEF HostOk, FilesFine
  <2> QED
    BY <2>1, <2>3, <2>4, <2>5 DEF HostOk, dirVars
<1> QED
  BY <1>1 DEF RequestRemove, RequestMkdir, RequestRmdir, Kinds

LEMMA SlotSets ==
    ASSUME NEW T \in SUBSET Slots
    PROVE  IsFiniteSet(T) /\ Cardinality(T) \in Nat
<1>1. IsFiniteSet(Slots)
  BY HostTypes, FS_Interval DEF Slots
<1> QED
  BY <1>1, FS_Subset, FS_CardinalityType

LEMMA OneMore ==
    ASSUME NEW T \in SUBSET Slots, NEW i \in Slots
    PROVE  /\ i \notin T => Cardinality(T \cup {i}) = Cardinality(T) + 1
           /\ i \in T => Cardinality(T \cup {i}) = Cardinality(T)
           /\ i \in T => Cardinality(T \ {i}) = Cardinality(T) - 1 /\ Cardinality(T) >= 1
           /\ i \notin T => T \ {i} = T
           /\ Cardinality(T) \in Nat
<1>1. IsFiniteSet(T) /\ Cardinality(T) \in Nat
  BY SlotSets
<1>2. Cardinality(T \cup {i}) = IF i \in T THEN Cardinality(T) ELSE Cardinality(T) + 1
  BY <1>1, FS_AddElement
<1>3. Cardinality(T \ {i}) = IF i \in T THEN Cardinality(T) - 1 ELSE Cardinality(T)
  BY <1>1, FS_RemoveElement
<1>4. i \in T => Cardinality(T) >= 1
  <2>1. Cardinality(T) = 0 <=> T = {}
    BY <1>1, FS_EmptySet
  <2> QED
    BY <1>1, <2>1
<1> QED
  BY <1>1, <1>2, <1>3, <1>4

LEMMA OpendirActs ==
    ASSUME TypeOK, HostOk, RequestOpendir
    PROVE  /\ HostOk' /\ failed \subseteq failed' /\ (Full => Full')
           /\ \E m : /\ Answered(m) /\ m.op = "opendir"
                     /\ \/ m.result = -1 /\ UNCHANGED <<dirVars, failed>>
                        \/ /\ m.result \in Slots /\ dd[m.result].dir = NoPath
                           /\ dd' = [dd EXCEPT ![m.result] = [dir |-> m.req.path, pathname |-> m.req.path]]
                           /\ UNCHANGED failed
                        \/ ~DirsOpen'
<1> DEFINE p == Head(stream).path
<1>1. Serving("opendir") /\ Took /\ UNCHANGED <<fds, disk>>
  BY DEF RequestOpendir
<1>2. Head(stream) \in Requests /\ Head(stream).op = "opendir" /\ Waits(Head(stream)) /\ p \in Paths
  BY <1>1, HeadFacts DEF Ops, PathOps
<1>3. ASSUME NEW result \in Slots \cup {-1}, Send(<<Reply(result)>>)
      PROVE  LET m == Reply(result)
             IN  Answered(m) /\ m.op = "opendir" /\ m.result = result /\ m.req = Head(stream)
  <2>1. result \in Int
    BY HostTypes
  <2>2. LET m == Reply(result)
        IN  m \in Replies /\ m.op = "opendir" /\ m.result = result /\ m.req = Head(stream)
    BY <1>2, <2>1, ResponseTypes DEF Reply
  <2> QED
    BY <1>1, <1>3, <2>2, AnsweredBySend
<1>4. CASE Send(<<Reply(NoSlot)>>) /\ UNCHANGED <<dirVars, failed>>
  <2>1. HostOk'
    BY <1>1, <1>4, HostKept DEF hostVars
  <2>2. NoSlot \in Slots \cup {-1} /\ NoSlot = -1
    BY DEF NoSlot
  <2> QED
    BY <1>3, <1>4, <2>1, <2>2 DEF Full
<1>5. ASSUME NEW i \in Slots, FreeSlot(i), names' = names + 1, Send(<<Reply(i)>>),
             \/ /\ dd' = [dd EXCEPT ![i] = [dir |-> p, pathname |-> p]]
                /\ streams' = streams + 1 /\ UNCHANGED failed
             \/ /\ Fails("opendir")
                /\ dd' = [dd EXCEPT ![i] = [dir |-> NoPath, pathname |-> p]]
                /\ UNCHANGED streams
      PROVE  /\ HostOk' /\ failed \subseteq failed' /\ (Full => Full')
             /\ \E m : /\ Answered(m) /\ m.op = "opendir"
                       /\ \/ /\ m.result \in Slots /\ dd[m.result].dir = NoPath
                             /\ dd' = [dd EXCEPT ![m.result] = [dir |-> m.req.path, pathname |-> m.req.path]]
                             /\ UNCHANGED failed
                          \/ ~DirsOpen'
  <2>1. dd[i].dir = NoPath /\ p # NoPath
    BY <1>2, <1>5, HostTypes DEF FreeSlot
  <2>2. NamedDirs' = NamedDirs \cup {i}
    <3>1. ASSUME NEW j \in Slots PROVE dd'[j].pathname = IF j = i THEN p ELSE dd[j].pathname
      BY <1>5 DEF HostOk
    <3> QED
      BY <2>1, <3>1 DEF NamedDirs
  <2>3. NamedDirs \in SUBSET Slots /\ OpenDirs \in SUBSET Slots /\ i \notin OpenDirs
    BY <2>1 DEF NamedDirs, OpenDirs
  <2>4. /\ Cardinality(NamedDirs) \in Nat /\ names \in Nat /\ names >= Cardinality(NamedDirs)
        /\ Cardinality(NamedDirs') <= Cardinality(NamedDirs) + 1
        /\ i \notin NamedDirs => Cardinality(NamedDirs') = Cardinality(NamedDirs) + 1
    <3>1. Cardinality(NamedDirs) \in Nat /\ names \in Nat /\ names >= Cardinality(NamedDirs)
      BY <2>3, SlotSets DEF HostOk, LeakInv
    <3>2. /\ i \notin NamedDirs => Cardinality(NamedDirs') = Cardinality(NamedDirs) + 1
          /\ i \in NamedDirs => Cardinality(NamedDirs') = Cardinality(NamedDirs)
      BY <2>2, <2>3, OneMore
    <3> HIDE DEF NamedDirs
    <3> QED
      BY <3>1, <3>2
  <2>5. names' \in Nat /\ names' >= Cardinality(NamedDirs')
    <3>1. Cardinality(NamedDirs') \in Nat
      BY <2>2, <2>3, SlotSets
    <3> HIDE DEF NamedDirs
    <3> QED
      BY <1>5, <2>4, <3>1
  <2>6. dd' \in [Slots -> [dir : Paths \cup {NoPath}, pathname : Paths \cup {NoPath}]]
    BY <1>2, <1>5 DEF HostOk
  <2>7. fds' \in [Fds -> {"free", "file", "dir"}] /\ disk' \in [Paths -> Kinds] /\ FilesFine'
    <3>1. failed \subseteq failed'
      BY <1>5 DEF Fails
    <3> QED
      BY <1>1, <3>1 DEF HostOk, FilesFine
  <2>8. CASE /\ dd' = [dd EXCEPT ![i] = [dir |-> p, pathname |-> p]]
             /\ streams' = streams + 1 /\ UNCHANGED failed
    <3>1. ASSUME NEW j \in Slots
          PROVE  /\ dd'[j].dir = IF j = i THEN p ELSE dd[j].dir
                 /\ dd'[j].pathname = IF j = i THEN p ELSE dd[j].pathname
      BY <2>8 DEF HostOk
    <3>2. OpenDirs' = OpenDirs \cup {i}
      BY <2>1, <3>1 DEF OpenDirs
    <3>3. streams' = Cardinality(OpenDirs') /\ streams' \in Nat
      BY <2>3, <2>8, <3>2, OneMore DEF HostOk, LeakInv
    <3>4. \A j \in OpenDirs' : dd'[j].pathname = dd'[j].dir
      BY <3>1, <3>2 DEF HostOk, LeakInv, OpenDirs
    <3>5. ASSUME DirsOpen'
          PROVE  names' = Cardinality(NamedDirs') /\ \A j \in Slots : dd'[j].pathname = dd'[j].dir
      <4>1. DirsOpen
        BY <2>8, <3>5 DEF DirsOpen
      <4>2. names = Cardinality(NamedDirs) /\ \A j \in Slots : dd[j].pathname = dd[j].dir
        BY <4>1 DEF HostOk, LeakInv
      <4>3. i \notin NamedDirs
        BY <2>1, <4>2 DEF NamedDirs
      <4> QED
        BY <1>5, <2>4, <3>1, <4>2, <4>3
    <3>6. LeakInv'
      BY <2>5, <3>3, <3>4, <3>5 DEF LeakInv
    <3>7. HostOk'
      BY <2>5, <2>6, <2>7, <2>8, <3>3, <3>6 DEF HostOk
    <3> DEFINE m == Reply(i)
    <3>8. Answered(m) /\ m.op = "opendir" /\ m.result = i /\ m.req = Head(stream)
      BY <1>3, <1>5
    <3> HIDE DEF m
    <3>9. dd' = [dd EXCEPT ![m.result] = [dir |-> m.req.path, pathname |-> m.req.path]]
      BY <2>8, <3>8
    <3> QED
      BY <1>5, <2>1, <2>8, <3>7, <3>8, <3>9 DEF Full
  <2>9. CASE /\ Fails("opendir")
             /\ dd' = [dd EXCEPT ![i] = [dir |-> NoPath, pathname |-> p]]
             /\ UNCHANGED streams
    <3>1. /\ failed' = failed \cup {"opendir"} /\ failed' \subseteq Failures /\ ~DirsOpen'
          /\ (Full => Full')
      BY <2>9 DEF Fails, HostOk, DirsOpen, Full
    <3>2. ASSUME NEW j \in Slots
          PROVE  /\ dd'[j].dir = dd[j].dir
                 /\ dd'[j].pathname = IF j = i THEN p ELSE dd[j].pathname
      BY <2>1, <2>9 DEF HostOk
    <3>3. OpenDirs' = OpenDirs
      BY <3>2 DEF OpenDirs
    <3>4. \A j \in OpenDirs' : dd'[j].pathname = dd'[j].dir
      BY <2>3, <3>2, <3>3 DEF HostOk, LeakInv
    <3>5. LeakInv'
      BY <2>5, <2>9, <3>1, <3>3, <3>4 DEF LeakInv, HostOk
    <3>6. HostOk'
      BY <2>5, <2>6, <2>7, <2>9, <3>1, <3>5 DEF HostOk
    <3> QED
      BY <1>3, <1>5, <3>1, <3>6
  <2> QED
    BY <1>5, <2>8, <2>9
<1> QED
  BY <1>4, <1>5 DEF RequestOpendir

LEMMA ClosedirActs ==
    ASSUME TypeOK, HostOk, RequestClosedir
    PROVE  /\ HostOk' /\ UNCHANGED failed
           /\ \E m : /\ Answered(m) /\ m.op = "closedir"
                     /\ \/ ~GoodDd(m.req.n) /\ UNCHANGED dirVars
                        \/ GoodDd(m.req.n) /\ dd' = [dd EXCEPT ![m.req.n] = Empty]
<1> DEFINE i == Head(stream).n
<1>1. Serving("closedir") /\ Took /\ UNCHANGED <<fds, disk, failed>>
  BY DEF RequestClosedir
<1>2. ASSUME NEW result \in {0, -1}, Send(<<Reply(result)>>)
      PROVE  LET m == Reply(result) IN Answered(m) /\ m.op = "closedir" /\ m.req = Head(stream)
  BY <1>1, <1>2, PlainReply DEF Ops, Answered
<1>3. CASE ~GoodDd(i)
  <2>1. Send(<<Reply(-1)>>) /\ UNCHANGED dirVars
    BY <1>3 DEF RequestClosedir, ClosedirBad
  <2>2. HostOk'
    BY <1>1, <2>1, HostKept DEF hostVars
  <2> QED
    BY <1>1, <1>2, <1>3, <2>1, <2>2
<1>4. CASE GoodDd(i)
  <2>1. ClosedirFree(i) /\ streams' = streams - 1 /\ Send(<<Reply(0)>>)
    BY <1>4 DEF RequestClosedir
  <2>2. /\ dd' = [dd EXCEPT ![i] = Empty]
        /\ names' = IF dd[i].pathname # NoPath THEN names - 1 ELSE names
    BY <2>1 DEF ClosedirFree
  <2>3. i \in Slots /\ dd[i].dir # NoPath
    BY <1>4 DEF GoodDd
  <2> HIDE DEF i
  <2>4. i \in OpenDirs /\ OpenDirs \in SUBSET Slots /\ NamedDirs \in SUBSET Slots
    BY <2>3 DEF OpenDirs, NamedDirs
  <2>5. dd[i].pathname # NoPath /\ i \in NamedDirs
    BY <2>3, <2>4 DEF HostOk, LeakInv, NamedDirs
  <2>6. ASSUME NEW j \in Slots
        PROVE  /\ dd'[j].dir = IF j = i THEN NoPath ELSE dd[j].dir
               /\ dd'[j].pathname = IF j = i THEN NoPath ELSE dd[j].pathname
    BY <2>2 DEF HostOk, Empty
  <2>7. OpenDirs' = OpenDirs \ {i} /\ NamedDirs' = NamedDirs \ {i}
    BY <2>6 DEF OpenDirs, NamedDirs
  <2>8. streams \in Nat /\ streams = Cardinality(OpenDirs) /\ names \in Nat /\ names >= Cardinality(NamedDirs)
    BY DEF HostOk, LeakInv
  <2>9. /\ Cardinality(OpenDirs') = Cardinality(OpenDirs) - 1 /\ Cardinality(OpenDirs) >= 1
        /\ Cardinality(NamedDirs') = Cardinality(NamedDirs) - 1 /\ Cardinality(NamedDirs) >= 1
        /\ Cardinality(OpenDirs) \in Nat /\ Cardinality(NamedDirs) \in Nat
    BY <2>3, <2>4, <2>5, <2>7, OneMore
  <2>10. names' = names - 1 /\ streams' = streams - 1
    BY <2>1, <2>2, <2>5
  <2>11. /\ streams' \in Nat /\ names' \in Nat /\ streams' = Cardinality(OpenDirs')
         /\ names' >= Cardinality(NamedDirs')
         /\ names = Cardinality(NamedDirs) => names' = Cardinality(NamedDirs')
    <3> HIDE DEF OpenDirs, NamedDirs
    <3> QED
      BY <2>8, <2>9, <2>10
  <2>12. \A j \in OpenDirs' : dd'[j].pathname = dd'[j].dir
    BY <2>4, <2>6, <2>7 DEF HostOk, LeakInv
  <2>13. ASSUME DirsOpen'
         PROVE  names' = Cardinality(NamedDirs') /\ \A j \in Slots : dd'[j].pathname = dd'[j].dir
    <3>1. DirsOpen
      BY <1>1, <2>13 DEF DirsOpen
    <3>2. names = Cardinality(NamedDirs) /\ \A j \in Slots : dd[j].pathname = dd[j].dir
      BY <3>1 DEF HostOk, LeakInv
    <3> QED
      BY <2>6, <2>11, <3>2
  <2>14. LeakInv'
    BY <2>11, <2>12, <2>13 DEF LeakInv
  <2>15. dd' \in [Slots -> [dir : Paths \cup {NoPath}, pathname : Paths \cup {NoPath}]]
    BY <2>2 DEF HostOk, Empty
  <2>16. HostOk'
    BY <1>1, <2>11, <2>14, <2>15 DEF HostOk, FilesFine
  <2> DEFINE m == Reply(0)
  <2>17. Answered(m) /\ m.op = "closedir" /\ m.req = Head(stream)
    BY <1>2, <2>1
  <2> HIDE DEF m
  <2>18. GoodDd(m.req.n) /\ dd' = [dd EXCEPT ![m.req.n] = Empty]
    BY <1>4, <2>2, <2>17 DEF i
  <2> QED
    BY <1>1, <2>16, <2>17, <2>18
<1> QED
  BY <1>3, <1>4

\* The entries of a directory, and what they are.
LEMMA EntriesTypes ==
    ASSUME NEW p, NEW name \in DOMAIN EntriesOf(p)
    PROVE  name \in Names /\ EntriesOf(p)[name] \in {"file", "dir"}
<1>1. p \in DOMAIN Entries
  BY DEF EntriesOf
<1>2. EntriesOf(p) = Entries[p]
  BY <1>1 DEF EntriesOf
<1> QED
  BY <1>1, <1>2, HostTypes DEF Names

LEMMA ReaddirActs ==
    ASSUME TypeOK, HostOk, RequestReaddir
    PROVE  /\ HostOk' /\ UNCHANGED dirVars /\ failed \subseteq failed' /\ (Full => Full')
           /\ \E m : /\ Answered(m) /\ m.op = "readdir"
                     /\ m.result = 1 =>
                          /\ GoodDd(m.req.n)
                          /\ m.name \in DOMAIN EntriesOf(dd[m.req.n].dir)
                          /\ "stat" \notin failed' => m.sort = EntriesOf(dd[m.req.n].dir)[m.name]
<1> DEFINE i == Head(stream).n
<1>1. Serving("readdir") /\ Took /\ UNCHANGED <<dirVars, fds, disk>>
  BY DEF RequestReaddir
<1>2. Head(stream) \in Requests /\ Head(stream).op = "readdir" /\ Waits(Head(stream))
  BY <1>1, HeadFacts DEF Ops
<1>3. failed' = failed \/ Fails("stat")
  BY DEF RequestReaddir
<1>4. failed \subseteq failed' /\ failed' \subseteq Failures /\ (Full => Full') /\ (DirsOpen' => DirsOpen)
  BY <1>3 DEF Fails, Full, HostOk, DirsOpen
<1>5. HostOk'
  BY <1>1, <1>4 DEF HostOk, LeakInv, dirVars, FilesFine, OpenDirs, NamedDirs
<1>6. ASSUME NEW result \in {0, -1}, Send(<<Reply(result)>>)
      PROVE  LET m == Reply(result) IN Answered(m) /\ m.op = "readdir" /\ m.result # 1
  BY <1>1, <1>6, PlainReply DEF Ops
<1>7. ASSUME GoodDd(i), NEW name \in DOMAIN EntriesOf(dd[i].dir), NEW sort \in {"none", "file", "dir"},
             Send(<<Entry(name, sort)>>), sort = EntriesOf(dd[i].dir)[name] \/ "stat" \in failed'
      PROVE  \E m : /\ Answered(m) /\ m.op = "readdir"
                    /\ GoodDd(m.req.n) /\ m.name \in DOMAIN EntriesOf(dd[m.req.n].dir)
                    /\ "stat" \notin failed' => m.sort = EntriesOf(dd[m.req.n].dir)[m.name]
  <2> DEFINE m == Entry(name, sort)
  <2>1. name \in Names
    BY <1>7, EntriesTypes
  <2>2. m \in Replies /\ m.op = "readdir" /\ m.req = Head(stream) /\ m.name = name /\ m.sort = sort
    BY <1>2, <2>1, ResponseTypes DEF Entry
  <2>3. Answered(m)
    BY <1>1, <1>7, <2>2, AnsweredBySend
  <2> HIDE DEF m
  <2> QED
    BY <1>7, <2>2, <2>3
<1>8. CASE \E result \in {0, -1} : Send(<<Reply(result)>>)
  BY <1>1, <1>4, <1>5, <1>6, <1>8
<1>9. CASE /\ GoodDd(i)
           /\ \E name \in DOMAIN EntriesOf(dd[i].dir) :
                \/ Send(<<Entry(name, StatEntry(i, name))>>) /\ UNCHANGED failed
                \/ /\ Fails("stat")
                   /\ \E sort \in {"none", "file", "dir"} : Send(<<Entry(name, sort)>>)
  <2>1. PICK name \in DOMAIN EntriesOf(dd[i].dir) :
          \/ Send(<<Entry(name, StatEntry(i, name))>>) /\ UNCHANGED failed
          \/ /\ Fails("stat")
             /\ \E sort \in {"none", "file", "dir"} : Send(<<Entry(name, sort)>>)
    BY <1>9
  <2>2. StatEntry(i, name) = EntriesOf(dd[i].dir)[name]
    BY <1>9 DEF StatEntry, GoodDd, HostOk, LeakInv, OpenDirs
  <2>3. EntriesOf(dd[i].dir)[name] \in {"none", "file", "dir"}
    BY EntriesTypes
  <2>4. CASE Send(<<Entry(name, StatEntry(i, name))>>)
    BY <1>1, <1>4, <1>5, <1>7, <1>9, <2>2, <2>3, <2>4
  <2>5. CASE /\ Fails("stat")
             /\ \E sort \in {"none", "file", "dir"} : Send(<<Entry(name, sort)>>)
    <3>1. "stat" \in failed'
      BY <2>5 DEF Fails
    <3> QED
      BY <1>1, <1>4, <1>5, <1>7, <1>9, <2>5, <3>1
  <2> QED
    BY <2>1, <2>4, <2>5
<1> QED
  BY <1>8, <1>9 DEF RequestReaddir

\* A read's response with its data.
AnsweredWithData(m) ==
    /\ stream # <<>> /\ stream' = Tail(stream)
    /\ m \in Replies /\ m.req = Head(stream) /\ m.op = "read" /\ m.result > 0
    /\ inbox' = (IF closed THEN inbox ELSE inbox \o <<m, Data>>)
    /\ UNCHANGED <<lost, asked, files, handles, closed, requests>>

LEMMA ReadActs ==
    ASSUME TypeOK, HostOk, RequestRead
    PROVE  /\ HostOk' /\ UNCHANGED <<dirVars, failed>>
           /\ \E m : \/ Answered(m) /\ m.op = "read" /\ ~(m.result > 0)
                     \/ AnsweredWithData(m)
<1>1. Serving("read") /\ Took /\ UNCHANGED hostVars
  BY DEF RequestRead
<1>2. HostOk' /\ UNCHANGED <<dirVars, failed>>
  BY <1>1, HostKept DEF hostVars
<1>3. Head(stream) \in Requests /\ Head(stream).op = "read" /\ Waits(Head(stream)) /\ stream # <<>>
  BY <1>1, HeadFacts DEF Ops
<1>4. PICK size \in -1..1 : Send(ReadReplies(size))
  BY DEF RequestRead, ReadReplies
<1>5. CASE size > 0
  <2> DEFINE m == Reply(size)
  <2>1. m \in Replies /\ m.op = "read" /\ m.req = Head(stream) /\ m.result = size
    BY <1>3, ResponseTypes DEF Reply
  <2>2. inbox' = (IF closed THEN inbox ELSE inbox \o <<m, Data>>)
    BY <1>4, <1>5 DEF Send, ReadReplies
  <2> HIDE DEF m
  <2>3. AnsweredWithData(m)
    BY <1>1, <1>3, <1>5, <2>1, <2>2 DEF AnsweredWithData, Took, ps2Vars
  <2> QED
    BY <1>2, <2>3
<1>6. CASE ~(size > 0)
  <2>1. Send(<<Reply(size)>>) /\ size \in Int
    BY <1>4, <1>6 DEF ReadReplies
  <2> QED
    BY <1>1, <1>2, <1>6, <2>1, PlainReply DEF Ops
<1> QED
  BY <1>5, <1>6

\* A write takes its data from the stream, unless there is no memory for it.
TakesData(m) ==
    /\ Len(stream) > 1 /\ stream' = Tail(Tail(stream)) /\ m \in Replies /\ m.req = Head(stream)
    /\ inbox' = (IF closed THEN inbox ELSE inbox \o <<m>>)

LEMMA WriteActs ==
    ASSUME TypeOK, HostOk, RequestWrite
    PROVE  /\ HostOk' /\ UNCHANGED <<dirVars, lost, asked, files, handles, closed, requests>>
           /\ stream # <<>> /\ Head(stream).op = "write" /\ failed \subseteq failed'
           /\ \/ ~Full' /\ stream' = Tail(stream) /\ inbox' = inbox
              \/ UNCHANGED failed /\ Len(stream) = 1 /\ stream' = Tail(stream) /\ inbox' = inbox
              \/ UNCHANGED failed /\ \E m : TakesData(m)
<1>1. Serving("write") /\ UNCHANGED <<lost, ps2Vars, dirVars, fds, disk>>
  BY DEF RequestWrite
<1>2. Head(stream) \in Requests /\ Head(stream).op = "write" /\ Waits(Head(stream)) /\ stream # <<>>
  BY <1>1, HeadFacts DEF Ops
<1>3. failed' = failed \/ Fails("nomem")
  BY DEF RequestWrite
<1>4. failed \subseteq failed' /\ failed' \subseteq Failures /\ (DirsOpen' => DirsOpen)
  BY <1>3 DEF Fails, HostOk, DirsOpen
<1>5. HostOk'
  BY <1>1, <1>4 DEF HostOk, LeakInv, dirVars, FilesFine, OpenDirs, NamedDirs
<1>6. CASE Fails("nomem") /\ stream' = Tail(stream) /\ UNCHANGED inbox
  BY <1>1, <1>2, <1>4, <1>5, <1>6 DEF Fails, Full, ps2Vars
<1>7. CASE Len(stream) = 1 /\ stream' = Tail(stream) /\ UNCHANGED <<inbox, failed>>
  BY <1>1, <1>2, <1>4, <1>5, <1>7 DEF ps2Vars
<1>8. CASE /\ Len(stream) > 1 /\ stream' = Tail(Tail(stream)) /\ UNCHANGED failed
           /\ \E result \in {-1, 1} : Send(<<Reply(result)>>)
  <2>1. PICK result \in {-1, 1} : Send(<<Reply(result)>>)
    BY <1>8
  <2> DEFINE m == Reply(result)
  <2>2. m \in Replies /\ m.req = Head(stream)
    <3>1. result \in Int /\ NoPath \in Names \cup {NoPath}
      OBVIOUS
    <3> QED
      BY <1>2, <3>1, ResponseTypes DEF Reply
  <2>3. TakesData(m)
    BY <1>8, <2>1, <2>2 DEF TakesData, Send
  <2> HIDE DEF m
  <2> QED
    BY <1>1, <1>2, <1>4, <1>5, <1>8, <2>3 DEF ps2Vars
<1> QED
  BY <1>6, <1>7, <1>8 DEF RequestWrite
----------------------------------------------------------------------------
(* Matching what is waited for with what is under way.                     *)

LEMMA MatchSame ==
    ASSUME NEW w, NEW v, NEW n \in Nat, NEW a \in Seq(Requests),
           \A i \in 1..n : v[i] = w[i], Matches(w, n, a)
    PROVE  Matches(v, n, a)
<1>1. PICK f \in [1..Len(a) -> 1..n] : Match(w, n, a, f)
  BY DEF Matches
<1>2. Match(v, n, a, f)
  BY <1>1 DEF Match
<1> QED
  BY <1>2 DEF Matches

\* Something nobody waits for is taken out of the way.
LEMMA MatchDrop ==
    ASSUME NEW w, NEW v, NEW n \in Nat, NEW p \in 1..n, NEW a \in Seq(Requests),
           \A k \in 1..Len(a) : Waits(a[k]), ~Waits(w[p]),
           \A i \in 1..(n - 1) : v[i] = IF i < p THEN w[i] ELSE w[i + 1],
           Matches(w, n, a)
    PROVE  Matches(v, n - 1, a)
<1>1. PICK f \in [1..Len(a) -> 1..n] : Match(w, n, a, f)
  BY DEF Matches
<1> DEFINE L == Len(a)
           g == [k \in 1..L |-> IF f[k] < p THEN f[k] ELSE f[k] - 1]
<1>2. /\ \A j, k \in 1..L : j < k => f[j] < f[k]
      /\ \A k \in 1..L : w[f[k]] = a[k]
      /\ \A i \in 1..n : Waits(w[i]) => \E k \in 1..L : f[k] = i
  BY <1>1 DEF Match
<1>3. ASSUME NEW k \in 1..L PROVE f[k] \in 1..n /\ f[k] # p
  BY <1>2
<1>4. ASSUME NEW k \in 1..L
      PROVE  g[k] = IF f[k] < p THEN f[k] ELSE f[k] - 1
  OBVIOUS
<1>5. g \in [1..L -> 1..(n - 1)]
  <2>1. ASSUME NEW k \in 1..L PROVE (IF f[k] < p THEN f[k] ELSE f[k] - 1) \in 1..(n - 1)
    BY <1>3
  <2> QED
    BY <2>1
<1> HIDE DEF g, L
<1>6. \A j, k \in 1..L : j < k => g[j] < g[k]
  BY <1>2, <1>3, <1>4
<1>7. ASSUME NEW k \in 1..L PROVE v[g[k]] = a[k]
  <2>1. g[k] \in 1..(n - 1)
    BY <1>5
  <2>2. CASE f[k] < p
    BY <1>2, <1>4, <2>1, <2>2
  <2>3. CASE ~(f[k] < p)
    <3>1. g[k] = f[k] - 1 /\ ~(g[k] < p) /\ g[k] + 1 = f[k]
      BY <1>3, <1>4, <2>3
    <3> QED
      BY <1>2, <2>1, <3>1
  <2> QED
    BY <2>2, <2>3
<1>8. ASSUME NEW i \in 1..(n - 1), Waits(v[i])
      PROVE  \E k \in 1..L : g[k] = i
  <2>1. CASE i < p
    <3>1. PICK k \in 1..L : f[k] = i
      BY <1>2, <1>8, <2>1
    <3> QED
      BY <1>4, <2>1, <3>1
  <2>2. CASE ~(i < p)
    <3>1. PICK k \in 1..L : f[k] = i + 1
      BY <1>2, <1>8, <2>2
    <3>2. ~(f[k] < p) /\ f[k] - 1 = i
      BY <2>2, <3>1
    <3>3. g[k] = i
      BY <1>4, <3>2
    <3> QED
      BY <3>3
  <2> QED
    BY <2>1, <2>2
<1>9. Match(v, n - 1, a, g)
  BY <1>5, <1>6, <1>7, <1>8 DEF Match, L
<1> QED
  BY <1>5, <1>9 DEF Matches, L

\* Something nobody waits for comes in between.
LEMMA MatchInsert ==
    ASSUME NEW w, NEW v, NEW n \in Nat, NEW p \in 1..n, NEW a \in Seq(Requests),
           ~Waits(w[p]),
           \A i \in 1..(n - 1) : v[i] = IF i < p THEN w[i] ELSE w[i + 1],
           Matches(v, n - 1, a)
    PROVE  Matches(w, n, a)
<1>1. PICK g \in [1..Len(a) -> 1..(n - 1)] : Match(v, n - 1, a, g)
  BY DEF Matches
<1> DEFINE L == Len(a)
           f == [k \in 1..L |-> IF g[k] < p THEN g[k] ELSE g[k] + 1]
<1>2. /\ \A j, k \in 1..L : j < k => g[j] < g[k]
      /\ \A k \in 1..L : v[g[k]] = a[k]
      /\ \A i \in 1..(n - 1) : Waits(v[i]) => \E k \in 1..L : g[k] = i
  BY <1>1 DEF Match
<1>3. ASSUME NEW k \in 1..L PROVE g[k] \in 1..(n - 1)
  OBVIOUS
<1>4. ASSUME NEW k \in 1..L
      PROVE  f[k] = IF g[k] < p THEN g[k] ELSE g[k] + 1
  OBVIOUS
<1>5. f \in [1..L -> 1..n]
  <2>1. ASSUME NEW k \in 1..L PROVE (IF g[k] < p THEN g[k] ELSE g[k] + 1) \in 1..n
    BY <1>3
  <2> QED
    BY <2>1
<1> HIDE DEF f, L
<1>6. \A j, k \in 1..L : j < k => f[j] < f[k]
  BY <1>2, <1>3, <1>4
<1>7. ASSUME NEW k \in 1..L PROVE w[f[k]] = a[k]
  <2>1. CASE g[k] < p
    BY <1>2, <1>3, <1>4, <2>1
  <2>2. CASE ~(g[k] < p)
    <3>1. f[k] = g[k] + 1
      BY <1>4, <2>2
    <3> QED
      BY <1>2, <1>3, <2>2, <3>1
  <2> QED
    BY <2>1, <2>2
<1>8. ASSUME NEW i \in 1..n, Waits(w[i])
      PROVE  \E k \in 1..L : f[k] = i
  <2>1. CASE i < p
    <3>1. i \in 1..(n - 1) /\ v[i] = w[i]
      BY <2>1
    <3>2. PICK k \in 1..L : g[k] = i
      BY <1>2, <1>8, <3>1
    <3> QED
      BY <1>4, <2>1, <3>2
  <2>2. CASE ~(i < p)
    <3>1. i # p
      BY <1>8
    <3>2. i - 1 \in 1..(n - 1) /\ ~(i - 1 < p)
      BY <2>2, <3>1
    <3>3. v[i - 1] = w[i]
      BY <3>2
    <3>4. PICK k \in 1..L : g[k] = i - 1
      BY <1>2, <1>8, <3>2, <3>3
    <3>5. f[k] = i
      BY <1>4, <3>2, <3>4
    <3> QED
      BY <3>5
  <2> QED
    BY <2>1, <2>2
<1>9. Match(w, n, a, f)
  BY <1>5, <1>6, <1>7, <1>8 DEF Match, L
<1> QED
  BY <1>5, <1>9 DEF Matches, L

\* ps2link asks for one more thing.
LEMMA MatchAdd ==
    ASSUME NEW w, NEW v, NEW n \in Nat, NEW a \in Seq(Requests), NEW b \in Seq(Requests),
           \A i \in 1..n : v[i] = w[i], Matches(w, n, a),
           Len(b) = Len(a) + 1, \A k \in 1..Len(a) : b[k] = a[k], b[Len(b)] = v[n + 1]
    PROVE  Matches(v, n + 1, b)
<1>1. PICK f \in [1..Len(a) -> 1..n] : Match(w, n, a, f)
  BY DEF Matches
<1> DEFINE L == Len(a)
           g == [k \in 1..(L + 1) |-> IF k <= L THEN f[k] ELSE n + 1]
<1>2. /\ \A j, k \in 1..L : j < k => f[j] < f[k]
      /\ \A k \in 1..L : w[f[k]] = a[k]
      /\ \A i \in 1..n : Waits(w[i]) => \E k \in 1..L : f[k] = i
  BY <1>1 DEF Match
<1>3. L \in Nat /\ Len(b) = L + 1 /\ \A k \in 1..L : f[k] \in 1..n
  OBVIOUS
<1>4. /\ \A k \in 1..L : g[k] = f[k]
      /\ g[L + 1] = n + 1
  BY <1>3
<1>5. g \in [1..(L + 1) -> 1..(n + 1)]
  BY <1>3
<1>b. \A k \in 1..L : b[k] = a[k]
  OBVIOUS
<1>c. b[L + 1] = v[n + 1]
  BY <1>3
<1> HIDE DEF g, L
<1>6. ASSUME NEW j \in 1..(L + 1), NEW k \in 1..(L + 1), j < k PROVE g[j] < g[k]
  <2>1. CASE k \in 1..L
    <3>1. j \in 1..L
      BY <1>3, <1>6, <2>1
    <3> QED
      BY <1>2, <1>4, <1>6, <2>1, <3>1
  <2>2. CASE k = L + 1
    <3>1. j \in 1..L
      BY <1>3, <1>6, <2>2
    <3> QED
      BY <1>3, <1>4, <2>2, <3>1
  <2> QED
    BY <1>3, <2>1, <2>2
<1>7. ASSUME NEW k \in 1..(L + 1) PROVE v[g[k]] = b[k]
  <2>1. CASE k \in 1..L
    <3>1. g[k] = f[k] /\ f[k] \in 1..n
      BY <1>3, <1>4, <2>1
    <3>2. v[f[k]] = w[f[k]]
      BY <3>1
    <3>3. w[f[k]] = a[k] /\ b[k] = a[k]
      BY <1>2, <1>b, <2>1
    <3> QED
      BY <3>1, <3>2, <3>3
  <2>2. CASE k = L + 1
    BY <1>4, <1>c, <2>2
  <2> QED
    BY <1>3, <2>1, <2>2
<1>8. ASSUME NEW i \in 1..(n + 1), Waits(v[i])
      PROVE  \E k \in 1..(L + 1) : g[k] = i
  <2>1. CASE i \in 1..n
    <3>1. PICK k \in 1..L : f[k] = i
      BY <1>2, <1>8, <2>1
    <3> QED
      BY <1>3, <1>4, <3>1
  <2>2. CASE i = n + 1
    BY <1>3, <1>4, <2>2
  <2> QED
    BY <2>1, <2>2
<1>9. Match(v, n + 1, b, g)
  BY <1>3, <1>5, <1>6, <1>7, <1>8 DEF Match
<1> QED
  BY <1>3, <1>5, <1>9 DEF Matches

\* The oldest request that is waited for is the first one under way.
LEMMA MatchTake ==
    ASSUME NEW w, NEW v, NEW n \in Nat, n >= 1, NEW a \in Seq(Requests),
           Waits(w[1]), Matches(w, n, a), \A i \in 1..(n - 1) : v[i] = w[i + 1]
    PROVE  /\ a # <<>> /\ Head(a) = w[1]
           /\ Matches(v, n - 1, Tail(a))
<1>1. PICK f \in [1..Len(a) -> 1..n] : Match(w, n, a, f)
  BY DEF Matches
<1> DEFINE L == Len(a)
           b == Tail(a)
           g == [k \in 1..(L - 1) |-> f[k + 1] - 1]
<1>2. /\ \A j, k \in 1..L : j < k => f[j] < f[k]
      /\ \A k \in 1..L : w[f[k]] = a[k]
      /\ \A i \in 1..n : Waits(w[i]) => \E k \in 1..L : f[k] = i
  BY <1>1 DEF Match
<1>0. L \in Nat /\ \A k \in 1..L : f[k] \in 1..n
  OBVIOUS
<1>3. PICK q \in 1..L : f[q] = 1
  BY <1>2
<1>4. q = 1
  <2>1. CASE 1 < q
    <3>1. 1 \in 1..L
      BY <1>0, <2>1
    <3>2. f[1] < f[q] /\ f[1] >= 1
      BY <1>0, <1>2, <2>1, <3>1
    <3> QED
      BY <1>0, <1>3, <3>1, <3>2
  <2> QED
    BY <1>0, <2>1
<1>5. f[1] = 1 /\ L >= 1 /\ 1 \in 1..L
  BY <1>0, <1>3, <1>4
<1>6. a # <<>> /\ Head(a) = w[1]
  BY <1>2, <1>5
<1>7. b \in Seq(Requests) /\ Len(b) = L - 1 /\ \A k \in 1..(L - 1) : b[k] = a[k + 1]
  BY <1>6, TailFacts
<1>8. ASSUME NEW k \in 1..(L - 1)
      PROVE  k + 1 \in 1..L /\ f[k + 1] \in 2..n
  <2>1. k + 1 \in 1..L /\ 1 < k + 1
    BY <1>0
  <2>2. f[1] < f[k + 1]
    BY <1>2, <1>5, <2>1
  <2> QED
    BY <1>0, <1>5, <2>1, <2>2
<1>9. ASSUME NEW k \in 1..(L - 1)
      PROVE  g[k] = f[k + 1] - 1
  OBVIOUS
<1>10. g \in [1..(L - 1) -> 1..(n - 1)]
  <2>1. ASSUME NEW k \in 1..(L - 1) PROVE f[k + 1] - 1 \in 1..(n - 1)
    BY <1>8
  <2> QED
    BY <2>1
<1> HIDE DEF g, L, b
<1>11. ASSUME NEW j \in 1..(L - 1), NEW k \in 1..(L - 1), j < k PROVE g[j] < g[k]
  <2>1. f[j + 1] < f[k + 1]
    BY <1>2, <1>8, <1>11
  <2>2. f[j + 1] \in Int /\ f[k + 1] \in Int
    BY <1>8
  <2> QED
    BY <1>9, <2>1, <2>2
<1>12. ASSUME NEW k \in 1..(L - 1) PROVE v[g[k]] = b[k]
  <2>1. g[k] \in 1..(n - 1) /\ g[k] + 1 = f[k + 1]
    BY <1>8, <1>9
  <2>2. v[g[k]] = w[f[k + 1]]
    BY <2>1
  <2>3. w[f[k + 1]] = a[k + 1]
    BY <1>2, <1>8
  <2>4. b[k] = a[k + 1]
    BY <1>7
  <2> QED
    BY <2>2, <2>3, <2>4
<1>13. ASSUME NEW i \in 1..(n - 1), Waits(v[i])
       PROVE  \E k \in 1..(L - 1) : g[k] = i
  <2>1. PICK k \in 1..L : f[k] = i + 1
    BY <1>2, <1>13
  <2>2. k # 1
    BY <1>5, <2>1
  <2>3. k - 1 \in 1..(L - 1) /\ (k - 1) + 1 = k
    BY <1>0, <2>2
  <2>4. g[k - 1] = i
    BY <1>9, <2>1, <2>3
  <2> QED
    BY <2>3, <2>4
<1>14. Match(v, n - 1, b, g)
  BY <1>7, <1>10, <1>11, <1>12, <1>13 DEF Match
<1>15. Matches(v, n - 1, b)
  BY <1>7, <1>10, <1>14 DEF Matches
<1> QED
  BY <1>6, <1>15 DEF b
----------------------------------------------------------------------------
(* The two streams.                                                        *)

WireTypes ==
    /\ stream \in Seq(Requests) /\ asked \in Seq(Requests) /\ inbox \in Seq(Replies \cup {Data})
    /\ lost \in BOOLEAN /\ closed \in BOOLEAN /\ requests \in 0..MaxRequests
    /\ files \subseteq Fds /\ handles \subseteq [dd : Slots, dir : Paths]
WireOk == WireTypes /\ EndInv /\ InboxShape /\ (Full => StreamShape /\ MatchInv)

LEMMA UnderFacts ==
    ASSUME WireTypes
    PROVE  /\ Len(inbox) \in Nat /\ Len(stream) \in Nat
           /\ \A i \in 1..Len(inbox) : UnderWay[i] = Answers(inbox[i])
           /\ \A i \in (Len(inbox) + 1)..(Len(inbox) + Len(stream)) :
                UnderWay[i] = stream[i - Len(inbox)]
<1>1. Len(inbox) \in Nat /\ Len(stream) \in Nat
  BY DEF WireTypes
<1>2. ASSUME NEW i \in 1..Len(inbox)
      PROVE  UnderWay[i] = Answers(inbox[i])
  BY <1>1 DEF UnderWay, Under
<1>3. ASSUME NEW i \in (Len(inbox) + 1)..(Len(inbox) + Len(stream))
      PROVE  UnderWay[i] = stream[i - Len(inbox)]
  BY <1>1 DEF UnderWay, Under
<1> QED
  BY <1>1, <1>2, <1>3

LEMMA UnderFactsNext ==
    ASSUME WireTypes'
    PROVE  /\ Len(inbox') \in Nat /\ Len(stream') \in Nat
           /\ \A i \in 1..Len(inbox') : UnderWay'[i] = Answers(inbox'[i])
           /\ \A i \in (Len(inbox') + 1)..(Len(inbox') + Len(stream')) :
                UnderWay'[i] = stream'[i - Len(inbox')]
<1>1. Len(inbox') \in Nat /\ Len(stream') \in Nat
  BY DEF WireTypes
<1>2. ASSUME NEW i \in 1..Len(inbox')
      PROVE  UnderWay'[i] = Answers(inbox'[i])
  BY <1>1 DEF UnderWay, Under
<1>3. ASSUME NEW i \in (Len(inbox') + 1)..(Len(inbox') + Len(stream'))
      PROVE  UnderWay'[i] = stream'[i - Len(inbox')]
  BY <1>1 DEF UnderWay, Under
<1> QED
  BY <1>1, <1>2, <1>3

\* The first d items are taken from the stream, and the last of them is no write.
LEMMA ShapeDrop ==
    ASSUME WireTypes, StreamShape, NEW d \in 1..Len(stream), stream[d].op # "write",
           Len(stream') = Len(stream) - d,
           \A i \in 1..(Len(stream) - d) : stream'[i] = stream[i + d], closed' = closed
    PROVE  StreamShape'
<1>1. Len(stream) \in Nat
  BY DEF WireTypes
<1>2. ASSUME NEW i \in 1..Len(stream'), stream'[i].op = "data"
      PROVE  i > 1 /\ stream'[i - 1].op = "write"
  <2>1. i + d \in 1..Len(stream) /\ stream[i + d].op = "data" /\ (i + d) - 1 = (i - 1) + d
    BY <1>1, <1>2
  <2>2. stream[(i - 1) + d].op = "write"
    BY <2>1 DEF StreamShape
  <2>3. i # 1
    BY <1>1, <2>2
  <2>4. i > 1 /\ i - 1 \in 1..(Len(stream) - d)
    BY <1>1, <2>3
  <2> QED
    BY <2>2, <2>4
<1>3. ASSUME NEW i \in 1..Len(stream'), stream'[i].op = "write"
      PROVE  IF i < Len(stream') THEN stream'[i + 1].op = "data" ELSE closed'
  <2>1. i + d \in 1..Len(stream) /\ stream[i + d].op = "write"
    BY <1>1, <1>3
  <2>2. IF i + d < Len(stream) THEN stream[(i + d) + 1].op = "data" ELSE closed
    BY <2>1 DEF StreamShape
  <2>3. CASE i < Len(stream')
    <3>1. i + d < Len(stream)
      BY <1>1, <2>3
    <3>2. i + 1 \in 1..(Len(stream) - d) /\ (i + 1) + d = (i + d) + 1
      BY <1>1, <2>3
    <3> QED
      BY <2>2, <2>3, <3>1, <3>2
  <2>4. CASE ~(i < Len(stream'))
    <3>1. ~(i + d < Len(stream))
      BY <1>1, <2>4
    <3> QED
      BY <2>2, <2>4, <3>1
  <2> QED
    BY <2>3, <2>4
<1> QED
  BY <1>2, <1>3 DEF StreamShape

\* A request that is no write is taken from the stream.
LEMMA ShapeTail ==
    ASSUME WireTypes, StreamShape, stream # <<>>, Head(stream).op # "write",
           stream' = Tail(stream), closed' = closed
    PROVE  StreamShape'
<1>1. /\ Len(stream) \in Nat /\ Len(stream) >= 1 /\ Len(stream') = Len(stream) - 1
      /\ \A i \in 1..(Len(stream) - 1) : stream'[i] = stream[i + 1]
      /\ stream[1].op # "write"
  BY TailFacts DEF WireTypes
<1> QED
  BY <1>1, ShapeDrop

\* A response without data is added.
LEMMA InboxAdd ==
    ASSUME WireTypes, InboxShape, NEW m \in Replies, ~(m.op = "read" /\ m.result > 0),
           inbox' = inbox \o <<m>>
    PROVE  InboxShape'
<1>1. /\ Len(inbox) \in Nat /\ Len(inbox') = Len(inbox) + 1
      /\ \A i \in 1..Len(inbox) : inbox'[i] = inbox[i]
      /\ inbox'[Len(inbox) + 1] = m /\ m.op # "data"
  BY AddFacts, ReplyFields DEF WireTypes
<1>2. ASSUME NEW i \in 1..Len(inbox'), inbox'[i].op = "data"
      PROVE  i > 1 /\ inbox'[i - 1].op = "read" /\ inbox'[i - 1].result > 0
  <2>1. i # Len(inbox) + 1
    BY <1>1, <1>2
  <2>2. i \in 1..Len(inbox) /\ inbox[i].op = "data"
    BY <1>1, <1>2, <2>1
  <2>3. i > 1 /\ inbox[i - 1].op = "read" /\ inbox[i - 1].result > 0
    BY <2>2 DEF InboxShape
  <2>4. i - 1 \in 1..Len(inbox)
    BY <1>1, <2>2, <2>3
  <2> QED
    BY <1>1, <2>3, <2>4
<1>3. ASSUME NEW i \in 1..Len(inbox'), inbox'[i].op = "read", inbox'[i].result > 0
      PROVE  i < Len(inbox') /\ inbox'[i + 1].op = "data"
  <2>1. i # Len(inbox) + 1
    BY <1>1, <1>3
  <2>2. i \in 1..Len(inbox) /\ inbox[i].op = "read" /\ inbox[i].result > 0
    BY <1>1, <1>3, <2>1
  <2>3. i < Len(inbox) /\ inbox[i + 1].op = "data"
    BY <2>2 DEF InboxShape
  <2>4. i + 1 \in 1..Len(inbox)
    BY <1>1, <2>2, <2>3
  <2> QED
    BY <1>1, <2>3, <2>4
<1> QED
  BY <1>2, <1>3 DEF InboxShape

LEMMA AnswersFacts ==
    /\ \A m \in Replies : Answers(m) = m.req
    /\ Answers(Data) = Data
BY ReplyFields, DataFacts DEF Answers

LEMMA AnswerTypes ==
    ASSUME WireTypes, NEW m, Answered(m)
    PROVE  WireTypes'
<1>1. Tail(stream) \in Seq(Requests)
  BY TailFacts DEF WireTypes, Answered
<1>2. inbox \o <<m>> \in Seq(Replies \cup {Data})
  BY AddFacts DEF WireTypes, Answered
<1>3. inbox' \in Seq(Replies \cup {Data})
  BY <1>2 DEF WireTypes, Answered
<1> QED
  BY <1>1, <1>3 DEF WireTypes, Answered

LEMMA AnswerKeepsWire ==
    ASSUME WireOk, NEW m, Answered(m), Head(stream).op # "write",
           ~(m.op = "read" /\ m.result > 0), Full' => Full
    PROVE  WireOk'
<1>1. WireTypes /\ WireTypes'
  BY AnswerTypes DEF WireOk
<1>2. EndInv'
  BY DEF WireOk, EndInv, Answered
<1>h. InboxShape
  BY DEF WireOk
<1>i. InboxShape'
  <2>1. CASE closed
    BY <1>h, <2>1 DEF Answered, InboxShape
  <2>2. CASE ~closed
    BY <1>1, <1>h, <2>2, InboxAdd DEF Answered
  <2> QED
    BY <2>1, <2>2
<1>3. ASSUME Full' PROVE StreamShape' /\ MatchInv'
  <2>1. StreamShape /\ MatchInv
    BY <1>3 DEF WireOk
  <2>2. StreamShape'
    BY <1>1, <2>1, ShapeTail DEF Answered
  <2>4. MatchInv'
    <3> SUFFICES ASSUME ~closed'
                 PROVE  Matches(UnderWay', Len(inbox') + Len(stream'), asked')
      BY DEF MatchInv
    <3>1. ~closed /\ asked' = asked /\ inbox' = inbox \o <<m>> /\ stream' = Tail(stream)
      BY DEF Answered
    <3> DEFINE L == Len(inbox)
               N == L + Len(stream)
    <3>2. Matches(UnderWay, N, asked)
      BY <2>1, <3>1 DEF MatchInv
    <3>3. /\ L \in Nat /\ Len(inbox') = L + 1 /\ inbox'[L + 1] = m
          /\ \A i \in 1..L : inbox'[i] = inbox[i]
      BY <1>1, <3>1, AddFacts DEF WireTypes, Answered
    <3>4. /\ Len(stream) \in Nat /\ Len(stream) >= 1 /\ Len(stream') = Len(stream) - 1
          /\ stream[1] = m.req /\ \A i \in 1..(Len(stream) - 1) : stream'[i] = stream[i + 1]
      BY <1>1, <3>1, TailFacts DEF WireTypes, Answered
    <3>5. ASSUME NEW i \in 1..N PROVE UnderWay'[i] = UnderWay[i]
      <4>1. CASE i \in 1..L
        <5>1. UnderWay[i] = Answers(inbox[i])
          BY <1>1, <4>1, UnderFacts
        <5>2. i \in 1..Len(inbox')
          BY <3>3, <4>1
        <5>3. UnderWay'[i] = Answers(inbox'[i])
          BY <1>1, <5>2, UnderFactsNext
        <5> QED
          BY <3>3, <4>1, <5>1, <5>3
      <4>2. CASE i = L + 1
        <5>1. i \in (L + 1)..N /\ i - L = 1
          BY <3>3, <3>4, <4>2
        <5>2. UnderWay[i] = stream[1]
          BY <1>1, <5>1, UnderFacts
        <5>3. i \in 1..Len(inbox')
          BY <3>3, <4>2
        <5>4. UnderWay'[i] = Answers(m)
          BY <1>1, <3>3, <4>2, <5>3, UnderFactsNext
        <5>5. Answers(m) = m.req
          BY AnswersFacts DEF Answered
        <5> QED
          BY <3>4, <5>2, <5>4, <5>5
      <4>3. CASE i > L + 1
        <5>1. i \in (L + 1)..N
          BY <3>3, <3>4, <4>3
        <5>2. UnderWay[i] = stream[i - L]
          BY <1>1, <5>1, UnderFacts
        <5>3. i \in (Len(inbox') + 1)..(Len(inbox') + Len(stream'))
          BY <3>3, <3>4, <4>3
        <5>4. UnderWay'[i] = stream'[i - Len(inbox')]
          BY <1>1, <5>3, UnderFactsNext
        <5>5. i - Len(inbox') \in 1..(Len(stream) - 1) /\ (i - Len(inbox')) + 1 = i - L
          BY <3>3, <3>4, <4>3
        <5> QED
          BY <3>4, <5>2, <5>4, <5>5
      <4> QED
        BY <3>3, <4>1, <4>2, <4>3
    <3>6. N \in Nat /\ Len(inbox') + Len(stream') = N
      BY <3>3, <3>4
    <3>7. asked \in Seq(Requests)
      BY <1>1 DEF WireTypes
    <3> HIDE DEF N
    <3>8. Matches(UnderWay', N, asked)
      BY <3>2, <3>5, <3>6, <3>7, MatchSame
    <3> QED
      BY <3>1, <3>6, <3>8
  <2> QED
    BY <2>2, <2>4
<1> QED
  BY <1>1, <1>2, <1>3, <1>i DEF WireOk
\* A read's response and its data are added.
LEMMA InboxAddTwo ==
    ASSUME WireTypes, InboxShape, NEW m \in Replies, m.op = "read", m.result > 0,
           inbox' = inbox \o <<m, Data>>
    PROVE  InboxShape'
<1>1. /\ Len(inbox) \in Nat /\ Len(inbox') = Len(inbox) + 2
      /\ \A i \in 1..Len(inbox) : inbox'[i] = inbox[i]
      /\ inbox'[Len(inbox) + 1] = m /\ inbox'[Len(inbox) + 2] = Data /\ Data.op = "data"
  BY AddTwoFacts, DataFacts DEF WireTypes
<1>2. ASSUME NEW i \in 1..Len(inbox'), inbox'[i].op = "data"
      PROVE  i > 1 /\ inbox'[i - 1].op = "read" /\ inbox'[i - 1].result > 0
  <2>1. CASE i = Len(inbox) + 2
    <3>1. i > 1 /\ i - 1 = Len(inbox) + 1
      BY <1>1, <2>1
    <3> QED
      BY <1>1, <3>1
  <2>2. CASE i \in 1..Len(inbox)
    <3>1. inbox[i].op = "data"
      BY <1>1, <1>2, <2>2
    <3>2. i > 1 /\ inbox[i - 1].op = "read" /\ inbox[i - 1].result > 0
      BY <2>2, <3>1 DEF InboxShape
    <3>3. i - 1 \in 1..Len(inbox)
      BY <1>1, <2>2, <3>2
    <3> QED
      BY <1>1, <3>2, <3>3
  <2>3. i # Len(inbox) + 1
    BY <1>1, <1>2
  <2> QED
    BY <1>1, <2>1, <2>2, <2>3
<1>3. ASSUME NEW i \in 1..Len(inbox'), inbox'[i].op = "read", inbox'[i].result > 0
      PROVE  i < Len(inbox') /\ inbox'[i + 1].op = "data"
  <2>1. CASE i = Len(inbox) + 1
    <3>1. i < Len(inbox') /\ i + 1 = Len(inbox) + 2
      BY <1>1, <2>1
    <3> QED
      BY <1>1, <3>1
  <2>2. CASE i \in 1..Len(inbox)
    <3>1. inbox[i].op = "read" /\ inbox[i].result > 0
      BY <1>1, <1>3, <2>2
    <3>2. i < Len(inbox) /\ inbox[i + 1].op = "data"
      BY <2>2, <3>1 DEF InboxShape
    <3>3. i + 1 \in 1..Len(inbox)
      BY <1>1, <2>2, <3>2
    <3> QED
      BY <1>1, <3>2, <3>3
  <2>3. i # Len(inbox) + 2
    BY <1>1, <1>3
  <2> QED
    BY <1>1, <2>1, <2>2, <2>3
<1> QED
  BY <1>2, <1>3 DEF InboxShape

LEMMA DataKeepsWire ==
    ASSUME WireOk, NEW m, AnsweredWithData(m), Full' => Full
    PROVE  WireOk'
<1>1. WireTypes /\ WireTypes'
  <2>1. WireTypes
    BY DEF WireOk
  <2>2. Tail(stream) \in Seq(Requests)
    BY <2>1, TailFacts DEF WireTypes, AnsweredWithData
  <2>3. inbox \o <<m, Data>> \in Seq(Replies \cup {Data})
    BY <2>1, AddTwoFacts DEF WireTypes, AnsweredWithData
  <2>4. inbox' \in Seq(Replies \cup {Data})
    BY <2>1, <2>3 DEF WireTypes, AnsweredWithData
  <2> QED
    BY <2>1, <2>2, <2>4 DEF WireTypes, AnsweredWithData
<1>2. EndInv'
  BY DEF WireOk, EndInv, AnsweredWithData
<1>h. InboxShape
  BY DEF WireOk
<1>i. InboxShape'
  <2>1. CASE closed
    BY <1>h, <2>1 DEF AnsweredWithData, InboxShape
  <2>2. CASE ~closed
    BY <1>1, <1>h, <2>2, InboxAddTwo DEF AnsweredWithData
  <2> QED
    BY <2>1, <2>2
<1>3. ASSUME Full' PROVE StreamShape' /\ MatchInv'
  <2>1. StreamShape /\ MatchInv
    BY <1>3 DEF WireOk
  <2>0. Head(stream).op = "read"
    BY ReplyFields DEF AnsweredWithData
  <2>2. StreamShape'
    BY <1>1, <2>0, <2>1, ShapeTail DEF AnsweredWithData
  <2>4. MatchInv'
    <3> SUFFICES ASSUME ~closed'
                 PROVE  Matches(UnderWay', Len(inbox') + Len(stream'), asked')
      BY DEF MatchInv
    <3>1. ~closed /\ asked' = asked /\ inbox' = inbox \o <<m, Data>> /\ stream' = Tail(stream)
      BY DEF AnsweredWithData
    <3> DEFINE L == Len(inbox)
               N == L + Len(stream)
    <3>2. Matches(UnderWay, N, asked)
      BY <2>1, <3>1 DEF MatchInv
    <3>3. /\ L \in Nat /\ Len(inbox') = L + 2 /\ inbox'[L + 1] = m /\ inbox'[L + 2] = Data
          /\ \A i \in 1..L : inbox'[i] = inbox[i]
      BY <1>1, <3>1, AddTwoFacts DEF WireTypes, AnsweredWithData
    <3>4. /\ Len(stream) \in Nat /\ Len(stream) >= 1 /\ Len(stream') = Len(stream) - 1
          /\ stream[1] = m.req /\ \A i \in 1..(Len(stream) - 1) : stream'[i] = stream[i + 1]
      BY <1>1, <3>1, TailFacts DEF WireTypes, AnsweredWithData
    <3>5. ASSUME NEW i \in 1..N
          PROVE  UnderWay[i] = IF i < L + 2 THEN UnderWay'[i] ELSE UnderWay'[i + 1]
      <4>1. CASE i \in 1..L
        <5>1. UnderWay[i] = Answers(inbox[i])
          BY <1>1, <4>1, UnderFacts
        <5>2. i \in 1..Len(inbox') /\ i < L + 2
          BY <3>3, <4>1
        <5>3. UnderWay'[i] = Answers(inbox'[i])
          BY <1>1, <5>2, UnderFactsNext
        <5> QED
          BY <3>3, <4>1, <5>1, <5>2, <5>3
      <4>2. CASE i = L + 1
        <5>1. i \in (L + 1)..N /\ i - L = 1 /\ i < L + 2
          BY <3>3, <3>4, <4>2
        <5>2. UnderWay[i] = stream[1]
          BY <1>1, <5>1, UnderFacts
        <5>3. i \in 1..Len(inbox')
          BY <3>3, <4>2
        <5>4. UnderWay'[i] = Answers(m)
          BY <1>1, <3>3, <4>2, <5>3, UnderFactsNext
        <5>5. Answers(m) = m.req
          BY AnswersFacts DEF AnsweredWithData
        <5> QED
          BY <3>4, <5>1, <5>2, <5>4, <5>5
      <4>3. CASE i > L + 1
        <5>1. i \in (L + 1)..N /\ ~(i < L + 2)
          BY <3>3, <3>4, <4>3
        <5>2. UnderWay[i] = stream[i - L]
          BY <1>1, <5>1, UnderFacts
        <5>3. i + 1 \in (Len(inbox') + 1)..(Len(inbox') + Len(stream'))
          BY <3>3, <3>4, <4>3
        <5>4. UnderWay'[i + 1] = stream'[(i + 1) - Len(inbox')]
          BY <1>1, <5>3, UnderFactsNext
        <5>5. /\ (i + 1) - Len(inbox') \in 1..(Len(stream) - 1)
              /\ ((i + 1) - Len(inbox')) + 1 = i - L
          BY <3>3, <3>4, <4>3
        <5> QED
          BY <3>4, <5>1, <5>2, <5>4, <5>5
      <4> QED
        BY <3>3, <4>1, <4>2, <4>3
    <3>6. /\ N \in Nat /\ N + 1 \in Nat /\ Len(inbox') + Len(stream') = N + 1 /\ (N + 1) - 1 = N
          /\ L + 2 \in 1..(N + 1) /\ L + 2 \in 1..Len(inbox')
      BY <3>3, <3>4
    <3>7. asked \in Seq(Requests)
      BY <1>1 DEF WireTypes
    <3>8. ~Waits(UnderWay'[L + 2])
      <4>1. UnderWay'[L + 2] = Answers(Data)
        BY <1>1, <3>3, <3>6, UnderFactsNext
      <4> QED
        BY <4>1, AnswersFacts, DataFacts
    <3> HIDE DEF N, L
    <3> DEFINE M == N + 1
               p == L + 2
    <3>9. M \in Nat /\ p \in 1..M /\ M - 1 = N
      BY <3>6
    <3>10. \A i \in 1..(M - 1) : UnderWay[i] = IF i < p THEN UnderWay'[i] ELSE UnderWay'[i + 1]
      BY <3>5, <3>9
    <3>11. Matches(UnderWay, M - 1, asked) /\ ~Waits(UnderWay'[p])
      BY <3>2, <3>8, <3>9
    <3> HIDE DEF M, p
    <3>12. Matches(UnderWay', M, asked)
      BY <3>7, <3>9, <3>10, <3>11, MatchInsert
    <3> QED
      BY <3>1, <3>6, <3>12 DEF M
  <2> QED
    BY <2>2, <2>4
<1> QED
  BY <1>1, <1>2, <1>3, <1>i DEF WireOk
\* Nobody reads: what is taken from the stream is a request without an answer.
LEMMA UnknownKeepsWire ==
    ASSUME WireOk, stream # <<>>, Head(stream).op = "unknown", stream' = Tail(stream),
           UNCHANGED <<inbox, lost, asked, files, handles, closed, requests>>, Full' => Full
    PROVE  WireOk'
<1>1. WireTypes /\ WireTypes'
  BY TailFacts DEF WireOk, WireTypes
<1>2. EndInv'
  BY DEF WireOk, EndInv
<1>h. InboxShape
  BY DEF WireOk
<1>i. InboxShape'
  BY <1>h DEF InboxShape
<1>3. ASSUME Full' PROVE StreamShape' /\ MatchInv'
  <2>1. StreamShape /\ MatchInv
    BY <1>3 DEF WireOk
  <2>2. StreamShape'
    BY <1>1, <2>1, ShapeTail
  <2>4. MatchInv'
    <3> SUFFICES ASSUME ~closed'
                 PROVE  Matches(UnderWay', Len(inbox') + Len(stream'), asked')
      BY DEF MatchInv
    <3> DEFINE L == Len(inbox)
               N == L + Len(stream)
               p == L + 1
    <3>1. Matches(UnderWay, N, asked)
      BY <2>1 DEF MatchInv
    <3>2. L \in Nat /\ Len(inbox') = L
      BY <1>1 DEF WireTypes
    <3>3. /\ Len(stream) \in Nat /\ Len(stream) >= 1 /\ Len(stream') = Len(stream) - 1
          /\ stream[1].op = "unknown" /\ \A i \in 1..(Len(stream) - 1) : stream'[i] = stream[i + 1]
      BY <1>1, TailFacts DEF WireTypes
    <3>4. ASSUME NEW i \in 1..(N - 1)
          PROVE  UnderWay'[i] = IF i < p THEN UnderWay[i] ELSE UnderWay[i + 1]
      <4>1. CASE i \in 1..L
        <5>1. UnderWay[i] = Answers(inbox[i])
          BY <1>1, <4>1, UnderFacts
        <5>2. i \in 1..Len(inbox') /\ i < p
          BY <3>2, <4>1
        <5>3. UnderWay'[i] = Answers(inbox'[i])
          BY <1>1, <5>2, UnderFactsNext
        <5> QED
          BY <5>1, <5>2, <5>3
      <4>2. CASE i > L
        <5>1. i + 1 \in (L + 1)..N /\ ~(i < p)
          BY <3>2, <3>3, <4>2
        <5>2. UnderWay[i + 1] = stream[(i + 1) - L]
          BY <1>1, <5>1, UnderFacts
        <5>3. i \in (Len(inbox') + 1)..(Len(inbox') + Len(stream'))
          BY <3>2, <3>3, <4>2
        <5>4. UnderWay'[i] = stream'[i - L]
          BY <1>1, <3>2, <5>3, UnderFactsNext
        <5>5. i - L \in 1..(Len(stream) - 1) /\ (i - L) + 1 = (i + 1) - L
          BY <3>2, <3>3, <4>2
        <5> QED
          BY <3>3, <5>1, <5>2, <5>4, <5>5
      <4> QED
        BY <3>2, <4>1, <4>2
    <3>5. ~Waits(UnderWay[p])
      <4>1. p \in (L + 1)..N /\ p - L = 1
        BY <3>2, <3>3
      <4>2. UnderWay[p] = stream[1]
        BY <1>1, <4>1, UnderFacts
      <4> QED
        BY <3>3, <4>2 DEF Waits
    <3>6. N \in Nat /\ p \in 1..N /\ Len(inbox') + Len(stream') = N - 1
      BY <3>2, <3>3
    <3>7. asked \in Seq(Requests) /\ \A k \in 1..Len(asked) : Waits(asked[k])
      BY <1>1 DEF WireTypes, WireOk, EndInv
    <3> HIDE DEF N, L, p
    <3>8. Matches(UnderWay', N - 1, asked)
      BY <3>1, <3>4, <3>5, <3>6, <3>7, MatchDrop
    <3> QED
      BY <3>6, <3>8
  <2> QED
    BY <2>2, <2>4
<1> QED
  BY <1>1, <1>2, <1>3, <1>i DEF WireOk

LEMMA TakesDataKeepsWire ==
    ASSUME WireOk, NEW m, TakesData(m), Head(stream).op = "write",
           UNCHANGED <<lost, asked, files, handles, closed, requests, failed>>
    PROVE  WireOk'
<1>0. /\ Len(stream) \in Nat /\ Len(stream) > 1 /\ Len(stream') = Len(stream) - 2
      /\ stream' \in Seq(Requests) /\ stream[1] = m.req /\ stream[1].op = "write"
      /\ \A i \in 1..(Len(stream) - 2) : stream'[i] = stream[i + 2]
  <2>1. stream \in Seq(Requests) /\ Len(stream) > 1 /\ stream' = Tail(Tail(stream))
    BY DEF WireOk, WireTypes, TakesData
  <2>2. stream[1] = Head(stream)
    BY <2>1
  <2> QED
    BY <2>1, <2>2, TailTwoFacts DEF TakesData
<1>1. WireTypes /\ WireTypes'
  <2>1. WireTypes
    BY DEF WireOk
  <2>2. inbox \o <<m>> \in Seq(Replies \cup {Data})
    BY <2>1, AddFacts DEF WireTypes, TakesData
  <2>3. inbox' \in Seq(Replies \cup {Data})
    BY <2>1, <2>2 DEF WireTypes, TakesData
  <2> QED
    BY <1>0, <2>1, <2>3 DEF WireTypes
<1>2. EndInv'
  BY DEF WireOk, EndInv, TakesData
<1>h. InboxShape
  BY DEF WireOk
<1>i. InboxShape'
  <2>1. CASE closed
    BY <1>h, <2>1 DEF TakesData, InboxShape
  <2>2. CASE ~closed
    <3>1. m.op = "write"
      BY <1>0, ReplyFields DEF TakesData
    <3> QED
      BY <1>1, <1>h, <2>2, <3>1, InboxAdd DEF TakesData
  <2> QED
    BY <2>1, <2>2
<1>3. ASSUME Full' PROVE StreamShape' /\ MatchInv'
  <2>1. StreamShape /\ MatchInv
    BY <1>3 DEF WireOk, Full
  <2>a. 1 \in 1..Len(stream) /\ 2 \in 1..Len(stream) /\ 1 < Len(stream) /\ 1 + 1 = 2
    BY <1>0
  <2>b. stream[2].op = "data"
    BY <1>0, <2>1, <2>a DEF StreamShape
  <2>2. StreamShape'
    BY <1>0, <1>1, <2>1, <2>a, <2>b, ShapeDrop
  <2>4. MatchInv'
    <3> SUFFICES ASSUME ~closed'
                 PROVE  Matches(UnderWay', Len(inbox') + Len(stream'), asked')
      BY DEF MatchInv
    <3>1. ~closed /\ asked' = asked /\ inbox' = inbox \o <<m>>
      BY DEF TakesData
    <3> DEFINE L == Len(inbox)
               N == L + Len(stream)
               p == L + 2
    <3>2. Matches(UnderWay, N, asked)
      BY <2>1, <3>1 DEF MatchInv
    <3>3. /\ L \in Nat /\ Len(inbox') = L + 1 /\ inbox'[L + 1] = m
          /\ \A i \in 1..L : inbox'[i] = inbox[i]
      BY <1>1, <3>1, AddFacts DEF WireTypes, TakesData
    <3>5. ASSUME NEW i \in 1..(N - 1)
          PROVE  UnderWay'[i] = IF i < p THEN UnderWay[i] ELSE UnderWay[i + 1]
      <4>1. CASE i \in 1..L
        <5>1. UnderWay[i] = Answers(inbox[i])
          BY <1>1, <4>1, UnderFacts
        <5>2. i \in 1..Len(inbox') /\ i < p
          BY <3>3, <4>1
        <5>3. UnderWay'[i] = Answers(inbox'[i])
          BY <1>1, <5>2, UnderFactsNext
        <5> QED
          BY <3>3, <4>1, <5>1, <5>2, <5>3
      <4>2. CASE i = L + 1
        <5>1. i \in (L + 1)..N /\ i - L = 1 /\ i < p
          BY <1>0, <3>3, <4>2
        <5>2. UnderWay[i] = stream[1]
          BY <1>1, <5>1, UnderFacts
        <5>3. i \in 1..Len(inbox')
          BY <3>3, <4>2
        <5>4. UnderWay'[i] = Answers(m)
          BY <1>1, <3>3, <4>2, <5>3, UnderFactsNext
        <5>5. Answers(m) = m.req
          BY AnswersFacts DEF TakesData
        <5> QED
          BY <1>0, <5>1, <5>2, <5>4, <5>5
      <4>3. CASE i > L + 1
        <5>1. i + 1 \in (L + 1)..N /\ ~(i < p)
          BY <1>0, <3>3, <4>3
        <5>2. UnderWay[i + 1] = stream[(i + 1) - L]
          BY <1>1, <5>1, UnderFacts
        <5>3. i \in (Len(inbox') + 1)..(Len(inbox') + Len(stream'))
          BY <1>0, <3>3, <4>3
        <5>4. UnderWay'[i] = stream'[i - Len(inbox')]
          BY <1>1, <5>3, UnderFactsNext
        <5>5. i - Len(inbox') \in 1..(Len(stream) - 2) /\ (i - Len(inbox')) + 2 = (i + 1) - L
          BY <1>0, <3>3, <4>3
        <5> QED
          BY <1>0, <5>1, <5>2, <5>4, <5>5
      <4> QED
        BY <3>3, <4>1, <4>2, <4>3
    <3>6. N \in Nat /\ p \in 1..N /\ Len(inbox') + Len(stream') = N - 1
      BY <1>0, <3>3
    <3>7. asked \in Seq(Requests) /\ \A k \in 1..Len(asked) : Waits(asked[k])
      BY <1>1 DEF WireTypes, WireOk, EndInv
    <3>8. ~Waits(UnderWay[p])
      <4>1. p \in (L + 1)..N /\ p - L = 2
        BY <1>0, <3>3
      <4>2. UnderWay[p] = stream[2]
        BY <1>1, <4>1, UnderFacts
      <4> QED
        BY <2>b, <4>2 DEF Waits
    <3> HIDE DEF N, L, p
    <3>9. Matches(UnderWay', N - 1, asked)
      BY <3>2, <3>5, <3>6, <3>7, <3>8, MatchDrop
    <3> QED
      BY <3>1, <3>6, <3>9
  <2> QED
    BY <2>2, <2>4
<1> QED
  BY <1>1, <1>2, <1>3, <1>i DEF WireOk
LEMMA WriteKeepsWire ==
    ASSUME WireOk, stream # <<>>, Head(stream).op = "write", failed \subseteq failed',
           UNCHANGED <<lost, asked, files, handles, closed, requests>>,
           \/ ~Full' /\ stream' = Tail(stream) /\ inbox' = inbox
           \/ UNCHANGED failed /\ Len(stream) = 1 /\ stream' = Tail(stream) /\ inbox' = inbox
           \/ UNCHANGED failed /\ \E m : TakesData(m)
    PROVE  WireOk'
<1>1. CASE stream' = Tail(stream) /\ inbox' = inbox
  <2>1. WireTypes'
    BY <1>1, TailFacts DEF WireOk, WireTypes
  <2>2. EndInv' /\ InboxShape'
    BY <1>1 DEF WireOk, EndInv, InboxShape
  <2>3. CASE ~Full'
    BY <2>1, <2>2, <2>3 DEF WireOk
  <2>4. CASE UNCHANGED failed /\ Len(stream) = 1 /\ Full'
    <3>1. StreamShape
      BY <2>4 DEF WireOk, Full
    <3>2. stream[1].op = "write" /\ Len(stream') = 0
      BY <1>1, <2>4, TailFacts DEF WireOk, WireTypes
    <3>3. 1 \in 1..Len(stream) /\ ~(1 < Len(stream))
      BY <2>4
    <3>4. closed
      BY <3>1, <3>2, <3>3 DEF StreamShape
    <3>5. StreamShape'
      BY <3>2 DEF StreamShape
    <3> QED
      BY <2>1, <2>2, <3>4, <3>5 DEF WireOk, MatchInv
  <2>5. CASE UNCHANGED failed /\ \E m : TakesData(m)
    BY <2>5, TakesDataKeepsWire
  <2> QED
    BY <2>3, <2>4, <2>5
<1>2. CASE UNCHANGED failed /\ \E m : TakesData(m)
  BY <1>2, TakesDataKeepsWire
<1> QED
  BY <1>1, <1>2

\* Data is never taken for a header, except after a write that got no memory.
LEMMA GarbageKeepsWire ==
    ASSUME WireOk, RequestGarbage
    PROVE  WireOk'
<1>1. /\ stream # <<>> /\ Head(stream).op = "data" /\ UNCHANGED failed
      /\ UNCHANGED <<inbox, asked, files, handles, closed, requests>>
  BY DEF RequestGarbage, Serving, ps2Vars, hostVars
<1>2. ~Full
  <2> SUFFICES ASSUME Full PROVE FALSE
    OBVIOUS
  <2>1. stream[1].op = "data" /\ 1 \in 1..Len(stream)
    BY <1>1, TailFacts DEF WireOk, WireTypes
  <2> QED
    BY <2>1 DEF WireOk, StreamShape
<1>3. Tail(stream) \in Seq(Requests)
  BY <1>1, TailFacts DEF WireOk, WireTypes
<1>4. CASE stream' = Tail(stream) /\ lost' \in BOOLEAN
  BY <1>1, <1>2, <1>3, <1>4 DEF WireOk, WireTypes, EndInv, InboxShape, Full
<1>5. CASE /\ Len(stream) > 1
           /\ stream' = <<Data>> \o Tail(Tail(stream)) /\ UNCHANGED lost
  <2> DEFINE t == Tail(stream)
  <2>1. t \in Seq(Requests) /\ Len(t) = Len(stream) - 1
    BY <1>1, TailFacts DEF WireOk, WireTypes
  <2> HIDE DEF t
  <2>2. t # <<>>
    BY <1>5, <2>1
  <2>3. Tail(t) \in Seq(Requests) /\ <<Data>> \in Seq(Requests)
    BY <2>1, <2>2, TailFacts, DataFacts
  <2> DEFINE u == Tail(t)
  <2> HIDE DEF u
  <2>4. <<Data>> \o u \in Seq(Requests)
    BY <2>3, DataFacts DEF u
  <2>5. stream' \in Seq(Requests)
    BY <1>5, <2>4 DEF t, u
  <2> QED
    BY <1>1, <1>2, <1>5, <2>5 DEF WireOk, WireTypes, EndInv, InboxShape, Full
<1> QED
  BY <1>4, <1>5 DEF RequestGarbage

LEMMA EndKeepsWire ==
    ASSUME WireOk, ReceiveFails
    PROVE  WireOk'
<1>1. UNCHANGED <<stream, inbox, asked, files, handles, closed, requests, failed>> /\ lost' = TRUE
  BY DEF ReceiveFails, ps2Vars, hostVars
<1>2. closed /\ WireTypes' /\ EndInv' /\ InboxShape'
  BY <1>1 DEF ReceiveFails, WireOk, WireTypes, EndInv, InboxShape
<1>3. Full' => StreamShape' /\ MatchInv'
  BY <1>1, <1>2 DEF WireOk, StreamShape, MatchInv, Full
<1> QED
  BY <1>2, <1>3 DEF WireOk

\* The ps2 is reset.
LEMMA CloseKeepsWire ==
    ASSUME WireOk, Closes
    PROVE  WireOk'
<1>1. /\ closed' = TRUE /\ asked' = <<>> /\ inbox' = <<>> /\ files' = {} /\ handles' = {}
      /\ UNCHANGED <<lost, requests, failed>>
  BY DEF Closes, hostVars
<1>0. stream \in Seq(Requests) /\ Len(stream) \in Nat
  BY DEF WireOk, WireTypes
<1>2. \/ stream' = stream
      \/ /\ stream # <<>> /\ stream' = SubSeq(stream, 1, Len(stream) - 1)
  BY DEF Closes
<1>3. /\ stream' \in Seq(Requests) /\ Len(stream') \in Nat /\ Len(stream') <= Len(stream)
      /\ \A i \in 1..Len(stream') : stream'[i] = stream[i]
  <2>1. CASE stream' = stream
    BY <1>0, <2>1
  <2>2. CASE /\ stream # <<>> /\ stream' = SubSeq(stream, 1, Len(stream) - 1)
    <3>1. /\ stream' \in Seq(Requests) /\ Len(stream) >= 1 /\ Len(stream') = Len(stream) - 1
          /\ \A i \in 1..(Len(stream) - 1) : stream'[i] = stream[i]
      BY <1>0, <2>2, CutFacts
    <3>2. Len(stream') \in Nat /\ Len(stream') <= Len(stream)
      BY <1>0, <3>1
    <3> QED
      BY <3>1, <3>2
  <2> QED
    BY <1>2, <2>1, <2>2
<1>4. WireTypes'
  <2>1. <<>> \in Seq(Requests) /\ <<>> \in Seq(Replies \cup {Data})
    OBVIOUS
  <2> QED
    BY <1>1, <1>3, <2>1 DEF WireOk, WireTypes
<1>5. EndInv'
  BY <1>1 DEF EndInv
<1>i. InboxShape'
  BY <1>1 DEF InboxShape
<1>6. ASSUME Full' PROVE StreamShape' /\ MatchInv'
  <2>1. StreamShape
    BY <1>1, <1>6 DEF WireOk, Full
  <2>2. MatchInv'
    BY <1>1 DEF MatchInv
  <2>3. ASSUME NEW i \in 1..Len(stream'), stream'[i].op = "data"
        PROVE  i > 1 /\ stream'[i - 1].op = "write"
    <3>1. i \in 1..Len(stream) /\ stream[i].op = "data"
      BY <1>0, <1>3, <2>3
    <3>2. i > 1 /\ stream[i - 1].op = "write"
      BY <2>1, <3>1 DEF StreamShape
    <3>3. i - 1 \in 1..Len(stream')
      BY <1>3, <3>2
    <3> QED
      BY <1>3, <3>2, <3>3
  <2>4. ASSUME NEW i \in 1..Len(stream'), stream'[i].op = "write"
        PROVE  IF i < Len(stream') THEN stream'[i + 1].op = "data" ELSE closed'
    <3>1. CASE i < Len(stream')
      <4>1. i \in 1..Len(stream) /\ i < Len(stream) /\ i + 1 \in 1..Len(stream')
        BY <1>0, <1>3, <3>1
      <4>2. stream[i + 1].op = "data"
        BY <1>3, <2>1, <2>4, <4>1 DEF StreamShape
      <4> QED
        BY <1>3, <3>1, <4>1, <4>2
    <3>2. CASE ~(i < Len(stream'))
      BY <1>1, <3>2
    <3> QED
      BY <3>1, <3>2
  <2>5. StreamShape'
    BY <2>3, <2>4 DEF StreamShape
  <2> QED
    BY <2>2, <2>5
<1> QED
  BY <1>4, <1>5, <1>6, <1>i DEF WireOk
\* ps2link asks for r; a closedir takes the handle away from the program.
AsksFor(r) ==
    /\ Asks(r) /\ r \in Requests /\ r.op # "data" /\ files' \subseteq files
    /\ \/ r.op \notin {"readdir", "closedir"} /\ handles' = handles
       \/ /\ r.op \in {"readdir", "closedir"} /\ r.dir = NoPath /\ r.n \notin Slots
          /\ handles' = handles
       \/ \E h \in handles :
            /\ r.op \in {"readdir", "closedir"} /\ r.n = h.dd /\ r.dir = h.dir
            /\ handles' = IF r.op = "closedir" THEN handles \ {h} ELSE handles

LEMMA AskFacts ==
    ASSUME TypeOK, AskPath \/ AskFile \/ AskDir \/ AskUnknown
    PROVE  \E r : AsksFor(r)
<1>1. ASSUME NEW op \in Ops \ {"data"}, NEW path \in Paths \cup {NoPath},
             NEW n \in Fds \cup Slots \cup {-1, 0, MaxDd}, op \in PathOps => path \in Paths
      PROVE  LET r == Request(op, path, n)
             IN  r \in Requests /\ r.op = op /\ r.n = n /\ r.path = path /\ r.dir = NoPath
  BY <1>1 DEF Request, Requests
<1>2. CASE AskPath
  <2>0. UNCHANGED <<files, handles>>
    BY <1>2 DEF AskPath
  <2>1. ASSUME NEW p \in Paths, NEW op \in {"opendir", "remove", "mkdir", "rmdir", "getstat"},
               Asks(Request(op, p, 0))
        PROVE  \E r : AsksFor(r)
    <3> DEFINE r == Request(op, p, 0)
    <3>1. r \in Requests /\ r.op = op
      BY <1>1 DEF Ops, PathOps
    <3>2. Asks(r)
      BY <2>1
    <3> HIDE DEF r
    <3> QED
      BY <2>0, <3>1, <3>2 DEF AsksFor
  <2>2. ASSUME NEW p \in Paths, NEW c \in BOOLEAN, Asks([Request("open", p, 0) EXCEPT !.creat = c])
        PROVE  \E r : AsksFor(r)
    <3> DEFINE r == [Request("open", p, 0) EXCEPT !.creat = c]
    <3>1. r \in Requests /\ r.op = "open"
      BY DEF Request, Requests, Ops, PathOps
    <3>2. Asks(r)
      BY <2>2
    <3> HIDE DEF r
    <3> QED
      BY <2>0, <3>1, <3>2 DEF AsksFor
  <2> QED
    BY <1>2, <2>1, <2>2 DEF AskPath
<1>3. CASE AskFile
  <2>0. ASSUME NEW fd \in files \cup {-1} PROVE fd \in Fds \cup Slots \cup {-1, 0, MaxDd}
    BY DEF TypeOK
  <2>1. ASSUME NEW fd \in files \cup {-1}, NEW b \in BOOLEAN, NEW op \in {"read", "write"},
               Asks([Request(op, NoPath, fd) EXCEPT !.big = b]), UNCHANGED <<files, handles>>
        PROVE  \E r : AsksFor(r)
    <3> DEFINE r == [Request(op, NoPath, fd) EXCEPT !.big = b]
    <3>1. r \in Requests /\ r.op = op
      BY <2>0 DEF Request, Requests, Ops, PathOps
    <3>2. Asks(r)
      BY <2>1
    <3> HIDE DEF r
    <3> QED
      BY <2>1, <3>1, <3>2 DEF AsksFor
  <2>2. ASSUME NEW fd \in files \cup {-1}, NEW op \in {"lseek", "close"},
               Asks(Request(op, NoPath, fd)), files' \subseteq files, UNCHANGED handles
        PROVE  \E r : AsksFor(r)
    <3> DEFINE r == Request(op, NoPath, fd)
    <3>0. op \in Ops \ {"data"} /\ op \notin PathOps /\ NoPath \in Paths \cup {NoPath}
      BY DEF Ops, PathOps
    <3>1. r \in Requests /\ r.op = op
      BY <1>1, <2>0, <3>0
    <3>2. Asks(r)
      BY <2>2
    <3> HIDE DEF r
    <3> QED
      BY <2>2, <3>1, <3>2 DEF AsksFor
  <2> QED
    BY <1>3, <2>1, <2>2 DEF AskFile
<1>4. CASE AskDir
  <2>1. ASSUME NEW h \in handles, NEW op \in {"readdir", "closedir"},
               Asks([Request(op, NoPath, h.dd) EXCEPT !.dir = h.dir]), UNCHANGED files,
               handles' = IF op = "closedir" THEN handles \ {h} ELSE handles
        PROVE  \E r : AsksFor(r)
    <3> DEFINE r == [Request(op, NoPath, h.dd) EXCEPT !.dir = h.dir]
    <3>1. h.dd \in Slots /\ h.dir \in Paths
      BY DEF TypeOK
    <3>2. r \in Requests /\ r.op = op /\ r.n = h.dd /\ r.dir = h.dir
      BY <3>1 DEF Request, Requests, Ops, PathOps
    <3>3. Asks(r)
      BY <2>1
    <3> HIDE DEF r
    <3> QED
      BY <2>1, <3>2, <3>3 DEF AsksFor
  <2>2. ASSUME NEW op \in {"readdir", "closedir"}, NEW n \in {-1, MaxDd},
               Asks(Request(op, NoPath, n)), UNCHANGED <<files, handles>>
        PROVE  \E r : AsksFor(r)
    <3> DEFINE r == Request(op, NoPath, n)
    <3>1. r \in Requests /\ r.op = op /\ r.n = n /\ r.dir = NoPath
      BY <1>1 DEF Ops, PathOps
    <3>2. Asks(r) /\ n \notin Slots
      BY <2>2, HostTypes
    <3> HIDE DEF r
    <3> QED
      BY <2>2, <3>1, <3>2 DEF AsksFor
  <2> QED
    BY <1>4, <2>1, <2>2 DEF AskDir
<1>5. CASE AskUnknown
  <2> DEFINE r == Request("unknown", NoPath, 0)
  <2>1. r \in Requests /\ r.op = "unknown"
    BY <1>1 DEF Ops, PathOps
  <2>2. Asks(r) /\ UNCHANGED <<files, handles>>
    BY <1>5 DEF AskUnknown
  <2> HIDE DEF r
  <2> QED
    BY <2>1, <2>2 DEF AsksFor
<1> QED
  BY <1>2, <1>3, <1>4, <1>5

\* A request that needs no data is added to the stream.
LEMMA ShapeAdd ==
    ASSUME WireTypes, StreamShape, ~closed, NEW r \in Requests, r.op \notin {"write", "data"},
           stream' = stream \o <<r>>
    PROVE  StreamShape'
<1>1. /\ Len(stream) \in Nat /\ Len(stream') = Len(stream) + 1
      /\ \A i \in 1..Len(stream) : stream'[i] = stream[i]
      /\ stream'[Len(stream) + 1] = r
  BY AddFacts DEF WireTypes
<1>2. ASSUME NEW i \in 1..Len(stream'), stream'[i].op = "data"
      PROVE  i > 1 /\ stream'[i - 1].op = "write"
  <2>1. i # Len(stream) + 1
    BY <1>1, <1>2
  <2>2. i \in 1..Len(stream)
    BY <1>1, <2>1
  <2>3. i > 1 /\ stream[i - 1].op = "write"
    BY <1>1, <1>2, <2>2 DEF StreamShape
  <2>4. i - 1 \in 1..Len(stream)
    BY <1>1, <2>2, <2>3
  <2> QED
    BY <1>1, <2>3, <2>4
<1>3. ASSUME NEW i \in 1..Len(stream'), stream'[i].op = "write"
      PROVE  i < Len(stream') /\ stream'[i + 1].op = "data"
  <2>1. i # Len(stream) + 1
    BY <1>1, <1>3
  <2>2. i \in 1..Len(stream)
    BY <1>1, <2>1
  <2>3. i < Len(stream) /\ stream[i + 1].op = "data"
    BY <1>1, <1>3, <2>2 DEF StreamShape
  <2>4. i < Len(stream') /\ i + 1 \in 1..Len(stream)
    BY <1>1, <2>2, <2>3
  <2> QED
    BY <1>1, <2>3, <2>4
<1> QED
  BY <1>2, <1>3 DEF StreamShape

\* A write is added with its data.
LEMMA ShapeAddTwo ==
    ASSUME WireTypes, StreamShape, ~closed, NEW r \in Requests, r.op = "write",
           stream' = stream \o <<r, Data>>
    PROVE  StreamShape'
<1>1. /\ Len(stream) \in Nat /\ Len(stream') = Len(stream) + 2
      /\ \A i \in 1..Len(stream) : stream'[i] = stream[i]
      /\ stream'[Len(stream) + 1] = r /\ stream'[Len(stream) + 2] = Data /\ Data.op = "data"
  BY AddTwoFacts, DataFacts DEF WireTypes
<1>2. ASSUME NEW i \in 1..Len(stream'), stream'[i].op = "data"
      PROVE  i > 1 /\ stream'[i - 1].op = "write"
  <2>1. CASE i = Len(stream) + 2
    <3>1. i > 1 /\ i - 1 = Len(stream) + 1
      BY <1>1, <2>1
    <3> QED
      BY <1>1, <3>1
  <2>2. CASE i \in 1..Len(stream)
    <3>1. i > 1 /\ stream[i - 1].op = "write"
      BY <1>1, <1>2, <2>2 DEF StreamShape
    <3>2. i - 1 \in 1..Len(stream)
      BY <1>1, <2>2, <3>1
    <3> QED
      BY <1>1, <3>1, <3>2
  <2>3. i # Len(stream) + 1
    BY <1>1, <1>2
  <2> QED
    BY <1>1, <2>1, <2>2, <2>3
<1>3. ASSUME NEW i \in 1..Len(stream'), stream'[i].op = "write"
      PROVE  i < Len(stream') /\ stream'[i + 1].op = "data"
  <2>1. CASE i = Len(stream) + 1
    <3>1. i < Len(stream') /\ i + 1 = Len(stream) + 2
      BY <1>1, <2>1
    <3> QED
      BY <1>1, <3>1
  <2>2. CASE i \in 1..Len(stream)
    <3>1. i < Len(stream) /\ stream[i + 1].op = "data"
      BY <1>1, <1>3, <2>2 DEF StreamShape
    <3>2. i < Len(stream') /\ i + 1 \in 1..Len(stream)
      BY <1>1, <2>2, <3>1
    <3> QED
      BY <1>1, <3>1, <3>2
  <2>3. i # Len(stream) + 2
    BY <1>1, <1>3
  <2> QED
    BY <1>1, <2>1, <2>2, <2>3
<1> QED
  BY <1>2, <1>3 DEF StreamShape
\* A longer stream leaves what was under way where it was.
LEMMA UnderGrows ==
    ASSUME WireTypes, WireTypes', inbox' = inbox, NEW n \in Nat, Len(stream') = Len(stream) + n,
           \A i \in 1..Len(stream) : stream'[i] = stream[i]
    PROVE  /\ \A i \in 1..(Len(inbox) + Len(stream)) : UnderWay'[i] = UnderWay[i]
           /\ \A j \in 1..n : UnderWay'[Len(inbox) + Len(stream) + j] = stream'[Len(stream) + j]
<1> DEFINE L == Len(inbox)
           S == Len(stream)
<1>1. L \in Nat /\ S \in Nat /\ Len(inbox') = L /\ Len(stream') = S + n
  BY DEF WireTypes
<1>2. ASSUME NEW i \in 1..(L + S) PROVE UnderWay'[i] = UnderWay[i]
  <2>1. CASE i \in 1..L
    BY <2>1, UnderFacts, UnderFactsNext
  <2>2. CASE i > L
    <3>1. i \in (L + 1)..(L + S) /\ i \in (L + 1)..(L + Len(stream')) /\ i - L \in 1..S
      BY <1>1, <2>2
    <3>2. UnderWay[i] = stream[i - L]
      BY <3>1, UnderFacts
    <3>3. UnderWay'[i] = stream'[i - L]
      BY <1>1, <3>1, UnderFactsNext
    <3> QED
      BY <3>1, <3>2, <3>3
  <2> QED
    BY <1>1, <2>1, <2>2
<1>3. ASSUME NEW j \in 1..n PROVE UnderWay'[L + S + j] = stream'[S + j]
  <2>1. L + S + j \in (L + 1)..(L + Len(stream')) /\ (L + S + j) - L = S + j
    BY <1>1
  <2> QED
    BY <1>1, <2>1, UnderFactsNext
<1> QED
  BY <1>2, <1>3

LEMMA AskKeepsWire ==
    ASSUME WireOk, NEW r, AsksFor(r)
    PROVE  WireOk'
<1>1. /\ ~closed /\ requests < MaxRequests /\ requests' = requests + 1
      /\ stream' = stream \o (IF r.op = "write" THEN <<r, Data>> ELSE <<r>>)
      /\ asked' = (IF r.op = "unknown" THEN asked ELSE Append(asked, r))
      /\ inbox' = inbox /\ closed' = closed /\ lost' = lost /\ failed' = failed
      /\ r \in Requests /\ r.op # "data"
  BY DEF AsksFor, Asks, hostVars
<1>2. files' \subseteq files /\ handles' \subseteq handles
  BY DEF AsksFor
<1>3. WireTypes /\ Data \in Requests
  BY DataFacts DEF WireOk
<1> DEFINE S == Len(stream)
           N == Len(inbox) + S
<1>4. S \in Nat /\ Len(inbox) \in Nat /\ N \in Nat
  BY <1>3 DEF WireTypes
<1>5. /\ r.op # "write" => /\ stream' \in Seq(Requests) /\ Len(stream') = S + 1
                           /\ \A i \in 1..S : stream'[i] = stream[i]
                           /\ stream'[S + 1] = r
      /\ r.op = "write" => /\ stream' \in Seq(Requests) /\ Len(stream') = S + 2
                           /\ \A i \in 1..S : stream'[i] = stream[i]
                           /\ stream'[S + 1] = r /\ stream'[S + 2] = Data
  BY <1>1, <1>3, AddFacts, AddTwoFacts DEF WireTypes
<1>6. /\ r.op # "unknown" => /\ asked' \in Seq(Requests) /\ Len(asked') = Len(asked) + 1
                             /\ \A k \in 1..Len(asked) : asked'[k] = asked[k]
                             /\ asked'[Len(asked) + 1] = r /\ Len(asked) \in Nat
      /\ r.op = "unknown" => asked' = asked
  BY <1>1, <1>3, AppendFacts DEF WireTypes
<1>7. WireTypes'
  <2>1. requests' \in 0..MaxRequests
    BY <1>1, <1>3, HostAssumption DEF WireTypes
  <2>2. stream' \in Seq(Requests) /\ asked' \in Seq(Requests) /\ inbox' \in Seq(Replies \cup {Data})
    BY <1>1, <1>3, <1>5, <1>6 DEF WireTypes
  <2> QED
    BY <1>1, <1>2, <1>3, <2>1, <2>2 DEF WireTypes
<1>8. EndInv'
  <2>1. ~closed'
    BY <1>1
  <2>2. \A k \in 1..Len(asked) : Waits(asked[k])
    BY DEF WireOk, EndInv
  <2>3. CASE r.op = "unknown"
    BY <1>6, <2>1, <2>2, <2>3 DEF EndInv
  <2>4. CASE r.op # "unknown"
    <3>1. Waits(r)
      BY <1>1, <2>4 DEF Waits
    <3>2. ASSUME NEW k \in 1..Len(asked') PROVE Waits(asked'[k])
      <4>1. k \in 1..Len(asked) \/ k = Len(asked) + 1
        BY <1>6, <2>4
      <4> QED
        BY <1>6, <2>2, <2>4, <3>1, <4>1
    <3> QED
      BY <2>1, <3>2 DEF EndInv
  <2> QED
    BY <2>3, <2>4
<1>h. InboxShape
  BY DEF WireOk
<1>i. InboxShape'
  BY <1>1, <1>h DEF InboxShape
<1>9. ASSUME Full' PROVE StreamShape' /\ MatchInv'
  <2>1. StreamShape /\ MatchInv
    BY <1>1, <1>9 DEF WireOk, Full
  <2>2. StreamShape'
    <3>1. CASE r.op = "write"
      BY <1>1, <1>3, <2>1, <3>1, ShapeAddTwo
    <3>2. CASE r.op # "write"
      BY <1>1, <1>3, <2>1, <3>2, ShapeAdd
    <3> QED
      BY <3>1, <3>2
  <2>4. Matches(UnderWay, N, asked) /\ asked \in Seq(Requests)
    BY <1>1, <1>3, <2>1 DEF MatchInv, WireTypes
  <2>5. CASE r.op = "write"
    <3>1. /\ \A i \in 1..N : UnderWay'[i] = UnderWay[i]
          /\ UnderWay'[N + 1] = r /\ UnderWay'[N + 2] = Data
      <4>1. 2 \in Nat /\ 1 \in 1..2 /\ 2 \in 1..2
        OBVIOUS
      <4>2. /\ \A i \in 1..N : UnderWay'[i] = UnderWay[i]
            /\ \A j \in 1..2 : UnderWay'[N + j] = stream'[S + j]
        BY <1>1, <1>3, <1>5, <1>7, <2>5, <4>1, UnderGrows
      <4> HIDE DEF N, S
      <4> QED
        BY <1>5, <2>5, <4>1, <4>2
    <3> DEFINE M == N + 2
    <3>2. M \in Nat /\ M \in 1..M /\ M - 1 = N + 1 /\ Len(inbox') + Len(stream') = M
      BY <1>1, <1>4, <1>5, <2>5
    <3>3. asked' \in Seq(Requests) /\ asked'[Len(asked')] = UnderWay'[N + 1]
      BY <1>6, <2>5, <3>1
    <3>4. Matches(UnderWay', N + 1, asked')
      <4> HIDE DEF N, S
      <4> QED
        BY <1>4, <1>6, <2>4, <2>5, <3>1, <3>3, MatchAdd
    <3>5. ~Waits(UnderWay'[M])
      BY <3>1, DataFacts
    <3>6. Matches(UnderWay', M - 1, asked')
      BY <3>2, <3>4
    <3> HIDE DEF M
    <3>7. \A i \in 1..(M - 1) : UnderWay'[i] = IF i < M THEN UnderWay'[i] ELSE UnderWay'[i + 1]
      BY <3>2
    <3>8. Matches(UnderWay', M, asked')
      BY <3>2, <3>3, <3>5, <3>6, <3>7, MatchInsert
    <3> QED
      BY <2>2, <3>2, <3>8 DEF MatchInv
  <2>6. CASE r.op # "write"
    <3>1. /\ \A i \in 1..N : UnderWay'[i] = UnderWay[i]
          /\ UnderWay'[N + 1] = r
      <4>1. 1 \in Nat /\ 1 \in 1..1
        OBVIOUS
      <4>2. /\ \A i \in 1..N : UnderWay'[i] = UnderWay[i]
            /\ \A j \in 1..1 : UnderWay'[N + j] = stream'[S + j]
        BY <1>1, <1>3, <1>5, <1>7, <2>6, <4>1, UnderGrows
      <4> HIDE DEF N, S
      <4> QED
        BY <1>5, <2>6, <4>1, <4>2
    <3> DEFINE M == N + 1
    <3>2. M \in Nat /\ M \in 1..M /\ M - 1 = N /\ Len(inbox') + Len(stream') = M
      BY <1>1, <1>4, <1>5, <2>6
    <3>3. CASE r.op = "unknown"
      <4>1. Matches(UnderWay', N, asked)
        BY <1>4, <2>4, <3>1, MatchSame
      <4>2. ~Waits(UnderWay'[M])
        BY <3>1, <3>3 DEF Waits
      <4>3. Matches(UnderWay', M - 1, asked)
        BY <3>2, <4>1
      <4> HIDE DEF M
      <4>4. \A i \in 1..(M - 1) : UnderWay'[i] = IF i < M THEN UnderWay'[i] ELSE UnderWay'[i + 1]
        BY <3>2
      <4>5. Matches(UnderWay', M, asked)
        BY <2>4, <3>2, <4>2, <4>3, <4>4, MatchInsert
      <4> QED
        BY <1>6, <2>2, <3>2, <3>3, <4>5 DEF MatchInv
    <3>4. CASE r.op # "unknown"
      <4>1. asked' \in Seq(Requests) /\ asked'[Len(asked')] = UnderWay'[N + 1]
        BY <1>6, <3>1, <3>4
      <4>2. Matches(UnderWay', N + 1, asked')
        <5> HIDE DEF N, S
        <5> QED
          BY <1>4, <1>6, <2>4, <3>1, <3>4, <4>1, MatchAdd
      <4> QED
        BY <2>2, <3>2, <4>2 DEF MatchInv
    <3> QED
      BY <3>3, <3>4
  <2> QED
    BY <2>5, <2>6
<1> QED
  BY <1>7, <1>8, <1>9, <1>i DEF WireOk
\* The first d items are taken from the inbox, and no data is left without its response.
LEMMA InboxDrop ==
    ASSUME WireTypes, InboxShape, NEW d \in 1..Len(inbox),
           ~(inbox[d].op = "read" /\ inbox[d].result > 0),
           Len(inbox') = Len(inbox) - d,
           \A i \in 1..(Len(inbox) - d) : inbox'[i] = inbox[i + d]
    PROVE  InboxShape'
<1>1. Len(inbox) \in Nat
  BY DEF WireTypes
<1>2. ASSUME NEW i \in 1..Len(inbox'), inbox'[i].op = "data"
      PROVE  i > 1 /\ inbox'[i - 1].op = "read" /\ inbox'[i - 1].result > 0
  <2>1. i + d \in 1..Len(inbox) /\ inbox[i + d].op = "data" /\ (i + d) - 1 = (i - 1) + d
    BY <1>1, <1>2
  <2>2. inbox[(i - 1) + d].op = "read" /\ inbox[(i - 1) + d].result > 0
    BY <2>1 DEF InboxShape
  <2>3. i # 1
    BY <1>1, <2>2
  <2>4. i > 1 /\ i - 1 \in 1..(Len(inbox) - d)
    BY <1>1, <2>3
  <2> QED
    BY <2>2, <2>4
<1>3. ASSUME NEW i \in 1..Len(inbox'), inbox'[i].op = "read", inbox'[i].result > 0
      PROVE  i < Len(inbox') /\ inbox'[i + 1].op = "data"
  <2>1. i + d \in 1..Len(inbox) /\ inbox[i + d].op = "read" /\ inbox[i + d].result > 0
    BY <1>1, <1>3
  <2>2. i + d < Len(inbox) /\ inbox[(i + d) + 1].op = "data"
    BY <2>1 DEF InboxShape
  <2>3. i < Len(inbox')
    BY <1>1, <2>2
  <2>4. i + 1 \in 1..(Len(inbox) - d) /\ (i + 1) + d = (i + d) + 1
    BY <1>1, <2>3
  <2> QED
    BY <2>2, <2>3, <2>4
<1> QED
  BY <1>2, <1>3 DEF InboxShape

\* What is under way moves up.
LEMMA UnderShift ==
    ASSUME WireTypes, WireTypes', stream' = stream, NEW d \in 1..Len(inbox),
           Len(inbox') = Len(inbox) - d,
           \A i \in 1..(Len(inbox) - d) : inbox'[i] = inbox[i + d]
    PROVE  \A i \in 1..((Len(inbox) + Len(stream)) - d) : UnderWay'[i] = UnderWay[i + d]
<1> DEFINE L == Len(inbox)
           S == Len(stream)
<1>1. L \in Nat /\ S \in Nat /\ Len(inbox') = L - d /\ Len(stream') = S /\ d \in 1..L
  BY DEF WireTypes
<1>2. \A i \in 1..(L - d) : inbox'[i] = inbox[i + d]
  OBVIOUS
<1>3. ASSUME NEW i \in 1..((L + S) - d) PROVE UnderWay'[i] = UnderWay[i + d]
  <2>1. CASE i <= L - d
    <3>1. i \in 1..Len(inbox') /\ i \in 1..(L - d) /\ i + d \in 1..Len(inbox)
      BY <1>1, <2>1
    <3>2. UnderWay'[i] = Answers(inbox'[i])
      BY <3>1, UnderFactsNext
    <3>3. UnderWay[i + d] = Answers(inbox[i + d])
      BY <3>1, UnderFacts
    <3> QED
      BY <1>2, <3>1, <3>2, <3>3
  <2>2. CASE ~(i <= L - d)
    <3>1. /\ i \in (Len(inbox') + 1)..(Len(inbox') + Len(stream'))
          /\ i + d \in (L + 1)..(L + S) /\ i - Len(inbox') = (i + d) - L
      BY <1>1, <2>2
    <3>2. UnderWay'[i] = stream'[i - Len(inbox')]
      BY <3>1, UnderFactsNext
    <3>3. UnderWay[i + d] = stream[(i + d) - L]
      BY <3>1, UnderFacts
    <3> QED
      BY <3>1, <3>2, <3>3
  <2> QED
    BY <2>1, <2>2
<1> QED
  BY <1>3

\* The first thing ps2link has received is a response.
LEMMA FirstIsResponse ==
    ASSUME WireTypes, InboxShape, inbox # <<>>
    PROVE  /\ Len(inbox) \in Nat /\ Len(inbox) >= 1 /\ Head(inbox) = inbox[1]
           /\ inbox[1] \in Replies /\ Answers(inbox[1]) = inbox[1].req /\ Waits(inbox[1].req)
           /\ inbox[1].req \in Requests /\ inbox[1].req.op = inbox[1].op
<1>1. /\ Len(inbox) \in Nat /\ Len(inbox) >= 1 /\ Head(inbox) = inbox[1]
      /\ inbox[1] \in Replies \cup {Data}
  BY TailFacts DEF WireTypes
<1>2. 1 \in 1..Len(inbox)
  BY <1>1
<1>3. inbox[1].op # "data"
  BY <1>2 DEF InboxShape
<1>4. inbox[1] \in Replies
  BY <1>1, <1>3, DataFacts
<1> QED
  BY <1>1, <1>4, ReplyFields, AnswersFacts DEF Waits

\* It is the response to the oldest request.
LEMMA FirstIsMine ==
    ASSUME WireOk, Full, inbox # <<>>
    PROVE  /\ ~closed /\ asked # <<>> /\ Head(asked) = inbox[1].req
           /\ Matches([i \in 1..((Len(inbox) + Len(stream)) - 1) |-> UnderWay[i + 1]],
                      (Len(inbox) + Len(stream)) - 1, Tail(asked))
<1>1. WireTypes /\ InboxShape /\ MatchInv /\ ~closed /\ asked \in Seq(Requests)
  BY DEF WireOk, EndInv, WireTypes
<1> DEFINE N == Len(inbox) + Len(stream)
           v == [i \in 1..(N - 1) |-> UnderWay[i + 1]]
<1>2. Matches(UnderWay, N, asked)
  BY <1>1 DEF MatchInv
<1>3. Len(stream) \in Nat /\ Len(inbox) \in Nat /\ Len(inbox) >= 1
  BY <1>1, FirstIsResponse DEF WireTypes
<1>4. N \in Nat /\ N >= 1 /\ 1 \in 1..Len(inbox)
  BY <1>3
<1>5. UnderWay[1] = inbox[1].req /\ Waits(UnderWay[1])
  BY <1>1, <1>4, UnderFacts, FirstIsResponse
<1>6. \A i \in 1..(N - 1) : v[i] = UnderWay[i + 1]
  OBVIOUS
<1> HIDE DEF N, v
<1>7. asked # <<>> /\ Head(asked) = UnderWay[1] /\ Matches(v, N - 1, Tail(asked))
  BY <1>1, <1>2, <1>4, <1>5, <1>6, MatchTake
<1> QED
  BY <1>1, <1>5, <1>7 DEF N, v

LEMMA TakeKeepsWire ==
    ASSUME WireOk, TakeReply
    PROVE  WireOk'
<1> DEFINE q == Head(inbox)
           d == IF q.op = "read" /\ q.result > 0 THEN 2 ELSE 1
<1>1. /\ asked # <<>> /\ inbox # <<>> /\ q.op = Head(asked).op
      /\ inbox' = (IF q.op = "read" /\ q.result > 0 THEN Tail(Tail(inbox)) ELSE Tail(inbox))
      /\ files' = (IF q.op = "open" /\ q.result >= 0 THEN files \cup {q.result} ELSE files)
      /\ handles' = (IF q.op = "opendir" /\ q.result >= 0
                       THEN handles \cup {[dd |-> q.result, dir |-> Head(asked).path]}
                       ELSE handles)
      /\ asked' = Tail(asked)
      /\ UNCHANGED <<stream, lost, closed, requests, failed>>
  BY DEF TakeReply, hostVars
<1>2. WireTypes /\ InboxShape /\ EndInv /\ ~closed
  BY <1>1 DEF WireOk, EndInv
<1>3. q = inbox[1] /\ q \in Replies /\ Len(inbox) \in Nat /\ Len(inbox) >= 1
  BY <1>1, <1>2, FirstIsResponse
<1>4. /\ Head(asked) \in Requests /\ Tail(asked) \in Seq(Requests) /\ Len(asked) \in Nat
      /\ Len(asked) >= 1 /\ Len(asked') = Len(asked) - 1
      /\ \A k \in 1..(Len(asked) - 1) : asked'[k] = asked[k + 1]
  BY <1>1, <1>2, TailFacts DEF WireTypes
<1>5. d \in 1..Len(inbox) /\ (d = 2 => inbox[2].op = "data")
  <2>1. CASE q.op = "read" /\ q.result > 0
    <3>1. 1 \in 1..Len(inbox) /\ 1 + 1 = 2
      BY <1>3
    <3>2. 1 < Len(inbox) /\ inbox[1 + 1].op = "data"
      BY <1>2, <1>3, <2>1, <3>1 DEF InboxShape
    <3> QED
      BY <1>3, <2>1, <3>1, <3>2
  <2>2. CASE ~(q.op = "read" /\ q.result > 0)
    BY <1>3, <2>2
  <2> QED
    BY <2>1, <2>2
<1>6. /\ inbox' \in Seq(Replies \cup {Data}) /\ Len(inbox') = Len(inbox) - d
      /\ \A i \in 1..(Len(inbox) - d) : inbox'[i] = inbox[i + d]
  <2>1. CASE q.op = "read" /\ q.result > 0
    <3>1. inbox' = Tail(Tail(inbox)) /\ d = 2
      BY <1>1, <2>1
    <3>2. Len(inbox) > 1
      BY <1>3, <1>5, <3>1
    <3> HIDE DEF d
    <3> QED
      BY <1>2, <3>1, <3>2, TailTwoFacts DEF WireTypes
  <2>2. CASE ~(q.op = "read" /\ q.result > 0)
    <3>1. inbox' = Tail(inbox) /\ d = 1
      BY <1>1, <2>2
    <3>2. /\ Tail(inbox) \in Seq(Replies \cup {Data}) /\ Len(Tail(inbox)) = Len(inbox) - 1
          /\ \A i \in 1..(Len(inbox) - 1) : Tail(inbox)[i] = inbox[i + 1]
      BY <1>1, <1>2, TailFacts DEF WireTypes
    <3> HIDE DEF d
    <3> QED
      BY <3>1, <3>2
  <2> QED
    BY <2>1, <2>2
<1>7. files' \subseteq Fds
  <2>1. q.op = "open" /\ q.result >= 0 => q.result \in Fds
    BY <1>3, ReplyFields
  <2> QED
    BY <1>1, <1>2, <2>1 DEF WireTypes
<1>8. handles' \subseteq [dd : Slots, dir : Paths]
  <2>1. q.op = "opendir" /\ q.result >= 0 => q.result \in Slots
    BY <1>3, ReplyFields
  <2>2. q.op = "opendir" => Head(asked).path \in Paths
    BY <1>1, <1>4, RequestFields DEF PathOps
  <2> QED
    BY <1>1, <1>2, <2>1, <2>2 DEF WireTypes
<1>9. WireTypes'
  BY <1>1, <1>2, <1>4, <1>6, <1>7, <1>8 DEF WireTypes
<1>10. EndInv'
  <2>1. ASSUME NEW k \in 1..Len(asked') PROVE Waits(asked'[k])
    <3>1. k \in 1..(Len(asked) - 1) /\ k + 1 \in 1..Len(asked)
      BY <1>4
    <3> QED
      BY <1>2, <1>4, <3>1 DEF EndInv
  <2> QED
    BY <1>1, <1>2, <2>1 DEF EndInv
<1>11. ~(inbox[d].op = "read" /\ inbox[d].result > 0)
  <2>1. CASE q.op = "read" /\ q.result > 0
    BY <1>5, <2>1
  <2>2. CASE ~(q.op = "read" /\ q.result > 0)
    BY <1>3, <2>2
  <2> QED
    BY <2>1, <2>2
<1>d. d \in {1, 2}
  OBVIOUS
<1> HIDE DEF d
<1>12. InboxShape'
  BY <1>2, <1>5, <1>6, <1>11, InboxDrop
<1>13. ASSUME Full' PROVE StreamShape' /\ MatchInv'
  <2>1. Full /\ StreamShape /\ StreamShape'
    BY <1>1, <1>13 DEF WireOk, Full, StreamShape
  <2> DEFINE N == Len(inbox) + Len(stream)
             v == [i \in 1..(N - 1) |-> UnderWay[i + 1]]
             b == Tail(asked)
  <2>2. Matches(v, N - 1, b)
    BY <1>1, <2>1, FirstIsMine
  <2>a. Len(stream) \in Nat /\ Len(stream') = Len(stream)
    BY <1>1, <1>2 DEF WireTypes
  <2>b. N \in Nat /\ N >= d
    BY <1>3, <1>5, <2>a
  <2>c. Len(inbox') + Len(stream') = N - d
    BY <1>3, <1>5, <1>6, <2>a
  <2>3. Len(stream) \in Nat /\ N \in Nat /\ N >= d /\ Len(inbox') + Len(stream') = N - d
    BY <2>a, <2>b, <2>c
  <2>4. \A i \in 1..(N - d) : UnderWay'[i] = UnderWay[i + d]
    BY <1>1, <1>2, <1>5, <1>6, <1>9, UnderShift
  <2>5. \A i \in 1..(N - 1) : v[i] = UnderWay[i + 1]
    OBVIOUS
  <2>6. b \in Seq(Requests) /\ \A k \in 1..Len(b) : Waits(b[k])
    BY <1>1, <1>4, <1>10 DEF EndInv
  <2> HIDE DEF v, b
  <2>7. CASE d = 1
    <3>1. N - 1 \in Nat
      BY <2>3, <2>7
    <3>2. \A i \in 1..(N - 1) : UnderWay'[i] = v[i]
      BY <2>4, <2>5, <2>7
    <3> HIDE DEF N
    <3>3. Matches(UnderWay', N - 1, b)
      BY <2>2, <2>6, <3>1, <3>2, MatchSame
    <3> QED
      BY <1>1, <2>1, <2>3, <2>7, <3>3 DEF MatchInv, b
  <2>8. CASE d = 2
    <3> DEFINE M == N - 1
    <3>1. M \in Nat /\ 1 \in 1..M /\ M - 1 = N - 2 /\ 2 \in 1..Len(inbox)
      BY <1>3, <1>5, <2>3, <2>8
    <3>2. v[1] = UnderWay[2]
      BY <2>5, <3>1
    <3>3. UnderWay[2] = Data
      BY <1>2, <1>5, <2>8, <3>1, UnderFacts DEF Answers
    <3>4. ~Waits(v[1])
      BY <3>2, <3>3, DataFacts
    <3>5. ASSUME NEW i \in 1..(M - 1)
          PROVE  UnderWay'[i] = IF i < 1 THEN v[i] ELSE v[i + 1]
      <4>1. i \in 1..(N - 2) /\ i + 1 \in 1..(N - 1) /\ (i + 1) + 1 = i + 2 /\ ~(i < 1)
        BY <2>3, <3>1
      <4>2. UnderWay'[i] = UnderWay[i + 2]
        BY <2>4, <2>8, <4>1
      <4>3. v[i + 1] = UnderWay[i + 2]
        BY <2>5, <4>1
      <4> QED
        BY <4>1, <4>2, <4>3
    <3>6. Matches(v, M, b)
      BY <2>2
    <3> HIDE DEF M, N
    <3>7. Matches(UnderWay', M - 1, b)
      BY <2>6, <3>1, <3>4, <3>5, <3>6, MatchDrop
    <3> QED
      BY <1>1, <2>1, <2>3, <2>8, <3>1, <3>7 DEF MatchInv, b
  <2> QED
    BY <1>d, <2>7, <2>8
<1> QED
  BY <1>9, <1>10, <1>12, <1>13 DEF WireOk

----------------------------------------------------------------------------
(* Directories.                                                            *)

LEMMA NotByHandle ==
    /\ ~Opened(Data) /\ GoodEntry(Data) /\ ~ByHandle(Data) /\ ~ByNumber(Data)
    /\ Data.op # "closedir"
BY DataFacts DEF Opened, GoodEntry, ByHandle, ByNumber

\* The host takes d items from the stream and answers m, and the slots that are held stay.
LEMMA ServeKeepsDirs ==
    ASSUME WireTypes, WireTypes', DirOk, handles' = handles, NEW d \in Nat,
           \A k \in 1..Len(stream') : k + d \in 1..Len(stream) /\ stream'[k] = stream[k + d],
           NEW m,
           \A i \in 1..Len(inbox') : \/ i \in 1..Len(inbox) /\ inbox'[i] = inbox[i]
                                     \/ i = Len(inbox) + 1 /\ inbox'[i] = m
                                     \/ inbox'[i] = Data,
           \A h \in handles : dd'[h.dd].dir = dd[h.dd].dir,
           \A k \in 1..Len(stream') :
             ByHandle(stream'[k]) => dd'[stream'[k].n].dir = dd[stream'[k].n].dir,
           \A i \in 1..Len(inbox) :
             Opened(inbox[i]) => dd'[inbox[i].result].dir = dd[inbox[i].result].dir,
           Opened(m) => /\ dd'[m.result].dir = m.req.path /\ Unheld(m.result, handles, stream)
                        /\ \A i \in 1..Len(inbox) : Opened(inbox[i]) => inbox[i].result # m.result,
           "stat" \notin failed' => "stat" \notin failed /\ GoodEntry(m)
    PROVE  DirOk'
<1>1. HandleInv'
  BY DEF DirOk, HandleInv
<1>2. QueueInv'
  <2>1. ASSUME NEW k \in 1..Len(stream'), ByNumber(stream'[k]) PROVE stream'[k].n \notin Slots
    BY <2>1 DEF DirOk, QueueInv
  <2>2. ASSUME NEW k \in 1..Len(stream'), ByHandle(stream'[k])
        PROVE  stream'[k].n \in Slots /\ dd'[stream'[k].n].dir = stream'[k].dir
    <3>1. k + d \in 1..Len(stream) /\ stream'[k] = stream[k + d]
      OBVIOUS
    <3>2. stream[k + d].n \in Slots /\ dd[stream[k + d].n].dir = stream[k + d].dir
      BY <2>2, <3>1 DEF DirOk, QueueInv
    <3> QED
      BY <2>2, <3>1, <3>2
  <2>3. ASSUME NEW j \in 1..Len(stream'), NEW k \in 1..Len(stream'), j < k,
               stream'[j].op = "closedir", ByHandle(stream'[j]), ByHandle(stream'[k])
        PROVE  stream'[j].n # stream'[k].n
    <3>1. j + d < k + d
      BY <2>3
    <3>2. j + d \in 1..Len(stream) /\ k + d \in 1..Len(stream)
      OBVIOUS
    <3>3. stream'[j] = stream[j + d] /\ stream'[k] = stream[k + d]
      OBVIOUS
    <3> QED
      BY <2>3, <3>1, <3>2, <3>3 DEF DirOk, QueueInv
  <2>4. ASSUME NEW h \in handles', NEW k \in 1..Len(stream'),
               stream'[k].op = "closedir", ByHandle(stream'[k])
        PROVE  stream'[k].n # h.dd
    BY <2>4 DEF DirOk, QueueInv
  <2> QED
    BY <2>1, <2>2, <2>3, <2>4 DEF QueueInv
<1>3. OpenedInv'
  <2>1. ASSUME NEW n, Unheld(n, handles, stream) PROVE Unheld(n, handles', stream')
    BY <2>1 DEF Unheld
  <2>2. ASSUME NEW i \in 1..Len(inbox'), Opened(inbox'[i])
        PROVE  /\ dd'[inbox'[i].result].dir = inbox'[i].req.path
               /\ Unheld(inbox'[i].result, handles', stream')
    <3>1. inbox'[i] # Data
      BY <2>2, NotByHandle
    <3>2. CASE i \in 1..Len(inbox) /\ inbox'[i] = inbox[i]
      BY <2>1, <2>2, <3>2 DEF DirOk, OpenedInv
    <3>3. CASE inbox'[i] = m
      BY <2>1, <2>2, <3>3
    <3> QED
      BY <3>1, <3>2, <3>3
  <2>3. ASSUME NEW i \in 1..Len(inbox'), NEW j \in 1..Len(inbox'),
               Opened(inbox'[i]), Opened(inbox'[j]), i # j
        PROVE  inbox'[i].result # inbox'[j].result
    <3>1. inbox'[i] # Data /\ inbox'[j] # Data
      BY <2>3, NotByHandle
    <3>2. /\ \/ i \in 1..Len(inbox) /\ inbox'[i] = inbox[i]
             \/ i = Len(inbox) + 1 /\ inbox'[i] = m
          /\ \/ j \in 1..Len(inbox) /\ inbox'[j] = inbox[j]
             \/ j = Len(inbox) + 1 /\ inbox'[j] = m
      BY <3>1
    <3>3. CASE i \in 1..Len(inbox) /\ inbox'[i] = inbox[i] /\ j \in 1..Len(inbox) /\ inbox'[j] = inbox[j]
      BY <2>3, <3>3 DEF DirOk, OpenedInv
    <3>4. CASE i \in 1..Len(inbox) /\ inbox'[i] = inbox[i] /\ inbox'[j] = m
      BY <2>3, <3>4
    <3>5. CASE inbox'[i] = m /\ j \in 1..Len(inbox) /\ inbox'[j] = inbox[j]
      BY <2>3, <3>5
    <3> QED
      BY <2>3, <3>2, <3>3, <3>4, <3>5
  <2> QED
    BY <2>2, <2>3 DEF OpenedInv
<1>4. EntryInv'
  BY NotByHandle DEF DirOk, EntryInv
<1> QED
  BY <1>1, <1>2, <1>3, <1>4 DEF DirOk
LEMMA TailPart ==
    ASSUME WireTypes, stream # <<>>, stream' = Tail(stream)
    PROVE  \A k \in 1..Len(stream') : k + 1 \in 1..Len(stream) /\ stream'[k] = stream[k + 1]
<1>1. /\ Len(stream) \in Nat /\ Len(stream') = Len(stream) - 1
      /\ \A i \in 1..(Len(stream) - 1) : stream'[i] = stream[i + 1]
  BY TailFacts DEF WireTypes
<1> QED
  BY <1>1

LEMMA InboxPart ==
    ASSUME WireTypes, NEW m \in Replies,
           \/ inbox' = inbox \/ inbox' = inbox \o <<m>> \/ inbox' = inbox \o <<m, Data>>
    PROVE  \A i \in 1..Len(inbox') : \/ i \in 1..Len(inbox) /\ inbox'[i] = inbox[i]
                                     \/ i = Len(inbox) + 1 /\ inbox'[i] = m
                                     \/ inbox'[i] = Data
<1>1. CASE inbox' = inbox
  BY <1>1
<1>2. CASE inbox' = inbox \o <<m>>
  <2>1. /\ Len(inbox) \in Nat /\ Len(inbox') = Len(inbox) + 1
        /\ \A i \in 1..Len(inbox) : inbox'[i] = inbox[i]
        /\ inbox'[Len(inbox) + 1] = m
    BY <1>2, AddFacts DEF WireTypes
  <2> QED
    BY <2>1
<1>3. CASE inbox' = inbox \o <<m, Data>>
  <2>1. /\ Len(inbox) \in Nat /\ Len(inbox') = Len(inbox) + 2
        /\ \A i \in 1..Len(inbox) : inbox'[i] = inbox[i]
        /\ inbox'[Len(inbox) + 1] = m /\ inbox'[Len(inbox) + 2] = Data
    BY <1>3, AddTwoFacts DEF WireTypes
  <2>2. ASSUME NEW i \in 1..Len(inbox')
        PROVE  i \in 1..Len(inbox) \/ i = Len(inbox) + 1 \/ i = Len(inbox) + 2
    BY <2>1
  <2> QED
    BY <2>1, <2>2
<1> QED
  BY <1>1, <1>2, <1>3

\* An answer that opens nothing, with the slots as they were.
LEMMA AnswerKeepsDirs ==
    ASSUME WireTypes, WireTypes', DirOk, NEW m, Answered(m) \/ AnsweredWithData(m),
           dd' = dd, ~Opened(m), "stat" \notin failed' => "stat" \notin failed /\ GoodEntry(m)
    PROVE  DirOk'
<1>1. /\ stream # <<>> /\ stream' = Tail(stream) /\ handles' = handles /\ m \in Replies
      /\ \/ inbox' = inbox \/ inbox' = inbox \o <<m>> \/ inbox' = inbox \o <<m, Data>>
  BY DEF Answered, AnsweredWithData
<1>2. /\ 1 \in Nat
      /\ \A k \in 1..Len(stream') : k + 1 \in 1..Len(stream) /\ stream'[k] = stream[k + 1]
  BY <1>1, TailPart
<1>3. \A i \in 1..Len(inbox') : \/ i \in 1..Len(inbox) /\ inbox'[i] = inbox[i]
                                \/ i = Len(inbox) + 1 /\ inbox'[i] = m
                                \/ inbox'[i] = Data
  BY <1>1, InboxPart
<1> QED
  BY <1>1, <1>2, <1>3, ServeKeepsDirs

LEMMA UnknownKeepsDirs ==
    ASSUME WireTypes, WireTypes', DirOk, stream # <<>>, stream' = Tail(stream), inbox' = inbox,
           dd' = dd, handles' = handles, failed' = failed
    PROVE  DirOk'
<1>1. /\ 1 \in Nat
      /\ \A k \in 1..Len(stream') : k + 1 \in 1..Len(stream) /\ stream'[k] = stream[k + 1]
  BY TailPart
<1>2. \A i \in 1..Len(inbox') : \/ i \in 1..Len(inbox) /\ inbox'[i] = inbox[i]
                                \/ i = Len(inbox) + 1 /\ inbox'[i] = Data
                                \/ inbox'[i] = Data
  OBVIOUS
<1>3. ~Opened(Data) /\ GoodEntry(Data)
  BY NotByHandle
<1> QED
  BY <1>1, <1>2, <1>3, ServeKeepsDirs

LEMMA WriteKeepsDirs ==
    ASSUME WireTypes, WireTypes', DirOk, NEW m, TakesData(m), m.op = "write",
           dd' = dd, handles' = handles, failed' = failed
    PROVE  DirOk'
<1>1. /\ Len(stream) \in Nat /\ Len(stream') = Len(stream) - 2
      /\ \A i \in 1..(Len(stream) - 2) : stream'[i] = stream[i + 2]
  <2>1. stream \in Seq(Requests) /\ Len(stream) > 1 /\ stream' = Tail(Tail(stream))
    BY DEF WireTypes, TakesData
  <2> QED
    BY <2>1, TailTwoFacts
<1>2. /\ 2 \in Nat
      /\ \A k \in 1..Len(stream') : k + 2 \in 1..Len(stream) /\ stream'[k] = stream[k + 2]
  BY <1>1
<1>3. \A i \in 1..Len(inbox') : \/ i \in 1..Len(inbox) /\ inbox'[i] = inbox[i]
                                \/ i = Len(inbox) + 1 /\ inbox'[i] = m
                                \/ inbox'[i] = Data
  BY InboxPart DEF TakesData
<1>4. ~Opened(m) /\ GoodEntry(m)
  BY DEF Opened, GoodEntry
<1> QED
  BY <1>2, <1>3, <1>4, ServeKeepsDirs

\* A free slot gets a directory.
LEMMA OpendirKeepsDirs ==
    ASSUME HostOk, WireTypes, WireTypes', DirOk, NEW m, Answered(m), m.op = "opendir",
           m.result \in Slots, dd[m.result].dir = NoPath,
           dd' = [dd EXCEPT ![m.result] = [dir |-> m.req.path, pathname |-> m.req.path]],
           failed' = failed
    PROVE  DirOk'
<1>1. /\ stream # <<>> /\ stream' = Tail(stream) /\ handles' = handles /\ m \in Replies
      /\ \/ inbox' = inbox \/ inbox' = inbox \o <<m>> \/ inbox' = inbox \o <<m, Data>>
  BY DEF Answered
<1>2. /\ 1 \in Nat
      /\ \A k \in 1..Len(stream') : k + 1 \in 1..Len(stream) /\ stream'[k] = stream[k + 1]
  BY <1>1, TailPart
<1>3. \A i \in 1..Len(inbox') : \/ i \in 1..Len(inbox) /\ inbox'[i] = inbox[i]
                                \/ i = Len(inbox) + 1 /\ inbox'[i] = m
                                \/ inbox'[i] = Data
  BY <1>1, InboxPart
<1>4. ASSUME NEW n \in Slots, n # m.result PROVE dd'[n].dir = dd[n].dir
  BY <1>4 DEF HostOk
<1>5. dd'[m.result].dir = m.req.path
  BY DEF HostOk
<1>6. ASSUME NEW h \in handles PROVE h.dd \in Slots /\ h.dd # m.result
  <2>1. h.dd \in Slots /\ h.dir \in Paths /\ dd[h.dd].dir = h.dir
    BY DEF WireTypes, DirOk, HandleInv
  <2> QED
    BY <2>1, HostTypes
<1>7. ASSUME NEW k \in 1..Len(stream), ByHandle(stream[k])
      PROVE  stream[k].n \in Slots /\ stream[k].n # m.result
  <2>1. stream[k].n \in Slots /\ dd[stream[k].n].dir = stream[k].dir /\ stream[k].dir # NoPath
    BY <1>7 DEF DirOk, QueueInv, ByHandle
  <2> QED
    BY <2>1
<1>8. ASSUME NEW i \in 1..Len(inbox), Opened(inbox[i])
      PROVE  inbox[i].result \in Slots /\ inbox[i].result # m.result
  <2>1. inbox[i] \in Replies \cup {Data} /\ inbox[i] # Data
    BY <1>8, NotByHandle DEF WireTypes
  <2>2. /\ inbox[i].op = "opendir" /\ inbox[i].result \in Slots \cup {-1} /\ inbox[i].result >= 0
        /\ inbox[i].req \in Requests /\ inbox[i].req.op = "opendir"
    BY <1>8, <2>1, ReplyFields DEF Opened
  <2>3. inbox[i].req.path \in Paths
    BY <2>2, RequestFields DEF PathOps
  <2>4. dd[inbox[i].result].dir = inbox[i].req.path
    BY <1>8 DEF DirOk, OpenedInv
  <2> QED
    BY <2>2, <2>3, <2>4, HostTypes
<1>9. Unheld(m.result, handles, stream)
  BY <1>6, <1>7 DEF Unheld
<1>10. GoodEntry(m)
  BY DEF GoodEntry
<1>11. \A k \in 1..Len(stream') :
         ByHandle(stream'[k]) => dd'[stream'[k].n].dir = dd[stream'[k].n].dir
  BY <1>2, <1>4, <1>7
<1>12. /\ \A h \in handles : dd'[h.dd].dir = dd[h.dd].dir
       /\ \A i \in 1..Len(inbox) :
            Opened(inbox[i]) => dd'[inbox[i].result].dir = dd[inbox[i].result].dir
  BY <1>4, <1>6, <1>8
<1> QED
  BY <1>1, <1>2, <1>3, <1>5, <1>8, <1>9, <1>10, <1>11, <1>12, ServeKeepsDirs

\* The slot of a directory that nobody holds any more is freed.
LEMMA ClosedirKeepsDirs ==
    ASSUME HostOk, WireTypes, WireTypes', DirOk, NEW m, Answered(m), m.op = "closedir",
           GoodDd(m.req.n), dd' = [dd EXCEPT ![m.req.n] = Empty], failed' = failed
    PROVE  DirOk'
<1> DEFINE s == m.req.n
<1>1. /\ stream # <<>> /\ stream' = Tail(stream) /\ handles' = handles /\ m \in Replies
      /\ m.req = Head(stream)
      /\ \/ inbox' = inbox \/ inbox' = inbox \o <<m>> \/ inbox' = inbox \o <<m, Data>>
  BY DEF Answered
<1>2. /\ 1 \in Nat
      /\ \A k \in 1..Len(stream') : k + 1 \in 1..Len(stream) /\ stream'[k] = stream[k + 1]
  BY <1>1, TailPart
<1>3. \A i \in 1..Len(inbox') : \/ i \in 1..Len(inbox) /\ inbox'[i] = inbox[i]
                                \/ i = Len(inbox) + 1 /\ inbox'[i] = m
                                \/ inbox'[i] = Data
  BY <1>1, InboxPart
<1>4. 1 \in 1..Len(stream) /\ stream[1] = m.req /\ stream[1].op = "closedir" /\ s \in Slots
  <2>1. m.req.op = "closedir"
    BY <1>1, ReplyFields
  <2> QED
    BY <1>1, <2>1, TailFacts DEF WireTypes, GoodDd
<1>5. ByHandle(stream[1]) /\ stream[1].n = s
  <2>1. ~ByNumber(stream[1])
    BY <1>4 DEF DirOk, QueueInv
  <2> QED
    BY <1>4, <2>1 DEF ByNumber, ByHandle
<1>6. ASSUME NEW n \in Slots, n # s PROVE dd'[n].dir = dd[n].dir
  BY <1>6 DEF HostOk
<1>7. ASSUME NEW h \in handles PROVE h.dd \in Slots /\ h.dd # s
  BY <1>4, <1>5 DEF WireTypes, DirOk, QueueInv
<1>8. ASSUME NEW k \in 1..Len(stream'), ByHandle(stream'[k])
      PROVE  stream'[k].n \in Slots /\ stream'[k].n # s
  <2>1. k + 1 \in 1..Len(stream) /\ stream'[k] = stream[k + 1] /\ 1 < k + 1
    BY <1>2
  <2> QED
    BY <1>4, <1>5, <1>8, <2>1 DEF DirOk, QueueInv
<1>9. ASSUME NEW i \in 1..Len(inbox), Opened(inbox[i])
      PROVE  inbox[i].result \in Slots /\ inbox[i].result # s
  <2>1. inbox[i] \in Replies \cup {Data} /\ inbox[i] # Data
    BY <1>9, NotByHandle DEF WireTypes
  <2>2. inbox[i].result \in Slots \cup {-1} /\ inbox[i].result >= 0
    BY <1>9, <2>1, ReplyFields DEF Opened
  <2>3. Unheld(inbox[i].result, handles, stream)
    BY <1>9 DEF DirOk, OpenedInv
  <2>4. inbox[i].result # s
    BY <1>4, <1>5, <2>3 DEF Unheld
  <2> QED
    BY <2>2, <2>4
<1>10. ~Opened(m) /\ GoodEntry(m)
  BY DEF Opened, GoodEntry
<1> HIDE DEF s
<1>11. /\ \A k \in 1..Len(stream') :
            ByHandle(stream'[k]) => dd'[stream'[k].n].dir = dd[stream'[k].n].dir
       /\ \A h \in handles : dd'[h.dd].dir = dd[h.dd].dir
       /\ \A i \in 1..Len(inbox) :
            Opened(inbox[i]) => dd'[inbox[i].result].dir = dd[inbox[i].result].dir
  BY <1>6, <1>7, <1>8, <1>9
<1> QED
  BY <1>1, <1>2, <1>3, <1>10, <1>11, ServeKeepsDirs

\* What a program reads through its handle is what is open there.
LEMMA ReaddirEntry ==
    ASSUME WireTypes, DirOk, NEW m, Answered(m), m.op = "readdir", m.result = 1, GoodDd(m.req.n),
           m.name \in DOMAIN EntriesOf(dd[m.req.n].dir), m.sort = EntriesOf(dd[m.req.n].dir)[m.name]
    PROVE  GoodEntry(m)
<1>1. m.req = stream[1] /\ 1 \in 1..Len(stream) /\ m.req.op = "readdir" /\ m.req.n \in Slots
  <2>1. stream # <<>> /\ m \in Replies /\ m.req = Head(stream) /\ m.req.op = "readdir"
    BY ReplyFields DEF Answered
  <2> QED
    BY <2>1, TailFacts DEF WireTypes, GoodDd
<1>2. ByHandle(stream[1])
  <2>1. ~ByNumber(stream[1])
    BY <1>1 DEF DirOk, QueueInv
  <2> QED
    BY <1>1, <2>1 DEF ByNumber, ByHandle
<1>3. dd[m.req.n].dir = m.req.dir
  BY <1>1, <1>2 DEF DirOk, QueueInv
<1> QED
  BY <1>3 DEF GoodEntry
LEMMA AskKeepsDirs ==
    ASSUME WireTypes, DirOk, NEW r, AsksFor(r)
    PROVE  DirOk'
<1>1. /\ stream' = stream \o (IF r.op = "write" THEN <<r, Data>> ELSE <<r>>)
      /\ inbox' = inbox /\ failed' = failed /\ dd' = dd /\ r \in Requests
  BY DEF AsksFor, Asks, hostVars, dirVars
<1> DEFINE S == Len(stream)
<1>2. S \in Nat /\ Len(stream') \in Nat
  BY <1>1, AddFacts, AddTwoFacts, DataFacts DEF WireTypes
<1>3. ASSUME NEW k \in 1..Len(stream')
      PROVE  \/ k \in 1..S /\ stream'[k] = stream[k]
             \/ k = S + 1 /\ stream'[k] = r
             \/ stream'[k] = Data
  <2>1. CASE r.op = "write"
    <3>1. /\ Len(stream') = S + 2 /\ \A i \in 1..S : stream'[i] = stream[i]
          /\ stream'[S + 1] = r /\ stream'[S + 2] = Data
      BY <1>1, <2>1, AddTwoFacts, DataFacts DEF WireTypes
    <3>2. k \in 1..S \/ k = S + 1 \/ k = S + 2
      BY <1>2, <3>1
    <3> QED
      BY <3>1, <3>2
  <2>2. CASE r.op # "write"
    <3>1. /\ Len(stream') = S + 1 /\ \A i \in 1..S : stream'[i] = stream[i]
          /\ stream'[S + 1] = r
      BY <1>1, <2>2, AddFacts DEF WireTypes
    <3>2. k \in 1..S \/ k = S + 1
      BY <1>2, <3>1
    <3> QED
      BY <3>1, <3>2
  <2> QED
    BY <2>1, <2>2
<1>4. handles' \subseteq handles
  BY DEF AsksFor
<1>5. ByNumber(r) => r.n \notin Slots
  <2>1. ASSUME NEW h \in handles PROVE h.dir # NoPath
    BY HostTypes DEF WireTypes
  <2> QED
    BY <2>1 DEF AsksFor, ByNumber
<1>6. ASSUME ByHandle(r)
      PROVE  \E h \in handles : /\ r.n = h.dd /\ r.dir = h.dir
                                /\ handles' = IF r.op = "closedir" THEN handles \ {h} ELSE handles
  BY <1>6 DEF AsksFor, ByHandle
<1>7. HandleInv'
  BY <1>1, <1>4 DEF DirOk, HandleInv
<1>8. QueueInv'
  <2>1. ASSUME NEW k \in 1..Len(stream'), ByNumber(stream'[k]) PROVE stream'[k].n \notin Slots
    <3>1. stream'[k] # Data
      BY <2>1, NotByHandle
    <3>2. CASE k \in 1..S /\ stream'[k] = stream[k]
      BY <2>1, <3>2 DEF DirOk, QueueInv
    <3>3. CASE stream'[k] = r
      BY <1>5, <2>1, <3>3
    <3> QED
      BY <1>3, <3>1, <3>2, <3>3
  <2>2. ASSUME NEW k \in 1..Len(stream'), ByHandle(stream'[k])
        PROVE  stream'[k].n \in Slots /\ dd'[stream'[k].n].dir = stream'[k].dir
    <3>1. stream'[k] # Data
      BY <2>2, NotByHandle
    <3>2. CASE k \in 1..S /\ stream'[k] = stream[k]
      <4>1. stream[k].n \in Slots /\ dd[stream[k].n].dir = stream[k].dir
        BY <2>2, <3>2 DEF DirOk, QueueInv
      <4> QED
        BY <1>1, <3>2, <4>1
    <3>3. CASE stream'[k] = r
      <4>1. PICK h \in handles : r.n = h.dd /\ r.dir = h.dir
        BY <1>6, <2>2, <3>3
      <4>2. h.dd \in Slots /\ dd[h.dd].dir = h.dir
        BY DEF WireTypes, DirOk, HandleInv
      <4> QED
        BY <1>1, <3>3, <4>1, <4>2
    <3> QED
      BY <1>3, <3>1, <3>2, <3>3
  <2>3. ASSUME NEW j \in 1..Len(stream'), NEW k \in 1..Len(stream'), j < k,
               stream'[j].op = "closedir", ByHandle(stream'[j]), ByHandle(stream'[k])
        PROVE  stream'[j].n # stream'[k].n
    <3>1. stream'[j] # Data /\ stream'[k] # Data
      BY <2>3, NotByHandle
    <3>2. k \in 1..S \/ k = S + 1
      BY <1>3, <3>1
    <3>3. j \in 1..S /\ j # S + 1
      BY <1>2, <2>3, <3>2
    <3>4. stream'[j] = stream[j]
      BY <1>3, <3>1, <3>3
    <3>5. CASE k \in 1..S /\ stream'[k] = stream[k]
      BY <2>3, <3>3, <3>4, <3>5 DEF DirOk, QueueInv
    <3>6. CASE stream'[k] = r
      <4>1. PICK h \in handles : r.n = h.dd
        BY <1>6, <2>3, <3>6
      <4>2. stream[j].n # h.dd
        BY <2>3, <3>3, <3>4 DEF DirOk, QueueInv
      <4> QED
        BY <3>4, <3>6, <4>1, <4>2
    <3> QED
      BY <1>3, <3>1, <3>5, <3>6
  <2>4. ASSUME NEW h \in handles', NEW k \in 1..Len(stream'),
               stream'[k].op = "closedir", ByHandle(stream'[k])
        PROVE  stream'[k].n # h.dd
    <3>1. stream'[k] # Data /\ h \in handles
      BY <1>4, <2>4, NotByHandle
    <3>2. CASE k \in 1..S /\ stream'[k] = stream[k]
      BY <2>4, <3>1, <3>2 DEF DirOk, QueueInv
    <3>3. CASE stream'[k] = r
      <4>1. PICK g \in handles : r.n = g.dd /\ handles' = handles \ {g}
        BY <1>6, <2>4, <3>3
      <4>2. g # h
        BY <4>1
      <4>3. g.dd # h.dd
        BY <3>1, <4>2 DEF DirOk, HandleInv
      <4> QED
        BY <3>3, <4>1, <4>3
    <3> QED
      BY <1>3, <3>1, <3>2, <3>3
  <2> QED
    BY <2>1, <2>2, <2>3, <2>4 DEF QueueInv
<1>9. OpenedInv'
  <2>1. ASSUME NEW i \in 1..Len(inbox), Opened(inbox[i])
        PROVE  /\ dd[inbox[i].result].dir = inbox[i].req.path
               /\ Unheld(inbox[i].result, handles', stream')
    <3>1. /\ dd[inbox[i].result].dir = inbox[i].req.path
          /\ Unheld(inbox[i].result, handles, stream)
      BY <2>1 DEF DirOk, OpenedInv
    <3>2. \A h \in handles' : h.dd # inbox[i].result
      BY <1>4, <3>1 DEF Unheld
    <3>3. ASSUME NEW k \in 1..Len(stream'), ByHandle(stream'[k])
          PROVE  stream'[k].n # inbox[i].result
      <4>1. stream'[k] # Data
        BY <3>3, NotByHandle
      <4>2. CASE k \in 1..S /\ stream'[k] = stream[k]
        BY <3>1, <3>3, <4>2 DEF Unheld
      <4>3. CASE stream'[k] = r
        <5>1. PICK h \in handles : r.n = h.dd
          BY <1>6, <3>3, <4>3
        <5> QED
          BY <3>1, <4>3, <5>1 DEF Unheld
      <4> QED
        BY <1>3, <4>1, <4>2, <4>3
    <3> QED
      BY <3>1, <3>2, <3>3 DEF Unheld
  <2>2. \A i, j \in 1..Len(inbox) : Opened(inbox[i]) /\ Opened(inbox[j]) /\ i # j =>
          inbox[i].result # inbox[j].result
    BY DEF DirOk, OpenedInv
  <2> QED
    BY <1>1, <2>1, <2>2 DEF OpenedInv
<1>10. EntryInv'
  BY <1>1 DEF DirOk, EntryInv
<1> QED
  BY <1>7, <1>8, <1>9, <1>10 DEF DirOk

\* A program gets the slot that was opened for it.
LEMMA TakeKeepsDirs ==
    ASSUME WireOk, Full, DirOk, TakeReply
    PROVE  DirOk'
<1> DEFINE q == inbox[1]
           h == [dd |-> q.result, dir |-> q.req.path]
           new == IF Opened(q) THEN {h} ELSE {}
<1>1. /\ asked # <<>> /\ inbox # <<>> /\ stream' = stream /\ dd' = dd /\ failed' = failed
      /\ inbox' = (IF Head(inbox).op = "read" /\ Head(inbox).result > 0
                     THEN Tail(Tail(inbox)) ELSE Tail(inbox))
      /\ handles' = (IF Head(inbox).op = "opendir" /\ Head(inbox).result >= 0
                       THEN handles \cup {[dd |-> Head(inbox).result, dir |-> Head(asked).path]}
                       ELSE handles)
  BY DEF TakeReply, hostVars, dirVars
<1>2. WireTypes /\ InboxShape
  BY DEF WireOk
<1>3. /\ Head(inbox) = q /\ Len(inbox) \in Nat /\ Len(inbox) >= 1 /\ q \in Replies
      /\ Head(asked) = q.req
  BY <1>1, <1>2, FirstIsResponse, FirstIsMine
<1>4. 1 \in 1..Len(inbox)
  BY <1>3
<1>5. handles' = handles \cup new
  BY <1>1, <1>3 DEF Opened
<1>6. PICK d \in {1, 2} : \A i \in 1..Len(inbox') : i + d \in 1..Len(inbox) /\ inbox'[i] = inbox[i + d]
  <2>1. CASE q.op = "read" /\ q.result > 0
    <3>1. 1 < Len(inbox) /\ inbox' = Tail(Tail(inbox))
      BY <1>1, <1>2, <1>3, <1>4, <2>1 DEF InboxShape
    <3>2. Len(inbox) > 1
      BY <1>3, <3>1
    <3>3. /\ Len(inbox') = Len(inbox) - 2
          /\ \A i \in 1..(Len(inbox) - 2) : inbox'[i] = inbox[i + 2]
      BY <1>2, <3>1, <3>2, TailTwoFacts DEF WireTypes
    <3>4. \A i \in 1..Len(inbox') : i + 2 \in 1..Len(inbox) /\ inbox'[i] = inbox[i + 2]
      BY <1>3, <3>3
    <3> QED
      BY <3>4
  <2>2. CASE ~(q.op = "read" /\ q.result > 0)
    <3>1. inbox' = Tail(inbox)
      BY <1>1, <1>3, <2>2
    <3>2. /\ Len(inbox') = Len(inbox) - 1
          /\ \A i \in 1..(Len(inbox) - 1) : inbox'[i] = inbox[i + 1]
      BY <1>1, <1>2, <3>1, TailFacts DEF WireTypes
    <3>3. \A i \in 1..Len(inbox') : i + 1 \in 1..Len(inbox) /\ inbox'[i] = inbox[i + 1]
      BY <1>3, <3>2
    <3> QED
      BY <3>3
  <2> QED
    BY <2>1, <2>2
<1>7. /\ h.dd = q.result /\ h.dir = q.req.path
      /\ \A g \in new : g = h /\ Opened(q)
  OBVIOUS
<1>8. ASSUME Opened(q)
      PROVE  dd[q.result].dir = q.req.path /\ Unheld(q.result, handles, stream)
  BY <1>4, <1>8 DEF DirOk, OpenedInv
<1> HIDE DEF q, h, new
<1>9. HandleInv'
  <2>1. ASSUME NEW g \in handles' PROVE dd'[g.dd].dir = g.dir
    BY <1>1, <1>5, <1>7, <1>8 DEF DirOk, HandleInv
  <2>2. ASSUME NEW f \in handles', NEW g \in handles', f.dd = g.dd PROVE f = g
    BY <1>5, <1>7, <1>8, <2>2 DEF DirOk, HandleInv, Unheld
  <2> QED
    BY <2>1, <2>2 DEF HandleInv
<1>10. QueueInv'
  <2>1. ASSUME NEW g \in handles', NEW k \in 1..Len(stream),
               stream[k].op = "closedir", ByHandle(stream[k])
        PROVE  stream[k].n # g.dd
    BY <1>5, <1>7, <1>8, <2>1 DEF DirOk, QueueInv, Unheld
  <2> QED
    BY <1>1, <2>1 DEF DirOk, QueueInv
<1>11. OpenedInv'
  <2>1. ASSUME NEW i \in 1..Len(inbox'), Opened(inbox'[i])
        PROVE  /\ dd'[inbox'[i].result].dir = inbox'[i].req.path
               /\ Unheld(inbox'[i].result, handles', stream')
    <3>1. i + d \in 1..Len(inbox) /\ inbox'[i] = inbox[i + d]
      BY <1>6
    <3>2. 1 # i + d
      BY <1>6
    <3>3. /\ dd[inbox[i + d].result].dir = inbox[i + d].req.path
          /\ Unheld(inbox[i + d].result, handles, stream)
      BY <2>1, <3>1 DEF DirOk, OpenedInv
    <3>4. Opened(q) => q.result # inbox[i + d].result
      BY <1>4, <2>1, <3>1, <3>2 DEF DirOk, OpenedInv, q
    <3>5. Unheld(inbox[i + d].result, handles', stream')
      BY <1>1, <1>5, <1>7, <3>3, <3>4 DEF Unheld
    <3> QED
      BY <1>1, <3>1, <3>3, <3>5
  <2>2. ASSUME NEW i \in 1..Len(inbox'), NEW j \in 1..Len(inbox'),
               Opened(inbox'[i]), Opened(inbox'[j]), i # j
        PROVE  inbox'[i].result # inbox'[j].result
    <3>1. /\ i + d \in 1..Len(inbox) /\ inbox'[i] = inbox[i + d]
          /\ j + d \in 1..Len(inbox) /\ inbox'[j] = inbox[j + d]
      BY <1>6
    <3>2. i + d # j + d
      BY <1>6, <2>2
    <3> QED
      BY <2>2, <3>1, <3>2 DEF DirOk, OpenedInv
  <2> QED
    BY <2>1, <2>2 DEF OpenedInv
<1>12. EntryInv'
  BY <1>1, <1>6 DEF DirOk, EntryInv
<1> QED
  BY <1>9, <1>10, <1>11, <1>12 DEF DirOk

----------------------------------------------------------------------------
(* The invariant is inductive.                                             *)

LEMMA InvParts == Inv <=> HostOk /\ WireOk /\ DirInv
BY DEF Inv, TypeOK, HostOk, WireOk, WireTypes

LEMMA InvPartsNext == HostOk' /\ WireOk' /\ DirInv' => Inv'
BY DEF Inv, TypeOK, HostOk, WireOk, WireTypes

\* As long as nothing more has failed than before.
LEMMA StillFine ==
    ASSUME DirInv, failed \subseteq failed', closed' = closed, Full', DirsOpen', ~closed'
    PROVE  DirOk /\ Full /\ ("stat" \notin failed' => "stat" \notin failed)
BY DEF DirInv, Full, DirsOpen

LEMMA InvInit == Init => Inv
<1> SUFFICES ASSUME Init PROVE Inv
  OBVIOUS
<1>1. /\ dd = [i \in Slots |-> Empty] /\ streams = 0 /\ names = 0 /\ failed = {}
      /\ fds = [fd \in Fds |-> "free"]
      /\ disk = [p \in Paths |-> IF p \in Files THEN "file" ELSE "dir"]
      /\ stream = <<>> /\ lost = FALSE /\ inbox = <<>>
      /\ asked = <<>> /\ files = {} /\ handles = {} /\ closed = FALSE /\ requests = 0
  BY DEF Init
<1>2. OpenDirs = {} /\ NamedDirs = {} /\ Cardinality({}) = 0
  BY <1>1, FS_EmptySet DEF OpenDirs, NamedDirs, Empty
<1>3. LeakInv
  BY <1>1, <1>2 DEF LeakInv, Empty
<1>4. HostOk
  BY <1>1, <1>3 DEF HostOk, Empty, Kinds, FilesFine
<1>5. WireTypes
  <2>1. <<>> \in Seq(Requests) /\ <<>> \in Seq(Replies \cup {Data}) /\ 0 \in 0..MaxRequests
    BY HostAssumption
  <2> QED
    BY <1>1, <2>1 DEF WireTypes
<1>6. Len(stream) = 0 /\ Len(inbox) = 0 /\ Len(asked) = 0
  BY <1>1
<1>7. EndInv /\ InboxShape /\ StreamShape
  BY <1>1, <1>6 DEF EndInv, InboxShape, StreamShape
<1>8. MatchInv
  <2> DEFINE f == [k \in 1..0 |-> k]
  <2>1. f \in [1..Len(asked) -> 1..(Len(inbox) + Len(stream))]
    BY <1>6
  <2>2. Match(UnderWay, Len(inbox) + Len(stream), asked, f)
    <3> HIDE DEF f
    <3>1. Len(inbox) + Len(stream) = 0
      BY <1>6
    <3> QED
      BY <1>6, <2>1, <3>1 DEF Match
  <2> QED
    BY <2>1, <2>2 DEF MatchInv, Matches
<1>9. DirInv
  BY <1>1, <1>6 DEF DirInv, DirOk, HandleInv, QueueInv, OpenedInv, EntryInv
<1> QED
  BY <1>4, <1>5, <1>7, <1>8, <1>9, InvParts DEF WireOk

\* Requests that leave the slots alone and are answered without data.
LEMMA AnsweredStep ==
    ASSUME Inv, HostOk', dd' = dd, failed \subseteq failed', NEW m, Answered(m), m.op # "write",
           ~(m.op = "read" /\ m.result > 0), ~Opened(m),
           DirOk /\ "stat" \notin failed' => GoodEntry(m)
    PROVE  Inv'
<1>1. HostOk /\ WireOk /\ DirInv /\ WireTypes
  BY InvParts DEF WireOk
<1>2. Head(stream).op # "write"
  BY ReplyFields DEF Answered
<1>3. Full' => Full
  BY DEF Full
<1>4. WireOk' /\ WireTypes'
  BY <1>1, <1>2, <1>3, AnswerKeepsWire DEF WireOk
<1>5. ASSUME Full', DirsOpen', ~closed' PROVE DirOk'
  <2>1. closed' = closed
    BY DEF Answered
  <2>2. DirOk /\ ("stat" \notin failed' => "stat" \notin failed)
    BY <1>1, <1>5, <2>1, StillFine
  <2> QED
    BY <1>1, <1>4, <2>2, AnswerKeepsDirs
<1> QED
  BY <1>4, <1>5, InvPartsNext DEF DirInv

LEMMA ServeStep ==
    ASSUME Inv, Serve
    PROVE  Inv'
<1>1. HostOk /\ WireOk /\ DirInv /\ WireTypes /\ TypeOK
  BY InvParts DEF WireOk, Inv
<1>2. CASE RequestOpen \/ RequestClose \/ RequestLseek \/ RequestGetstat
           \/ RequestRemove \/ RequestMkdir \/ RequestRmdir
  <2>1. /\ HostOk' /\ UNCHANGED dirVars /\ failed \subseteq failed'
        /\ \E m : Answered(m) /\ m.op \in {"open", "close", "lseek", "getstat", "remove", "mkdir", "rmdir"}
    BY <1>1, <1>2, OpenActs, CloseActs, LseekActs, GetstatActs, PathActs
  <2>2. PICK m : Answered(m) /\ m.op \in {"open", "close", "lseek", "getstat", "remove", "mkdir", "rmdir"}
    BY <2>1
  <2>3. ~Opened(m) /\ GoodEntry(m) /\ m.op # "write" /\ m.op # "read"
    BY <2>2 DEF Opened, GoodEntry
  <2> QED
    BY <2>1, <2>2, <2>3, AnsweredStep DEF dirVars
<1>3. CASE RequestRead
  <2>1. /\ HostOk' /\ UNCHANGED <<dirVars, failed>>
        /\ \E m : \/ Answered(m) /\ m.op = "read" /\ ~(m.result > 0)
                  \/ AnsweredWithData(m)
    BY <1>1, <1>3, ReadActs
  <2>2. PICK m : \/ Answered(m) /\ m.op = "read" /\ ~(m.result > 0)
                 \/ AnsweredWithData(m)
    BY <2>1
  <2>3. m.op = "read" /\ ~Opened(m) /\ GoodEntry(m)
    BY <2>2 DEF AnsweredWithData, Opened, GoodEntry
  <2>4. CASE Answered(m) /\ ~(m.result > 0)
    BY <2>1, <2>3, <2>4, AnsweredStep DEF dirVars
  <2>5. CASE AnsweredWithData(m)
    <3>1. WireOk' /\ WireTypes'
      BY <1>1, <2>1, <2>5, DataKeepsWire DEF Full, WireOk
    <3>2. ASSUME Full', DirsOpen', ~closed' PROVE DirOk'
      <4>1. closed' = closed /\ failed' = failed /\ dd' = dd
        BY <2>1, <2>5 DEF AnsweredWithData, dirVars
      <4>2. DirOk
        BY <1>1, <3>2, <4>1, StillFine
      <4> QED
        BY <1>1, <2>3, <2>5, <3>1, <4>1, <4>2, AnswerKeepsDirs
    <3> QED
      BY <2>1, <3>1, <3>2, InvPartsNext DEF DirInv
  <2> QED
    BY <2>2, <2>4, <2>5
<1>4. CASE RequestWrite
  <2>1. /\ HostOk' /\ UNCHANGED <<dirVars, lost, asked, files, handles, closed, requests>>
        /\ stream # <<>> /\ Head(stream).op = "write" /\ failed \subseteq failed'
        /\ \/ ~Full' /\ stream' = Tail(stream) /\ inbox' = inbox
           \/ UNCHANGED failed /\ Len(stream) = 1 /\ stream' = Tail(stream) /\ inbox' = inbox
           \/ UNCHANGED failed /\ \E m : TakesData(m)
    BY <1>1, <1>4, WriteActs
  <2>2. WireOk' /\ WireTypes'
    BY <1>1, <2>1, WriteKeepsWire DEF WireOk
  <2>3. ASSUME Full', DirsOpen', ~closed' PROVE DirOk'
    <3>1. DirOk
      BY <1>1, <2>1, <2>3, StillFine
    <3>2. CASE UNCHANGED failed /\ stream' = Tail(stream) /\ inbox' = inbox
      BY <1>1, <2>1, <2>2, <3>1, <3>2, UnknownKeepsDirs DEF dirVars
    <3>3. ASSUME NEW m, UNCHANGED failed, TakesData(m) PROVE DirOk'
      <4>1. m.op = "write"
        BY <2>1, <3>3, ReplyFields DEF TakesData
      <4> QED
        BY <1>1, <2>1, <2>2, <3>1, <3>3, <4>1, WriteKeepsDirs DEF dirVars
    <3> QED
      BY <2>1, <2>3, <3>2, <3>3
  <2> QED
    BY <2>1, <2>2, <2>3, InvPartsNext DEF DirInv
<1>5. CASE RequestOpendir
  <2>1. /\ HostOk' /\ failed \subseteq failed'
        /\ \E m : /\ Answered(m) /\ m.op = "opendir"
                  /\ \/ m.result = -1 /\ UNCHANGED <<dirVars, failed>>
                     \/ /\ m.result \in Slots /\ dd[m.result].dir = NoPath
                        /\ dd' = [dd EXCEPT ![m.result] = [dir |-> m.req.path, pathname |-> m.req.path]]
                        /\ UNCHANGED failed
                     \/ ~DirsOpen'
    BY <1>1, <1>5, OpendirActs
  <2>2. PICK m : /\ Answered(m) /\ m.op = "opendir"
                 /\ \/ m.result = -1 /\ UNCHANGED <<dirVars, failed>>
                    \/ /\ m.result \in Slots /\ dd[m.result].dir = NoPath
                       /\ dd' = [dd EXCEPT ![m.result] = [dir |-> m.req.path, pathname |-> m.req.path]]
                       /\ UNCHANGED failed
                    \/ ~DirsOpen'
    BY <2>1
  <2>3. CASE m.result = -1 /\ UNCHANGED <<dirVars, failed>>
    <3>1. ~Opened(m) /\ GoodEntry(m)
      BY <2>2, <2>3 DEF Opened, GoodEntry
    <3> QED
      BY <2>1, <2>2, <2>3, <3>1, AnsweredStep DEF dirVars
  <2>4. CASE ~(m.result = -1 /\ UNCHANGED <<dirVars, failed>>)
    <3>1. Head(stream).op # "write"
      BY <2>2, ReplyFields DEF Answered
    <3>2. WireOk' /\ WireTypes'
      BY <1>1, <2>1, <2>2, <3>1, AnswerKeepsWire DEF Full, WireOk
    <3>3. ASSUME Full', DirsOpen', ~closed' PROVE DirOk'
      <4>1. closed' = closed
        BY <2>2 DEF Answered
      <4>2. DirOk
        BY <1>1, <2>1, <3>3, <4>1, StillFine
      <4>3. /\ m.result \in Slots /\ dd[m.result].dir = NoPath
            /\ dd' = [dd EXCEPT ![m.result] = [dir |-> m.req.path, pathname |-> m.req.path]]
            /\ UNCHANGED failed
        BY <2>2, <2>4, <3>3
      <4> QED
        BY <1>1, <2>2, <3>2, <4>2, <4>3, OpendirKeepsDirs
    <3> QED
      BY <2>1, <3>2, <3>3, InvPartsNext DEF DirInv
  <2> QED
    BY <2>3, <2>4
<1>6. CASE RequestClosedir
  <2>1. /\ HostOk' /\ UNCHANGED failed
        /\ \E m : /\ Answered(m) /\ m.op = "closedir"
                  /\ \/ ~GoodDd(m.req.n) /\ UNCHANGED dirVars
                     \/ GoodDd(m.req.n) /\ dd' = [dd EXCEPT ![m.req.n] = Empty]
    BY <1>1, <1>6, ClosedirActs
  <2>2. PICK m : /\ Answered(m) /\ m.op = "closedir"
                 /\ \/ ~GoodDd(m.req.n) /\ UNCHANGED dirVars
                    \/ GoodDd(m.req.n) /\ dd' = [dd EXCEPT ![m.req.n] = Empty]
    BY <2>1
  <2>3. ~Opened(m) /\ GoodEntry(m)
    BY <2>2 DEF Opened, GoodEntry
  <2>4. CASE UNCHANGED dirVars
    BY <2>1, <2>2, <2>3, <2>4, AnsweredStep DEF dirVars
  <2>5. CASE GoodDd(m.req.n) /\ dd' = [dd EXCEPT ![m.req.n] = Empty]
    <3>1. Head(stream).op # "write"
      BY <2>2, ReplyFields DEF Answered
    <3>2. WireOk' /\ WireTypes'
      BY <1>1, <2>1, <2>2, <3>1, AnswerKeepsWire DEF Full, WireOk
    <3>3. ASSUME Full', DirsOpen', ~closed' PROVE DirOk'
      <4>1. closed' = closed
        BY <2>2 DEF Answered
      <4>2. DirOk
        BY <1>1, <2>1, <3>3, <4>1, StillFine
      <4> QED
        BY <1>1, <2>1, <2>2, <2>5, <3>2, <4>2, ClosedirKeepsDirs
    <3> QED
      BY <2>1, <3>2, <3>3, InvPartsNext DEF DirInv
  <2> QED
    BY <2>2, <2>4, <2>5
<1>7. CASE RequestReaddir
  <2>1. /\ HostOk' /\ UNCHANGED dirVars /\ failed \subseteq failed'
        /\ \E m : /\ Answered(m) /\ m.op = "readdir"
                  /\ m.result = 1 =>
                       /\ GoodDd(m.req.n)
                       /\ m.name \in DOMAIN EntriesOf(dd[m.req.n].dir)
                       /\ "stat" \notin failed' => m.sort = EntriesOf(dd[m.req.n].dir)[m.name]
    BY <1>1, <1>7, ReaddirActs
  <2>2. PICK m : /\ Answered(m) /\ m.op = "readdir"
                 /\ m.result = 1 =>
                      /\ GoodDd(m.req.n)
                      /\ m.name \in DOMAIN EntriesOf(dd[m.req.n].dir)
                      /\ "stat" \notin failed' => m.sort = EntriesOf(dd[m.req.n].dir)[m.name]
    BY <2>1
  <2>3. ASSUME DirOk, "stat" \notin failed' PROVE GoodEntry(m)
    <3>1. CASE m.result = 1
      BY <1>1, <2>2, <2>3, <3>1, ReaddirEntry
    <3>2. CASE m.result # 1
      BY <3>2 DEF GoodEntry
    <3> QED
      BY <3>1, <3>2
  <2>4. ~Opened(m)
    BY <2>2 DEF Opened
  <2> QED
    BY <2>1, <2>2, <2>3, <2>4, AnsweredStep DEF dirVars
<1>8. CASE RequestUnknown
  <2>1. /\ stream # <<>> /\ Head(stream).op = "unknown" /\ stream' = Tail(stream)
        /\ UNCHANGED hostVars /\ UNCHANGED <<inbox, lost, asked, files, handles, closed, requests>>
    BY <1>8 DEF RequestUnknown, Serving, Took, ps2Vars
  <2>2. HostOk' /\ failed' = failed /\ dd' = dd
    BY <1>1, <2>1, HostKept DEF hostVars, dirVars
  <2>3. WireOk' /\ WireTypes'
    BY <1>1, <2>1, <2>2, UnknownKeepsWire DEF Full, WireOk
  <2>4. ASSUME Full', DirsOpen', ~closed' PROVE DirOk'
    <3>1. DirOk
      BY <1>1, <2>1, <2>2, <2>4, StillFine
    <3> QED
      BY <1>1, <2>1, <2>2, <2>3, <3>1, UnknownKeepsDirs
  <2> QED
    BY <2>2, <2>3, <2>4, InvPartsNext DEF DirInv
<1>9. CASE RequestGarbage
  <2>1. UNCHANGED hostVars /\ closed' = closed
    BY <1>9 DEF RequestGarbage, ps2Vars
  <2>2. HostOk' /\ failed' = failed
    BY <1>1, <2>1, HostKept DEF hostVars
  <2>3. WireOk'
    BY <1>1, <1>9, GarbageKeepsWire
  <2>4. ~Full'
    <3>1. stream # <<>> /\ Head(stream).op = "data"
      BY <1>9 DEF RequestGarbage, Serving
    <3>2. stream[1].op = "data" /\ 1 \in 1..Len(stream)
      BY <1>1, <3>1, TailFacts DEF WireTypes
    <3> QED
      BY <1>1, <2>2, <3>2 DEF WireOk, StreamShape, Full
  <2> QED
    BY <2>2, <2>3, <2>4, InvPartsNext DEF DirInv
<1>10. CASE ReceiveFails
  <2>1. UNCHANGED hostVars /\ closed' = closed /\ closed
    BY <1>10 DEF ReceiveFails, ps2Vars
  <2>2. HostOk' /\ WireOk'
    BY <1>1, <1>10, <2>1, HostKept, EndKeepsWire
  <2> QED
    BY <2>1, <2>2, InvPartsNext DEF DirInv
<1>11. CASE OpendirDies \/ ReaddirDies
  <2>1. /\ UNCHANGED <<dd, streams, names, fds, disk>>
        /\ UNCHANGED <<stream, lost, inbox, asked, files, handles, closed, requests>>
        /\ failed \subseteq failed' /\ failed' \subseteq Failures
        /\ "opendir" \in failed' => "opendir" \in failed
    BY <1>1, <1>11 DEF OpendirDies, ReaddirDies, DiesServing, Fails, dirVars, ps2Vars, HostOk
  <2>2. LeakInv' /\ FilesFine'
    BY <1>1, <2>1 DEF HostOk, LeakInv, FilesFine, OpenDirs, NamedDirs, DirsOpen
  <2>3. HostOk'
    BY <1>1, <2>1, <2>2 DEF HostOk
  <2>4. Full' => Full
    BY <2>1 DEF Full
  <2>5. WireOk'
    BY <1>1, <2>1, <2>4 DEF WireOk, WireTypes, EndInv, InboxShape, StreamShape, MatchInv,
                            UnderWay, Under
  <2>6. ASSUME Full', DirsOpen', ~closed' PROVE DirOk'
    <3>1. DirOk /\ ("stat" \notin failed' => "stat" \notin failed)
      BY <1>1, <2>1, <2>6, StillFine
    <3> QED
      BY <2>1, <3>1 DEF DirOk, HandleInv, QueueInv, OpenedInv, EntryInv
  <2> QED
    BY <2>3, <2>5, <2>6, InvPartsNext DEF DirInv
<1> QED
  BY <1>2, <1>3, <1>4, <1>5, <1>6, <1>7, <1>8, <1>9, <1>10, <1>11 DEF Serve

LEMMA Ps2Step ==
    ASSUME Inv, Ps2
    PROVE  Inv'
<1>1. HostOk /\ WireOk /\ DirInv /\ WireTypes /\ TypeOK
  BY InvParts DEF WireOk, Inv
<1>2. CASE AskPath \/ AskFile \/ AskDir \/ AskUnknown
  <2>1. PICK r : AsksFor(r)
    BY <1>1, <1>2, AskFacts
  <2>2. UNCHANGED hostVars /\ closed' = closed
    BY <2>1 DEF AsksFor, Asks
  <2>3. HostOk' /\ WireOk' /\ failed' = failed
    BY <1>1, <2>1, <2>2, HostKept, AskKeepsWire DEF hostVars
  <2>4. ASSUME Full', DirsOpen', ~closed' PROVE DirOk'
    BY <1>1, <2>1, <2>2, <2>3, <2>4, StillFine, AskKeepsDirs
  <2> QED
    BY <2>3, <2>4, InvPartsNext DEF DirInv
<1>3. CASE TakeReply
  <2>1. UNCHANGED hostVars /\ closed' = closed
    BY <1>3 DEF TakeReply
  <2>2. HostOk' /\ WireOk' /\ failed' = failed
    BY <1>1, <1>3, <2>1, HostKept, TakeKeepsWire DEF hostVars
  <2>3. ASSUME Full', DirsOpen', ~closed' PROVE DirOk'
    BY <1>1, <1>3, <2>1, <2>2, <2>3, StillFine, TakeKeepsDirs
  <2> QED
    BY <2>2, <2>3, InvPartsNext DEF DirInv
<1>4. CASE Closes
  <2>1. UNCHANGED hostVars /\ closed' = TRUE
    BY <1>4 DEF Closes
  <2>2. HostOk' /\ WireOk'
    BY <1>1, <1>4, <2>1, HostKept, CloseKeepsWire
  <2> QED
    BY <2>1, <2>2, InvPartsNext DEF DirInv
<1> QED
  BY <1>2, <1>3, <1>4 DEF Ps2

LEMMA InvStutter == Inv /\ UNCHANGED vars => Inv'
<1> SUFFICES ASSUME Inv, UNCHANGED vars PROVE Inv'
  OBVIOUS
<1>1. /\ dd' = dd /\ streams' = streams /\ names' = names /\ fds' = fds /\ disk' = disk
      /\ stream' = stream /\ lost' = lost /\ asked' = asked /\ inbox' = inbox /\ files' = files
      /\ handles' = handles /\ closed' = closed /\ requests' = requests /\ failed' = failed
  BY DEF vars, hostVars, dirVars, ps2Vars
<1>2. HostOk' /\ HostOk /\ WireOk /\ DirInv
  BY <1>1, HostKept, InvParts DEF hostVars, dirVars
<1>3. WireOk'
  BY <1>1, <1>2 DEF WireOk, WireTypes, EndInv, InboxShape, StreamShape, MatchInv, UnderWay, Under, Full
<1>4. DirInv'
  BY <1>1, <1>2 DEF DirInv, DirOk, HandleInv, QueueInv, OpenedInv, EntryInv, Full, DirsOpen
<1> QED
  BY <1>2, <1>3, <1>4, InvPartsNext

LEMMA Invariance == Spec => []Inv
<1>1. Inv /\ [Next]_vars => Inv'
  BY ServeStep, Ps2Step, InvStutter DEF Next
<1> QED
  BY InvInit, <1>1, PTL DEF Spec

----------------------------------------------------------------------------
(* Theorems.                                                               *)

\* The type invariant of the descriptors, the slots and both streams, for every tree of
\* files and any number of slots and descriptors (the request_ and response_ functions).
THEOREM TypesHold == Spec => []TypeOK
<1>1. Inv => TypeOK
  BY DEF Inv
<1> QED
  BY Invariance, <1>1, PTL

\* What the properties make no allowance for has not happened.
LEMMA NotSpared ==
    ASSUME TypeOK, NEW f, Allowed(f), ~Spared(f)
    PROVE  f \notin failed
BY DEF TypeOK, Allowed, Spared

\* ps2link_request_open: no descriptor of a directory is ever handed out as a file, unless
\* the tree changed between its stat and its open.
THEOREM FilesOnly ==
    ASSUME Allowed("race")
    PROVE  Spec => []OpensFilesOnly
<1>1. Inv => OpensFilesOnly
  BY NotSpared DEF Inv, FilesFine, OpensFilesOnly
<1> QED
  BY Invariance, <1>1, PTL

\* ps2link_request_opendir and _closedir: however often the slots are used again, every
\* DIR stream and every pathname is in a slot, unless an opendir failed.
THEOREM SlotsKeepAll ==
    ASSUME Allowed("opendir")
    PROVE  Spec => []NothingLeaks
<1>1. Inv => NothingLeaks
  <2> SUFFICES ASSUME Inv, ~Spared("opendir")
               PROVE  /\ streams = Cardinality({i \in Slots : dd[i].dir # NoPath})
                      /\ names = Cardinality({i \in Slots : dd[i].pathname # NoPath})
    BY DEF NothingLeaks
  <2>1. DirsOpen
    BY NotSpared DEF Inv, DirsOpen
  <2> QED
    BY <2>1 DEF Inv, LeakInv, OpenDirs, NamedDirs
<1> QED
  BY Invariance, <1>1, PTL

\* The request thread and ps2link never take data for a header, nor one response for
\* another's, as long as every write gets memory for its data (ps2link_request_write).
THEOREM StreamsStayInStep ==
    ASSUME Allowed("nomem")
    PROVE  Spec => []InStep
<1>1. Inv => InStep
  <2> SUFFICES ASSUME Inv, ~Spared("nomem")
               PROVE  /\ inbox # <<>> => asked # <<>> /\ Head(inbox).op = Head(asked).op
                      /\ stream # <<>> => Head(stream).op # "data"
    BY DEF InStep
  <2>1. Full /\ WireOk /\ WireTypes /\ InboxShape /\ StreamShape
    BY NotSpared, InvParts DEF Inv, Full, WireOk
  <2>2. ASSUME inbox # <<>> PROVE asked # <<>> /\ Head(inbox).op = Head(asked).op
    BY <2>1, <2>2, FirstIsMine, FirstIsResponse
  <2>3. ASSUME stream # <<>> PROVE Head(stream).op # "data"
    <3>1. 1 \in 1..Len(stream) /\ Head(stream) = stream[1]
      BY <2>1, <2>3, TailFacts DEF WireTypes
    <3> QED
      BY <2>1, <3>1 DEF StreamShape
  <2> QED
    BY <2>2, <2>3
<1> QED
  BY Invariance, <1>1, PTL

\* doc/ps2link-protocol.txt's single response packet: when nothing is on its way in
\* either direction, ps2link waits for nothing, unless a write got no memory; and the
\* program is never gone with a request unanswered but for the two fatal failures.
THEOREM RequestsAreAnswered ==
    ASSUME Allowed("nomem"), Allowed("nopath"), Allowed("badtime")
    PROVE  Spec => []EveryRequestAnswered
<1>1. Inv => EveryRequestAnswered
  <2> SUFFICES ASSUME Inv, stream = <<>> \/ Dead, inbox = <<>>, ~closed, ~Spared("nomem"),
                      ~Spared("nopath"), ~Spared("badtime")
               PROVE  asked = <<>>
    BY DEF EveryRequestAnswered, Fatal
  <2>0. stream = <<>>
    BY NotSpared DEF Inv, Dead, Fatal
  <2>1. MatchInv /\ asked \in Seq(Requests)
    BY NotSpared DEF Inv, Full, TypeOK
  <2>2. Len(inbox) + Len(stream) = 0
    BY <2>0
  <2>3. Matches(UnderWay, 0, asked)
    BY <2>1, <2>2 DEF MatchInv
  <2>4. PICK f \in [1..Len(asked) -> 1..0] : TRUE
    BY <2>3 DEF Matches
  <2>5. ASSUME 1 \in 1..Len(asked) PROVE FALSE
    <3>1. f[1] \in 1..0
      BY <2>4, <2>5
    <3> QED
      BY <3>1
  <2>6. Len(asked) \in Nat /\ ~(Len(asked) >= 1)
    BY <2>1, <2>5
  <2> QED
    BY <2>1, <2>6
<1> QED
  BY Invariance, <1>1, PTL

\* ps2link_request_readdir: whoever opens and closes directories in whatever order, and
\* however many there are for the slots, a program reads the entries of the directory it
\* opened, unless an opendir or a stat failed or a write got no memory.
THEOREM DirectoriesAreRead ==
    ASSUME Allowed("opendir"), Allowed("stat"), Allowed("nomem")
    PROVE  Spec => []ReadsItsDirectory
<1>1. Inv => ReadsItsDirectory
  <2> SUFFICES ASSUME Inv, ~Spared("opendir"), ~Spared("stat"), ~Spared("nomem"),
                      NEW i \in DOMAIN inbox, inbox[i].op = "readdir", inbox[i].result = 1
               PROVE  LET d == EntriesOf(inbox[i].req.dir)
                      IN  inbox[i].name \in DOMAIN d /\ inbox[i].sort = d[inbox[i].name]
    BY DEF ReadsItsDirectory
  <2>1. Full /\ DirsOpen /\ "stat" \notin failed
    BY NotSpared DEF Inv, Full, DirsOpen
  <2>2. i \in 1..Len(inbox)
    BY DEF Inv, TypeOK
  <2>3. ~closed
    <3> SUFFICES ASSUME closed PROVE FALSE
      OBVIOUS
    <3>1. inbox = <<>>
      BY DEF Inv, EndInv
    <3> QED
      BY <2>2, <3>1
  <2>4. GoodEntry(inbox[i])
    BY <2>1, <2>2, <2>3 DEF Inv, DirInv, DirOk, EntryInv
  <2> QED
    BY <2>4 DEF GoodEntry
<1> QED
  BY Invariance, <1>1, PTL
=============================================================================
