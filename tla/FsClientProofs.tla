--------------------------- MODULE FsClientProofs ---------------------------
(***************************************************************************)
(* What fsclient promises, for every length of the file, size of the       *)
(* buffer and of an int, number of entries, and every server.              *)
(*                                                                         *)
(* The invariant follows a call: until the server has performed it (Before)*)
(* nothing has changed; then what has arrived or will arrive (Answer) says *)
(* what was done, unless the connection is gone.  One situation is         *)
(* different: a copyfrom that refused a response of read goes on to close  *)
(* with a stream that is out of step (~Aligned), and learns nothing more.  *)
(***************************************************************************)
EXTENDS FsClient, SequenceTheorems, TLAPS

CopyPlaces == {"open0", "end", "rewind", "open1", "read", "write", "close0", "close1"}
ListPlaces == {"dopen", "dread", "dclose"}
SideAt == IF at \in {"open1", "write", "close1"} THEN 1 ELSE 0
Remote == at \in ListPlaces \cup {"single"} \/ (at \in CopyPlaces /\ OnPs2(SideAt))

Fd(side) == IF side = 0 THEN fd0 ELSE fd1
OpenAt(side) == IF side = 0 THEN "open0" ELSE "open1"
CloseAt(side) == IF side = 0 THEN "close0" ELSE "close1"
ClosedAt(side) == IF side = 0 THEN {"close1", "exit"} ELSE {"exit"}

\* The call a place in the program makes.
OpAt == CASE at \in {"open0", "open1"}   -> "open"
          [] at \in {"end", "rewind"}    -> "lseek"
          [] at \in {"close0", "close1"} -> "close"
          [] at = "single"               -> cmd
          [] OTHER                       -> at
CountAt == CASE at = "end"   -> LSEEK_END
             [] at = "read"  -> Smaller(size - total, Buffer)
             [] at = "write" -> bytes - sent
             [] OTHER        -> 0
PathOps == {"open", "delete", "mkdir", "rmdir", "dopen", "sync", "mount", "umount"}

Asked == to \o out
Answer == got \o from
Told == Len(Answer) >= 2
Result == Answer[2].v

\* The server has not yet performed the call.
Before == phase \in {"idle", "send"} \/ (phase = "reply" /\ to # <<>>)
\* What comes is the response of the call.
Aligned == at # "exit" /\ ~(cmd = "copyfrom" /\ at \in {"close0", "close1"} /\ status = -1)
----------------------------------------------------------------------------
(* The invariant.                                                          *)

\* The line, the descriptors and the call that belong to a place.
PlaceInv ==
    /\ cmd \in DOMAIN CommandLines /\ name \in {"fits", "long", "missing"}
    /\ at \in CopyPlaces => cmd \in Copies
    /\ at \in ListPlaces => cmd = "dir"
    /\ at = "single" => cmd \in Singles
    /\ at \in {"start", "open0"} \/ cmd \notin Copies => fd0 = -1
    /\ at \in {"start", "open0", "end", "rewind", "open1"} \/ cmd \notin Copies => fd1 = -1
    /\ at \in {"end", "rewind", "open1", "read", "write"} => fd0 = 0
    /\ at \in {"read", "write"} => fd1 = 1
    /\ status = 0 => /\ at \in {"close0", "close1", "exit"}
                     /\ cmd \in Copies => fd0 = 0 /\ fd1 = 1
    /\ link = "none" => at \in {"start", "exit"}
    /\ at = "start" => link = "none"

CallInv ==
    /\ at \in {"start", "exit"} => phase = "idle"
    /\ phase # "idle" => call = [op |-> OpAt, n |-> CountAt]
    /\ phase \in {"send", "reply", "data"} => Remote
    /\ phase = "data" => at = "read" /\ need \in 1..call.n
    /\ phase \in {"send", "reply"} => need = ResponseLength(call.op)
    /\ phase = "send" => got = <<>>
    /\ phase \in {"reply", "data"} => Len(got) < need
    /\ out = <<>> <=> phase # "send"

\* What the server is to perform is the call, or a close nobody waits for any more.
IsCommand(c) ==
    /\ Len(c) = 2 + (IF call.op = "write" THEN call.n ELSE 0)
    /\ c[1].t = Number[call.op]
    /\ c[2].t = (IF call.op \in PathOps THEN SentName ELSE "fits") /\ c[2].v = call.n
    /\ call.op = "write" => \A i \in 1..call.n : c[2 + i].v = buffer[sent + i]
Late ==
    /\ cmd = "copyfrom" /\ status = -1 /\ call = [op |-> "close", n |-> 0]
    /\ at \in {"close1", "exit"} \/ (at = "close0" /\ phase = "back")
ToInv ==
    /\ link # "up" => to = <<>>
    /\ phase = "send" /\ link = "up" => IsCommand(Asked)
    /\ phase # "send" /\ to # <<>> => IsCommand(to) /\ (phase = "reply" \/ Late)

\* What a result of the call says about the state.
Outcome(v) ==
    /\ at = "open0" => v \in {-1, 0}
    /\ at = "open1" => v \in {-1, 1} /\ (v = 1 => dest = <<>>)
    /\ at = "end" => v \in {-1, AsInt(Len(source))}
    /\ at = "rewind" => v < 0 \/ pos = 0
    /\ at = "read" /\ v \in 1..call.n => pos = total + v /\ pos <= Len(source)
    /\ at = "write" /\ v \in 1..call.n => Len(dest) = total + sent + v
    /\ at = "dread" => /\ v \in {-1, 0, 1} /\ (v = -1 => cut) /\ (v = 0 => files = Entries)
                       /\ v = 1 => files + 1 + left = Entries

AnswerInv ==
    /\ Aligned /\ Before => from = <<>> /\ (phase = "reply" => got = <<>>)
    /\ Aligned /\ phase = "reply" /\ to = <<>> =>
         /\ Told => Answer[2].t = "result" /\ Outcome(Result)
         /\ call.op # "read" /\ at # "single" => Len(Answer) <= ResponseLength(call.op)
         /\ call.op = "read" /\ Told /\ Result \in 1..call.n =>
              /\ Len(Answer) <= 3 + Result
              /\ \A i \in 4..Len(Answer) : Answer[i].v = source[total + i - 3]
    /\ phase = "data" => /\ Outcome(need) /\ Len(Answer) <= need
                         /\ \A i \in 1..Len(Answer) : Answer[i].v = source[total + i]
    /\ Aligned /\ phase = "back" =>
         /\ Outcome(ret) \/ (ret = -1 /\ link = "closed" /\ from = <<>>)
         /\ at # "single" /\ ~(cmd = "copyfrom" /\ at = "read" /\ ret <= 0) => from = <<>>
    /\ phase = "back" /\ at = "read" /\ ret > 0 =>
         /\ ret <= call.n /\ Len(buffer) = ret
         /\ \A i \in 1..ret : buffer[i] = source[total + i]
    /\ phase = "back" /\ at = "write" /\ cmd = "copyfrom" => ret <= call.n

\* The files: the destination is as it was, or the start of the source.
CopyInv ==
    /\ source = File(Len(source)) /\ Len(source) \in Lengths \cup {0}
    /\ dest = Old \/ (Len(dest) <= Len(source) /\ \A i \in 1..Len(dest) : dest[i] = source[i])
    /\ cmd \notin Copies \/ at \in {"start", "open0", "end", "rewind"} => dest = Old
    /\ at = "open1" /\ Before => dest = Old
    /\ at \in {"rewind", "open1", "read", "write"} => size = AsInt(Len(source)) /\ size >= 0
    /\ at \in {"open1", "read", "write"} => total <= size
    /\ at = "open1" => pos = 0 /\ total = 0
    /\ at \in {"start", "open0", "end", "rewind"} => total = 0
    /\ at \in {"read", "write"} => dest # Old
    /\ at = "read" => Len(dest) = total
    /\ at = "read" /\ Before => pos = total
    /\ at = "write" => /\ sent < bytes /\ bytes = Len(buffer)
                       /\ pos = total + bytes /\ total + bytes <= size
                       /\ \A i \in 1..bytes : buffer[i] = source[total + i]
    /\ at = "write" /\ Before => Len(dest) = total + sent
    /\ cmd \in Copies /\ status = 0 => Len(dest) = AsInt(Len(source)) /\ dest # Old

\* Who holds a file open.
HeldInv ==
    \A s \in held :
      \/ OnPs2(s) /\ link = "closed"
      \/ OnPs2(s) /\ to # <<>> /\ at \in ClosedAt(s) \cup {CloseAt(s)}
      \/ Fd(s) >= 0 /\ at \notin ClosedAt(s) /\ (at = CloseAt(s) => phase \in {"idle", "send"})
      \/ at = OpenAt(s) /\ phase = "back" /\ ret >= 0
      \/ at = OpenAt(s) /\ OnPs2(s) /\ phase = "reply" /\ to = <<>> /\ Told /\ Result >= 0

\* The listing: an entry is listed, still to come, or on its way.
ListInv ==
    /\ files + left <= Entries
    /\ at \in {"start", "dopen"} \/ (at = "dread" /\ Before) => files + left = Entries
    /\ at = "dclose" =>
         \/ files = Entries \/ cut
         \/ /\ link = "closed" /\ from = <<>>
            /\ phase = "reply" => got = <<>>
            /\ phase = "back" => ret = -1
    /\ cmd = "dir" /\ at = "exit" /\ status = 0 => files = Entries \/ cut

Inv == /\ TypeOK /\ PlaceInv /\ CallInv /\ ToInv /\ AnswerInv /\ CopyInv /\ HeldInv /\ ListInv

\* What was served, when no command shares its number and the pathnames fit.
Plain == \A c \in DOMAIN CommandLines : c \notin Copies => /\ c \notin {"sync", "mount", "umount"}
                                                          /\ CommandLines[c] = {"fits"}
Did(op) == [op |-> op, name |-> "fits", ok |-> TRUE] \in served
ServedInv ==
    /\ \A s \in served : s.op \in OpsOf /\ s.name = "fits"
    /\ name \in CommandLines[cmd] /\ (served # {} => SentName = "fits")
    /\ phase \in {"send", "reply"} \/ to # <<>> => call.op \in OpsOf /\ SentName = "fits"
    /\ Aligned /\ phase = "reply" /\ to = <<>> /\ Told /\ Result >= 0 => Did(call.op)
    /\ Aligned /\ phase = "back" /\ Remote /\ at # "read" /\ ret >= 0 => Did(call.op)
    /\ \A side \in {0, 1} : cmd \in Copies /\ OnPs2(side) /\ Fd(side) >= 0 => Did("open")
    /\ \A side \in {0, 1} : cmd \in Copies /\ OnPs2(side) /\ at \in ClosedAt(side) /\ status = 0 => Did("close")
    /\ at \in {"dread", "dclose"} => Did("dopen")
    /\ at = "exit" /\ status = 0 /\ cmd \notin Copies => \A op \in Needed : Did(op)
----------------------------------------------------------------------------
(* Numbers and sequences.                                                  *)

LEMMA Bounds ==
    /\ IntMax \in Nat /\ IntMax >= 1 /\ Buffer \in Nat /\ Buffer >= 1 /\ Entries \in Nat
    /\ Lengths \subseteq Nat
BY FsAssumption

LEMMA Ints ==
    ASSUME NEW n \in Int
    PROVE  /\ AsInt(n) \in -(IntMax + 1)..IntMax
           /\ n \in -1..IntMax => AsInt(n) = n
           /\ n >= 0 => AsInt(n) <= n
           /\ n \in 0..(2 * IntMax + 1) /\ AsInt(n) >= 0 => AsInt(n) = n
<1> DEFINE b == 2 * (IntMax + 1)
           m == n % b
<1>1. b \in Nat /\ b >= 4 /\ IntMax \in Nat /\ b = 2 * IntMax + 2
  BY Bounds
<1> HIDE DEF b
<1>2. m \in 0..(b - 1)
  BY <1>1
<1>3. n \in 0..(b - 1) => m = n
  BY <1>1
<1>4. n = -1 => m = b - 1
  BY <1>1
<1>5. n >= 0 => m <= n
  BY <1>1
<1>6. AsInt(n) = IF m > IntMax THEN m - b ELSE m
  BY DEF AsInt, b
<1> HIDE DEF m
<1> QED
  BY <1>1, <1>2, <1>3, <1>4, <1>5, <1>6

\* Moving the first k cells of b to the end of a leaves the whole as it was.
Moves(a, b, k, c, d) ==
    /\ c \in Seq(Cells) /\ d \in Seq(Cells) /\ c \o d = a \o b
    /\ Len(c) = Len(a) + k /\ Len(d) = Len(b) - k /\ Len(a \o b) = Len(a) + Len(b)
    /\ d = <<>> <=> k = Len(b)
    /\ \A i \in 1..(Len(a) + k) : c[i] = (a \o b)[i]

LEMMA Moved ==
    ASSUME NEW a \in Seq(Cells), NEW b \in Seq(Cells), NEW k \in 1..Len(b)
    PROVE  Moves(a, b, k, a \o SubSeq(b, 1, k), SubSeq(b, k + 1, Len(b)))
<1> DEFINE S == Cells
           e == SubSeq(b, 1, k)
           c == a \o e
           d == SubSeq(b, k + 1, Len(b))
<1> HIDE DEF S
<1>0. a \in Seq(S) /\ b \in Seq(S)
  BY DEF S
<1>1. e \in Seq(S) /\ Len(e) = k /\ \A i \in 1..k : e[i] = b[i]
  BY <1>0
<1>2. d \in Seq(S) /\ Len(d) = Len(b) - k /\ \A i \in 1..(Len(b) - k) : d[i] = b[k + i]
  BY <1>0
<1>3. Len(a) \in Nat /\ Len(b) \in Nat /\ k \in Nat
  BY <1>0
<1> HIDE DEF e, d
<1>4. d = <<>> <=> k = Len(b)
  BY <1>2, <1>3, EmptySeq
<1>5. c \in Seq(S) /\ Len(c) = Len(a) + k
  BY <1>0, <1>1, <1>3
<1>6. ASSUME NEW i \in 1..(Len(a) + k) PROVE c[i] = (a \o b)[i]
  BY <1>0, <1>1, <1>3
<1> HIDE DEF c
<1>7. Len(a \o b) = Len(a) + Len(b) /\ a \o b \in Seq(S)
  BY <1>0
<1>8. c \o d = a \o b
  <2>1. Len(c \o d) = Len(a) + Len(b) /\ c \o d \in Seq(S)
    <3>1. c \in Seq(S) /\ d \in Seq(S)
      BY <1>2, <1>5
    <3>2. Len(c \o d) = Len(c) + Len(d) /\ c \o d \in Seq(S)
      BY <3>1
    <3>3. Len(c) + Len(d) = Len(a) + Len(b)
      BY <1>2, <1>3, <1>5
    <3> QED
      BY <3>2, <3>3
  <2>2. ASSUME NEW i \in 1..(Len(a) + Len(b)) PROVE (c \o d)[i] = (a \o b)[i]
    <3>1. CASE i <= Len(a) + k
      <4>1. i \in 1..(Len(a) + k)
        BY <1>3, <3>1
      <4>2. (c \o d)[i] = c[i]
        BY <1>2, <1>3, <1>5, <3>1
      <4> QED
        BY <1>6, <4>1, <4>2
    <3>2. CASE i > Len(a) + k
      <4>1. (c \o d)[i] = d[i - (Len(a) + k)] /\ (a \o b)[i] = b[i - Len(a)]
        BY <1>0, <1>2, <1>3, <1>5, <3>2
      <4>2. /\ i - (Len(a) + k) \in 1..(Len(b) - k)
            /\ k + (i - (Len(a) + k)) = i - Len(a)
        BY <1>3, <3>2
      <4> QED
        BY <1>2, <4>1, <4>2
    <3>3. i <= Len(a) + k \/ i > Len(a) + k
      BY <1>3
    <3> QED
      BY <3>1, <3>2, <3>3
  <2> QED
    BY <1>7, <2>1, <2>2, SeqEqual
<1> QED
  BY <1>2, <1>4, <1>5, <1>6, <1>7, <1>8 DEF Moves, S, c, d, e

\* Cutting b leaves a part of the whole.
Parts(a, b, k, d) ==
    /\ d \in Seq(Cells) /\ Len(d) = k /\ Len(a \o d) = Len(a) + k
    /\ Len(a \o b) = Len(a) + Len(b) /\ k \in 0..Len(b)
    /\ b = <<>> => d = <<>>
    /\ \A i \in 1..Len(a \o d) : (a \o d)[i] = (a \o b)[i]

LEMMA CutShort ==
    ASSUME NEW a \in Seq(Cells), NEW b \in Seq(Cells), NEW k \in 0..Len(b)
    PROVE  Parts(a, b, k, SubSeq(b, 1, k))
<1> DEFINE d == SubSeq(b, 1, k)
<1>1. d \in Seq(Cells) /\ Len(d) = k
  OBVIOUS
<1>2. Len(a \o d) = Len(a) + k /\ Len(a \o b) = Len(a) + Len(b)
  BY <1>1
<1>3. \A i \in 1..Len(a \o d) : (a \o d)[i] = (a \o b)[i]
  BY <1>1, <1>2
<1>4. b = <<>> => d = <<>>
  BY <1>1
<1> QED
  BY <1>1, <1>2, <1>3, <1>4 DEF Parts

LEMMA Lengths2 == \A op : ResponseLength(op) \in {2, 3}
BY DEF ResponseLength

LEMMA EmptyAnswer == from = <<>> /\ got = <<>> => Len(Answer) = 0 /\ ~Told
BY DEF Answer, Told
----------------------------------------------------------------------------
(* The network.                                                            *)

LEMMA SendPieceKeeps ==
    ASSUME Inv, SendPiece
    PROVE  Inv'
<1>1. /\ phase = "send" /\ phase' = (IF out' = <<>> THEN "reply" ELSE "send")
      /\ UNCHANGED <<cmd, name, at, status, fd0, fd1, size, total, bytes, sent, files>>
      /\ UNCHANGED <<call, ret, got, need, buffer, link, from>>
      /\ UNCHANGED <<source, dest, held, pos, left, served, cut>>
  BY DEF SendPiece, client, line, copying, server, disks
<1>2. TypeOK /\ PlaceInv /\ CallInv /\ ToInv /\ AnswerInv /\ CopyInv /\ HeldInv /\ ListInv
  BY DEF Inv
<1>3. out \in Seq(Cells) /\ to \in Seq(Cells) /\ got = <<>> /\ Remote /\ link \in {"up", "closed"}
  BY <1>1, <1>2 DEF TypeOK, PlaceInv, CallInv
<1>4. /\ out' \in Seq(Cells) /\ to' \in Seq(Cells)
      /\ link = "up" => Asked' = Asked /\ to' # <<>> /\ (out' = <<>> => to' = Asked)
      /\ link = "closed" => to' = <<>>
  <2>1. PICK k \in 1..Len(out) : /\ out' = SubSeq(out, k + 1, Len(out))
                                 /\ to' = (IF link = "up" THEN to \o SubSeq(out, 1, k) ELSE to)
    BY DEF SendPiece
  <2> DEFINE c == to \o SubSeq(out, 1, k)
             d == SubSeq(out, k + 1, Len(out))
  <2>2. c \in Seq(Cells) /\ d \in Seq(Cells) /\ c \o d = to \o out /\ Len(c) = Len(to) + k
    <3>1. Moves(to, out, k, c, d)
      BY <1>3, Moved
    <3> QED
      BY <3>1 DEF Moves
  <2> HIDE DEF c, d
  <2>3. c # <<>>
    BY <1>3, <2>2
  <2>4. d = <<>> => c = to \o out
    BY <2>2
  <2>5. out' = d /\ to' = IF link = "up" THEN c ELSE to
    BY <2>1 DEF c, d
  <2> QED
    BY <1>2, <1>3, <2>2, <2>3, <2>4, <2>5 DEF Asked, ToInv
<1>5. TypeOK'
  BY <1>1, <1>2, <1>4 DEF TypeOK
<1>6. PlaceInv'
  BY <1>1, <1>2 DEF PlaceInv
<1>7. CallInv'
  <2>1. Remote' = Remote /\ OpAt' = OpAt /\ CountAt' = CountAt
    BY <1>1 DEF Remote, SideAt, OnPs2, OpAt, CountAt
  <2>2. need \in {2, 3} /\ Len(got) = 0
    BY <1>1, <1>2, <1>3, Lengths2 DEF CallInv
  <2> QED
    BY <1>1, <1>2, <2>1, <2>2 DEF CallInv
<1>8. ToInv'
  <2>1. \A c : IsCommand(c)' <=> IsCommand(c)
    BY <1>1 DEF IsCommand, SentName
  <2>2. link = "up" => IsCommand(Asked)
    BY <1>1, <1>2 DEF ToInv
  <2>3. link = "up" => IsCommand(Asked)'
    BY <1>1, <1>4, <2>2 DEF IsCommand, SentName
  <2>4. link = "up" /\ out' = <<>> => IsCommand(to)'
    BY <1>1, <1>4, <2>2 DEF IsCommand, SentName
  <2> QED
    BY <1>1, <1>3, <1>4, <2>3, <2>4 DEF ToInv
<1>9. AnswerInv'
  <2>1. Aligned' = Aligned /\ Before
    BY <1>1 DEF Aligned, Before
  <2>2. Aligned => from = <<>> /\ got = <<>>
    BY <1>2, <1>3, <2>1 DEF AnswerInv
  <2>3. Aligned => Len(Answer)' = 0 /\ ~Told'
    BY <1>1, <2>2 DEF Answer, Told
  <2>4. ResponseLength(call.op)' \in {2, 3}
    BY Lengths2
  <2>5. phase' \in {"send", "reply"}
    BY <1>1
  <2> QED
    BY <1>1, <2>1, <2>2, <2>3, <2>4, <2>5 DEF AnswerInv
<1>10. CopyInv'
  <2>1. Before
    BY <1>1 DEF Before
  <2> QED
    BY <1>1, <1>2, <2>1 DEF CopyInv
<1>11. HeldInv'
  <2> SUFFICES ASSUME NEW s \in held PROVE
        \/ OnPs2(s) /\ link = "closed"
        \/ OnPs2(s) /\ to' # <<>> /\ at \in ClosedAt(s) \cup {CloseAt(s)}
        \/ Fd(s) >= 0 /\ at \notin ClosedAt(s) /\ (at = CloseAt(s) => phase' \in {"idle", "send"})
    BY <1>1 DEF HeldInv, OnPs2, Fd
  <2>1. s \in {0, 1}
    BY <1>2 DEF TypeOK
  <2>2. at = CloseAt(s) => OnPs2(s)
    BY <1>3, <2>1 DEF Remote, SideAt, CloseAt, ListPlaces, CopyPlaces
  <2>3. to # <<>> => link = "up"
    BY <1>2, <1>3 DEF ToInv
  <2> QED
    BY <1>1, <1>2, <1>3, <1>4, <2>1, <2>2, <2>3 DEF HeldInv
<1>12. ListInv'
  <2>1. Before
    BY <1>1 DEF Before
  <2> QED
    BY <1>1, <1>2, <1>3, <2>1 DEF ListInv
<1> QED
  BY <1>5, <1>6, <1>7, <1>8, <1>9, <1>10, <1>11, <1>12 DEF Inv

\* A call whose connection is gone returns -1.
LEMMA LostKeeps ==
    ASSUME Inv, phase \in {"send", "reply", "data"}, link = "closed", Aligned => from = <<>>,
           Return(-1), out' = <<>>,
           UNCHANGED <<client, call, got, need, buffer, wire, server>>
    PROVE  Inv'
<1>1. /\ phase' = "back" /\ ret' = -1
      /\ UNCHANGED <<cmd, name, at, status, fd0, fd1, size, total, bytes, sent, files>>
      /\ UNCHANGED <<call, got, need, buffer, link, to, from>>
      /\ UNCHANGED <<source, dest, held, pos, left, served, cut>>
  BY DEF Return, client, line, copying, server, disks, wire
<1>2. TypeOK /\ PlaceInv /\ CallInv /\ ToInv /\ AnswerInv /\ CopyInv /\ HeldInv /\ ListInv
  BY DEF Inv
<1>3. Remote /\ to = <<>> /\ at \notin {"start", "exit"}
  BY <1>2 DEF CallInv, ToInv
<1>5. TypeOK'
  BY <1>1, <1>2 DEF TypeOK
<1>6. PlaceInv'
  BY <1>1, <1>2 DEF PlaceInv
<1>7. CallInv'
  <2>1. Remote' = Remote /\ OpAt' = OpAt /\ CountAt' = CountAt
    BY <1>1 DEF Remote, SideAt, OnPs2, OpAt, CountAt
  <2> QED
    BY <1>1, <1>2, <1>3, <2>1 DEF CallInv
<1>8. ToInv'
  BY <1>1, <1>3 DEF ToInv
<1>9. AnswerInv'
  <2>1. Aligned' = Aligned /\ ~Before'
    BY <1>1 DEF Aligned, Before
  <2>2. at = "write" => call.n = bytes - sent
    BY <1>2, <1>3 DEF CallInv, CountAt
  <2>3. at = "write" => call.n \in Int /\ -1 <= call.n
    BY <1>2, <2>2 DEF TypeOK
  <2> QED
    BY <1>1, <2>1, <2>3 DEF AnswerInv
<1>10. CopyInv'
  <2>1. ~Before'
    BY <1>1 DEF Before
  <2> QED
    BY <1>1, <1>2, <2>1 DEF CopyInv
<1>11. HeldInv'
  <2> SUFFICES ASSUME NEW s \in held PROVE
        \/ OnPs2(s) /\ link = "closed"
        \/ Fd(s) >= 0 /\ at \notin ClosedAt(s) /\ at # CloseAt(s)
    BY <1>1 DEF HeldInv, OnPs2, Fd
  <2>1. s \in {0, 1}
    BY <1>2 DEF TypeOK
  <2>2. at = CloseAt(s) => OnPs2(s)
    BY <1>3, <2>1 DEF Remote, SideAt, CloseAt, ListPlaces, CopyPlaces
  <2> QED
    BY <1>2, <1>3, <2>2 DEF HeldInv
<1>12. ListInv'
  <2>1. ~Before'
    BY <1>1 DEF Before
  <2>2. at = "dclose" => Aligned
    BY DEF Aligned
  <2> QED
    BY <1>1, <1>2, <1>3, <2>1, <2>2 DEF ListInv
<1> QED
  BY <1>5, <1>6, <1>7, <1>8, <1>9, <1>10, <1>11, <1>12 DEF Inv

LEMMA SendFailsKeeps ==
    ASSUME Inv, SendFails
    PROVE  Inv'
<1>1. Aligned => from = <<>>
  BY DEF SendFails, Inv, AnswerInv, Before
<1> QED
  BY <1>1, LostKeeps DEF SendFails

LEMMA ReceiveFailsKeeps ==
    ASSUME Inv, ReceiveFails
    PROVE  Inv'
<1>1. out = <<>>
  BY DEF ReceiveFails, Inv, CallInv
<1> QED
  BY <1>1, LostKeeps DEF ReceiveFails

LEMMA ClosesKeeps ==
    ASSUME Inv, Closes
    PROVE  Inv'
<1>1. /\ link = "up" /\ link' = "closed" /\ to' = <<>>
      /\ UNCHANGED <<cmd, name, at, status, fd0, fd1, size, total, bytes, sent, files>>
      /\ UNCHANGED <<phase, call, ret, out, got, need, buffer>>
      /\ UNCHANGED <<source, dest, held, pos, left, served, cut>>
  BY DEF Closes, client, line, copying, server, disks, rpc
<1>2. TypeOK /\ PlaceInv /\ CallInv /\ ToInv /\ AnswerInv /\ CopyInv /\ HeldInv /\ ListInv
  BY DEF Inv
<1>3. /\ from' \in Seq(Cells) /\ Len(Answer)' \in Nat /\ Len(Answer) \in Nat
      /\ Len(Answer)' <= Len(Answer)
      /\ from = <<>> => from' = <<>>
      /\ \A i \in 1..Len(Answer)' : Answer[i]' = Answer[i]
  <2>1. PICK k \in 0..Len(from) : from' = SubSeq(from, 1, k)
    BY DEF Closes
  <2>2. from \in Seq(Cells) /\ got \in Seq(Cells)
    BY <1>2 DEF TypeOK
  <2>3. Parts(got, from, k, from')
    BY <2>1, <2>2, CutShort
  <2>4. got' = got
    BY <1>1
  <2>5. Len(from) \in Nat /\ Len(got) \in Nat
    BY <2>2
  <2>6. Len(Answer)' \in Nat /\ Len(Answer) \in Nat /\ Len(Answer)' <= Len(Answer)
    BY <2>3, <2>4, <2>5 DEF Parts, Answer
  <2>7. from' \in Seq(Cells) /\ \A i \in 1..Len(Answer)' : Answer[i]' = Answer[i]
    BY <2>3, <2>4 DEF Parts, Answer
  <2>8. from = <<>> => from' = <<>>
    BY <2>3 DEF Parts
  <2> QED
    BY <2>6, <2>7, <2>8
<1>5. TypeOK'
  BY <1>1, <1>2, <1>3 DEF TypeOK
<1>6. PlaceInv'
  BY <1>1, <1>2 DEF PlaceInv
<1>7. CallInv'
  <2>1. Remote' = Remote /\ OpAt' = OpAt /\ CountAt' = CountAt
    BY <1>1 DEF Remote, SideAt, OnPs2, OpAt, CountAt
  <2> QED
    BY <1>1, <1>2, <2>1 DEF CallInv
<1>8. ToInv'
  BY <1>1 DEF ToInv
<1>9. AnswerInv'
  <2>1. Aligned' = Aligned /\ (Before' => phase \in {"idle", "send"})
    BY <1>1 DEF Aligned, Before
  <2>2. \A v : Outcome(v)' = Outcome(v)
    BY <1>1 DEF Outcome
  <2>3. Told' => Told /\ Answer[2]' = Answer[2]
    BY <1>3 DEF Told
  <2>4. ASSUME Aligned, phase = "reply"
        PROVE  /\ Told' => Answer[2].t' = "result" /\ Outcome(Result)'
               /\ call.op # "read" /\ at # "single" => Len(Answer)' <= ResponseLength(call.op)
               /\ call.op = "read" /\ Told' /\ Result' \in 1..call.n =>
                    /\ Len(Answer)' <= 3 + Result'
                    /\ \A i \in 4..Len(Answer)' : Answer[i].v' = source[total + i - 3]
    <3>1. CASE to # <<>>
      <4>1. from = <<>> /\ got = <<>>
        BY <1>2, <2>4, <3>1 DEF AnswerInv, Before
      <4>2. Len(Answer)' = 0 /\ ~Told'
        BY <1>1, <1>3, <4>1 DEF Answer, Told
      <4> QED
        BY <4>2, Lengths2
    <3>2. CASE to = <<>>
      <4>1. Told' => Answer[2].t' = "result" /\ Result' = Result /\ Outcome(Result)
        BY <1>2, <2>3, <2>4, <3>2 DEF AnswerInv, Result
      <4>2. Told' => Outcome(Result)'
        BY <1>1, <2>2, <4>1 DEF Outcome
      <4>3. call.op # "read" /\ at # "single" => Len(Answer)' <= ResponseLength(call.op)
        BY <1>2, <1>3, <2>4, <3>2, Lengths2 DEF AnswerInv
      <4>4. ASSUME call.op = "read", Told', Result' \in 1..call.n
            PROVE  /\ Len(Answer)' <= 3 + Result'
                   /\ \A i \in 4..Len(Answer)' : Answer[i].v' = source[total + i - 3]
        <5>1. Told /\ Result = Result'
          BY <2>3, <4>1, <4>4
        <5>2. /\ Len(Answer) <= 3 + Result
              /\ \A i \in 4..Len(Answer) : Answer[i].v = source[total + i - 3]
          BY <1>2, <2>4, <3>2, <4>4, <5>1 DEF AnswerInv
        <5>3. Result \in Int
          BY <4>4, <5>1
        <5>4. Len(Answer)' <= 3 + Result'
          BY <1>3, <5>1, <5>2, <5>3
        <5>5. ASSUME NEW i \in 4..Len(Answer)' PROVE Answer[i].v' = source[total + i - 3]
          <6>1. i \in 4..Len(Answer) /\ i \in 1..Len(Answer)'
            BY <1>3
          <6> QED
            BY <1>3, <5>2, <6>1
        <5> QED
          BY <5>4, <5>5
      <4> QED
        BY <4>1, <4>2, <4>3, <4>4
    <3> QED
      BY <3>1, <3>2
  <2>5. ASSUME phase = "data"
        PROVE  /\ Outcome(need)' /\ Len(Answer)' <= need
               /\ \A i \in 1..Len(Answer)' : Answer[i].v' = source[total + i]
    <3>1. /\ Outcome(need) /\ Len(Answer) <= need
          /\ \A i \in 1..Len(Answer) : Answer[i].v = source[total + i]
      BY <1>2, <2>5 DEF AnswerInv
    <3>2. need \in Nat /\ Outcome(need)'
      BY <1>1, <1>2, <2>2, <3>1 DEF TypeOK, Outcome
    <3>3. Len(Answer)' <= need
      BY <1>3, <3>1, <3>2
    <3>4. ASSUME NEW i \in 1..Len(Answer)' PROVE Answer[i].v' = source[total + i]
      <4>1. i \in 1..Len(Answer)
        BY <1>3
      <4> QED
        BY <1>3, <3>1, <4>1
    <3> QED
      BY <3>2, <3>3, <3>4
  <2>6. Outcome(ret)' <=> Outcome(ret)
    BY <1>1 DEF Outcome
  <2>7. ASSUME Aligned, phase = "back"
        PROVE  /\ Outcome(ret)'
               /\ at # "single" /\ ~(cmd = "copyfrom" /\ at = "read" /\ ret <= 0) => from' = <<>>
    BY <1>1, <1>2, <1>3, <2>6, <2>7 DEF AnswerInv
  <2>8. Aligned /\ phase \in {"idle", "send"} => from' = <<>>
    BY <1>2, <1>3 DEF AnswerInv, Before
  <2>9. /\ phase = "back" /\ at = "read" /\ ret > 0 =>
             /\ ret <= call.n /\ Len(buffer) = ret
             /\ \A i \in 1..ret : buffer[i] = source[total + i]
        /\ phase = "back" /\ at = "write" /\ cmd = "copyfrom" => ret <= call.n
    BY <1>2 DEF AnswerInv
  <2> QED
    BY <1>1, <2>1, <2>4, <2>5, <2>7, <2>8, <2>9 DEF AnswerInv
<1>10. CopyInv'
  <2>1. Before' => Before
    BY <1>1 DEF Before
  <2> QED
    BY <1>1, <1>2, <2>1 DEF CopyInv
<1>11. HeldInv'
  BY <1>1, <1>2 DEF HeldInv, OnPs2, Fd
<1>12. ListInv'
  <2>1. Before' => Before
    BY <1>1 DEF Before
  <2> QED
    BY <1>1, <1>2, <2>1 DEF ListInv
<1> QED
  BY <1>5, <1>6, <1>7, <1>8, <1>9, <1>10, <1>11, <1>12 DEF Inv

\* What ReceivePiece changes.
Received(k, cells) ==
    /\ k \in 1..Smaller(need - Len(got), Len(from)) /\ Moves(got, from, k, cells, from')
    /\ Len(cells) <= need /\ \A i \in 1..Len(cells) : cells[i] = Answer[i] /\ cells[i] \in Cells
    /\ UNCHANGED <<cmd, name, at, status, fd0, fd1, size, total, bytes, sent, files>>
    /\ UNCHANGED <<call, out, link, to, source, dest, held, pos, left, served, cut>>

LEMMA ReceivePieces ==
    ASSUME Inv, ReceivePiece
    PROVE  \E k, cells :
             /\ Received(k, cells)
             /\ \/ /\ ~AllReceived(cells)
                   /\ got' = cells /\ UNCHANGED <<phase, ret, need, buffer>>
                \/ /\ AllReceived(cells) /\ phase = "reply"
                   /\ Responded(cells)
                \/ /\ AllReceived(cells) /\ phase = "data"
                   /\ Return(need)
                   /\ buffer' = [i \in DOMAIN cells |-> cells[i].v]
                   /\ UNCHANGED <<got, need>>
<1>1. PICK k \in 1..Smaller(need - Len(got), Len(from)) :
        LET c == got \o SubSeq(from, 1, k)
        IN  /\ from' = SubSeq(from, k + 1, Len(from))
            /\ \/ /\ ~AllReceived(c)
                  /\ got' = c /\ UNCHANGED <<phase, ret, need, buffer>>
               \/ /\ AllReceived(c) /\ phase = "reply"
                  /\ Responded(c)
               \/ /\ AllReceived(c) /\ phase = "data"
                  /\ Return(need)
                  /\ buffer' = [i \in DOMAIN c |-> c[i].v]
                  /\ UNCHANGED <<got, need>>
  BY DEF ReceivePiece
<1> DEFINE cells == got \o SubSeq(from, 1, k)
<1>2. from \in Seq(Cells) /\ got \in Seq(Cells) /\ need \in Nat
  BY DEF Inv, TypeOK
<1>3. k \in 1..Len(from) /\ k <= need - Len(got)
  BY <1>2 DEF Smaller
<1>4. Moves(got, from, k, cells, from')
  BY <1>1, <1>2, <1>3, Moved
<1> HIDE DEF cells
<1>5. Len(got) \in Nat
  BY <1>2
<1>6. Len(cells) <= need /\ cells \in Seq(Cells) /\ Len(cells) = Len(got) + k
  BY <1>2, <1>3, <1>4, <1>5 DEF Moves
<1>7. \A i \in 1..Len(cells) : cells[i] = Answer[i] /\ cells[i] \in Cells
  BY <1>4, <1>6 DEF Moves, Answer
<1>8. /\ UNCHANGED <<cmd, name, at, status, fd0, fd1, size, total, bytes, sent, files>>
      /\ UNCHANGED <<call, out, link, to, source, dest, held, pos, left, served, cut>>
  BY DEF ReceivePiece, client, line, copying, server, disks
<1>9. Received(k, cells)
  BY <1>4, <1>6, <1>7, <1>8 DEF Received
<1> QED
  BY <1>1, <1>9 DEF cells

\* Something has come: then it is for the call, or nothing is known about it.
LEMMA HasCome ==
    ASSUME Inv, phase \in {"reply", "data"}, from # <<>>
    PROVE  /\ Remote /\ at \notin {"start", "exit"}
           /\ Aligned => to = <<>>
           /\ ~Aligned => cmd = "copyfrom" /\ at = "close0" /\ status = -1
           /\ phase = "data" => to = <<>>
           /\ to # <<>> => phase = "reply" /\ IsCommand(to)
           /\ at = "dclose" => files = Entries \/ cut
           /\ call = [op |-> OpAt, n |-> CountAt]
<1>1. Remote /\ at \notin {"start", "exit"} /\ call = [op |-> OpAt, n |-> CountAt]
  BY DEF Inv, CallInv
<1>2. Aligned => to = <<>>
  BY DEF Inv, AnswerInv, Before, ToInv, Late, CallInv
<1>3. ~Aligned => cmd = "copyfrom" /\ at = "close0" /\ status = -1
  BY <1>1 DEF Aligned, Remote, SideAt, OnPs2, ListPlaces
<1>4. phase = "data" => to = <<>>
  BY DEF Inv, ToInv, Late, CallInv
<1>5. to # <<>> => phase = "reply" /\ IsCommand(to)
  BY <1>4 DEF Inv, ToInv
<1>6. at = "dclose" => files = Entries \/ cut
  BY DEF Inv, ListInv
<1> QED
  BY <1>1, <1>2, <1>3, <1>4, <1>5, <1>6

LEMMA PartKeeps ==
    ASSUME Inv, phase \in {"reply", "data"}, from # <<>>, NEW k, NEW cells, Received(k, cells),
           ~AllReceived(cells), got' = cells, UNCHANGED <<phase, ret, need, buffer>>
    PROVE  Inv'
<1>1. /\ UNCHANGED <<cmd, name, at, status, fd0, fd1, size, total, bytes, sent, files>>
      /\ UNCHANGED <<call, out, link, to, source, dest, held, pos, left, served, cut>>
  BY DEF Received
<1>2. TypeOK /\ PlaceInv /\ CallInv /\ ToInv /\ AnswerInv /\ CopyInv /\ HeldInv /\ ListInv
  BY DEF Inv
<1>3. /\ Answer' = Answer /\ got' \in Seq(Cells) /\ from' \in Seq(Cells)
      /\ Len(got') \in Nat /\ Len(got') <= need /\ Len(got') # need
  <2>1. Answer' = Answer /\ got' \in Seq(Cells) /\ from' \in Seq(Cells)
    BY DEF Received, Moves, Answer
  <2>2. Len(got') <= need /\ Len(got') # need
    BY DEF Received, AllReceived
  <2> QED
    BY <2>1, <2>2
<1>4. Len(got') < need
  BY <1>2, <1>3 DEF TypeOK
<1>5. TypeOK'
  BY <1>1, <1>2, <1>3 DEF TypeOK
<1>6. PlaceInv'
  BY <1>1, <1>2 DEF PlaceInv
<1>7. CallInv'
  <2>1. Remote' = Remote /\ OpAt' = OpAt /\ CountAt' = CountAt
    BY <1>1 DEF Remote, SideAt, OnPs2, OpAt, CountAt
  <2> QED
    BY <1>1, <1>2, <1>4, <2>1 DEF CallInv
<1>8. ToInv'
  <2>1. IsCommand(to)' <=> IsCommand(to)
    BY <1>1 DEF IsCommand, SentName
  <2>2. Late' <=> Late
    BY <1>1 DEF Late
  <2> QED
    BY <1>1, <1>2, <2>1, <2>2 DEF ToInv
<1>9. AnswerInv'
  <2>1. Aligned' = Aligned /\ (Aligned => to = <<>>)
    BY <1>1, HasCome DEF Aligned
  <2>2. Outcome(Result)' <=> Outcome(Result)
    BY <1>1, <1>3 DEF Outcome, Result
  <2>3. Outcome(need)' <=> Outcome(need)
    BY <1>1 DEF Outcome
  <2>4. Told' = Told /\ Result' = Result /\ Answer[2].t' = Answer[2].t /\ ~(Aligned /\ Before')
    BY <1>1, <1>3, <2>1 DEF Told, Result, Before
  <2>5. ASSUME Aligned, phase = "reply"
        PROVE  /\ Told => Answer[2].t = "result" /\ Outcome(Result)
               /\ call.op # "read" /\ at # "single" => Len(Answer) <= ResponseLength(call.op)
               /\ call.op = "read" /\ Told /\ Result \in 1..call.n =>
                    /\ Len(Answer) <= 3 + Result
                    /\ \A i \in 4..Len(Answer) : Answer[i].v = source[total + i - 3]
    BY <1>2, <2>1, <2>5 DEF AnswerInv
  <2>6. phase = "data" =>
          /\ Outcome(need) /\ Len(Answer) <= need
          /\ \A i \in 1..Len(Answer) : Answer[i].v = source[total + i]
    BY <1>2 DEF AnswerInv
  <2>7. phase' # "back"
    OBVIOUS
  <2> QED
    BY <1>1, <1>3, <2>1, <2>2, <2>3, <2>4, <2>5, <2>6, <2>7 DEF AnswerInv
<1>10. CopyInv'
  <2>1. Before' = Before
    BY <1>1 DEF Before
  <2> QED
    BY <1>1, <1>2, <2>1 DEF CopyInv
<1>11. HeldInv'
  <2>1. Told' = Told /\ Result' = Result
    BY <1>3 DEF Told, Result
  <2> QED
    BY <1>1, <1>2, <2>1 DEF HeldInv, OnPs2, Fd
<1>12. ListInv'
  <2>1. Before' = Before
    BY <1>1 DEF Before
  <2> QED
    BY <1>1, <1>2, <2>1, HasCome DEF ListInv
<1> QED
  BY <1>5, <1>6, <1>7, <1>8, <1>9, <1>10, <1>11, <1>12 DEF Inv

\* The whole of a response that ends the call.
LEMMA ReturnKeeps ==
    ASSUME Inv, phase = "reply", from # <<>>, NEW k, NEW cells, Received(k, cells),
           AllReceived(cells), NEW r \in ResultOf(cells), NEW v, Return(v),
           \/ (call.op # "read" \/ r <= 0) /\ v = r
           \/ call.op = "read" /\ ReadTooLong(r) /\ v = -1,
           UNCHANGED <<got, need, buffer>>
    PROVE  Inv'
<1>1. /\ UNCHANGED <<cmd, name, at, status, fd0, fd1, size, total, bytes, sent, files>>
      /\ UNCHANGED <<call, out, link, to, source, dest, held, pos, left, served, cut>>
      /\ UNCHANGED <<got, need, buffer>> /\ phase' = "back" /\ ret' = v
  BY DEF Received, Return
<1>2. TypeOK /\ PlaceInv /\ CallInv /\ ToInv /\ AnswerInv /\ CopyInv /\ HeldInv /\ ListInv
  BY DEF Inv
<1>3. need \in {2, 3} /\ need = ResponseLength(call.op)
  BY <1>2, Lengths2 DEF CallInv
<1>4. /\ Len(cells) = need /\ cells[2] = Answer[2] /\ cells[2] \in Cells
      /\ Len(Answer) = need + Len(from') /\ from' \in Seq(Cells) /\ Told
  <2>1. Len(cells) = need /\ cells \in Seq(Cells) /\ cells \o from' = Answer /\ from' \in Seq(Cells)
    BY DEF Received, AllReceived, Moves, Answer
  <2>2. cells[2] = Answer[2] /\ cells[2] \in Cells
    BY <1>3, <2>1 DEF Received
  <2>3. Len(Answer) = need + Len(from')
    BY <2>1
  <2>4. Len(from') \in Nat
    BY <2>1
  <2> QED
    BY <1>3, <2>1, <2>2, <2>3, <2>4 DEF Told
<1>5. r \in Int /\ v \in Int
  <2>1. r \in Int
    BY <1>4 DEF ResultOf, Cells
  <2> QED
    BY <2>1
<1>6. Aligned => r = Result /\ Outcome(Result)
  BY <1>2, <1>4, HasCome DEF AnswerInv, ResultOf, Result
<1>7. Remote /\ at \notin {"start", "exit"} /\ call = [op |-> OpAt, n |-> CountAt]
  BY HasCome
<1>8. call.op = "read" <=> at = "read"
  BY <1>2, <1>7 DEF OpAt, PlaceInv, Singles, TypeOK, Labels
<1>9. at = "read" => cmd = "copyfrom" /\ v <= 0
  <2>1. at = "read" => cmd = "copyfrom"
    BY <1>7 DEF Remote, SideAt, OnPs2, ListPlaces
  <2>2. at = "read" => v <= 0
    BY <1>5, <1>8
  <2> QED
    BY <2>1, <2>2
<1>10. TypeOK'
  BY <1>1, <1>2, <1>4, <1>5 DEF TypeOK
<1>11. PlaceInv'
  BY <1>1, <1>2 DEF PlaceInv
<1>12. CallInv'
  <2>1. Remote' = Remote /\ OpAt' = OpAt /\ CountAt' = CountAt
    BY <1>1 DEF Remote, SideAt, OnPs2, OpAt, CountAt
  <2> QED
    BY <1>1, <1>2, <1>7, <2>1 DEF CallInv
<1>13. ToInv'
  <2>1. IsCommand(to)' <=> IsCommand(to)
    BY <1>1 DEF IsCommand, SentName
  <2>2. to # <<>> => IsCommand(to) /\ cmd = "copyfrom" /\ at = "close0" /\ status = -1
    BY HasCome
  <2>3. at = "close0" => call = [op |-> "close", n |-> 0]
    BY <1>7 DEF OpAt, CountAt
  <2>4. to # <<>> => Late'
    BY <1>1, <2>2, <2>3 DEF Late
  <2> QED
    BY <1>1, <1>2, <2>1, <2>2, <2>4 DEF ToInv
<1>14. AnswerInv'
  <2>1. Aligned' = Aligned /\ ~Before'
    BY <1>1 DEF Aligned, Before
  <2>2. ASSUME Aligned PROVE Outcome(ret)'
    <3>1. CASE at = "read"
      <4>1. v \notin 1..call.n
        BY <1>5, <1>9, <3>1
      <4> QED
        BY <1>1, <3>1, <4>1 DEF Outcome
    <3>2. CASE at # "read"
      <4>1. v = Result /\ Outcome(Result)
        BY <1>6, <1>8, <2>2, <3>2
      <4> QED
        BY <1>1, <4>1 DEF Outcome
    <3> QED
      BY <3>1, <3>2
  <2>3. ASSUME Aligned, at # "single", at # "read" PROVE from' = <<>>
    <3>1. Len(Answer) <= need
      BY <1>2, <1>3, <1>8, <2>3, HasCome DEF AnswerInv
    <3>2. Len(from') \in Nat
      BY <1>4
    <3>3. Len(from') = 0
      BY <1>3, <1>4, <3>1, <3>2
    <3> QED
      BY <1>4, <3>3
  <2>4. at = "write" => cmd # "copyfrom"
    BY <1>7 DEF Remote, SideAt, OnPs2, ListPlaces
  <2>5. ~(at = "read" /\ v > 0)
    BY <1>5, <1>9
  <2> QED
    BY <1>1, <1>9, <2>1, <2>2, <2>3, <2>4, <2>5 DEF AnswerInv
<1>15. CopyInv'
  <2>1. ~Before'
    BY <1>1 DEF Before
  <2> QED
    BY <1>1, <1>2, <2>1 DEF CopyInv
<1>16. HeldInv'
  <2> SUFFICES ASSUME NEW s \in held PROVE
        \/ OnPs2(s) /\ link = "closed"
        \/ OnPs2(s) /\ to # <<>> /\ at \in ClosedAt(s) \cup {CloseAt(s)}
        \/ Fd(s) >= 0 /\ at \notin ClosedAt(s) /\ at # CloseAt(s)
        \/ at = OpenAt(s) /\ v >= 0
    BY <1>1 DEF HeldInv, OnPs2, Fd
  <2>1. at = OpenAt(s) => Aligned /\ at # "read"
    BY DEF OpenAt, Aligned
  <2>2. at = OpenAt(s) /\ Result >= 0 => v >= 0
    BY <1>6, <1>8, <2>1
  <2> QED
    BY <1>2, <2>2 DEF HeldInv
<1>17. ListInv'
  <2>1. ~Before'
    BY <1>1 DEF Before
  <2> QED
    BY <1>1, <1>2, <1>7, <2>1, HasCome DEF ListInv
<1> QED
  BY <1>10, <1>11, <1>12, <1>13, <1>14, <1>15, <1>16, <1>17 DEF Inv

\* The whole of the response of a read whose data follows.
LEMMA DataKeeps ==
    ASSUME Inv, phase = "reply", from # <<>>, NEW k, NEW cells, Received(k, cells),
           AllReceived(cells), NEW r \in ResultOf(cells),
           call.op = "read", ~(r <= 0), ~ReadTooLong(r),
           phase' = "data", got' = <<>>, need' = r, UNCHANGED <<ret, buffer>>
    PROVE  Inv'
<1>1. /\ UNCHANGED <<cmd, name, at, status, fd0, fd1, size, total, bytes, sent, files>>
      /\ UNCHANGED <<call, out, link, to, source, dest, held, pos, left, served, cut>>
      /\ UNCHANGED <<ret, buffer>> /\ phase' = "data" /\ got' = <<>> /\ need' = r
  BY DEF Received
<1>2. TypeOK /\ PlaceInv /\ CallInv /\ ToInv /\ AnswerInv /\ CopyInv /\ HeldInv /\ ListInv
  BY DEF Inv
<1>3. need = 3
  BY <1>2 DEF CallInv, ResponseLength
<1>4. Remote /\ at \notin {"start", "exit"} /\ call = [op |-> OpAt, n |-> CountAt]
  BY HasCome
<1>5. at = "read"
  BY <1>2, <1>4 DEF OpAt, PlaceInv, Singles, TypeOK, Labels
<1>6. Aligned /\ to = <<>>
  BY <1>5, HasCome DEF Aligned
<1>7. call.n \in Int
  BY <1>2, <1>4, <1>5, Bounds DEF CountAt, Smaller, TypeOK
<1>8. /\ Len(cells) = 3 /\ cells \in Seq(Cells) /\ from' \in Seq(Cells) /\ Answer = cells \o from'
      /\ cells[2] = Answer[2] /\ cells[2] \in Cells
  <2>1. Len(cells) = 3 /\ cells \in Seq(Cells) /\ from' \in Seq(Cells) /\ Answer = cells \o from'
    BY <1>3 DEF Received, AllReceived, Moves, Answer
  <2>2. 2 \in 1..Len(cells)
    BY <2>1
  <2>3. cells[2] = Answer[2] /\ cells[2] \in Cells
    BY <2>2 DEF Received
  <2> QED
    BY <2>1, <2>3
<1>9. /\ Len(from') \in Nat /\ Len(Answer) = 3 + Len(from')
      /\ \A i \in 1..Len(from') : from'[i] = Answer[i + 3]
  <2>1. Len(from') \in Nat /\ Len(Answer) = 3 + Len(from')
    <3>1. cells \in Seq(Cells) /\ from' \in Seq(Cells)
      BY <1>8
    <3>2. Len(from') \in Nat /\ Len(cells \o from') = Len(cells) + Len(from')
      BY <3>1
    <3> QED
      BY <1>8, <3>2
  <2>2. ASSUME NEW i \in 1..Len(from') PROVE from'[i] = Answer[i + 3]
    BY <1>8, <2>1
  <2> QED
    BY <2>1, <2>2
<1>10. Told /\ r = Result /\ r \in 1..call.n
  <2>1. Told
    BY <1>9 DEF Told
  <2>2. r = Result /\ r \in Int
    BY <1>2, <1>6, <1>8, <2>1 DEF AnswerInv, ResultOf, Result, Cells
  <2>3. r \in 1..call.n
    BY <1>7, <2>2 DEF ReadTooLong
  <2> QED
    BY <2>1, <2>2, <2>3
<1>11. /\ Outcome(r) /\ Len(Answer) <= 3 + r
       /\ \A i \in 4..Len(Answer) : Answer[i].v = source[total + i - 3]
  BY <1>2, <1>6, <1>10 DEF AnswerInv
<1>12. TypeOK'
  <2>1. r \in Nat
    BY <1>7, <1>10
  <2> QED
    BY <1>1, <1>2, <1>8, <2>1 DEF TypeOK
<1>13. PlaceInv'
  BY <1>1, <1>2 DEF PlaceInv
<1>14. CallInv'
  <2>1. Remote' = Remote /\ OpAt' = OpAt /\ CountAt' = CountAt
    BY <1>1 DEF Remote, SideAt, OnPs2, OpAt, CountAt
  <2>2. Len(got') < need'
    BY <1>1, <1>7, <1>10
  <2> QED
    BY <1>1, <1>2, <1>4, <1>5, <1>10, <2>1, <2>2 DEF CallInv
<1>15. ToInv'
  BY <1>1, <1>6 DEF ToInv
<1>16. AnswerInv'
  <2>1. ~Before'
    BY <1>1 DEF Before
  <2>2. Outcome(need)'
    BY <1>1, <1>11 DEF Outcome
  <2>3. Answer' = from'
    BY <1>1, <1>8 DEF Answer
  <2>4. Len(from') <= r
    BY <1>7, <1>9, <1>10, <1>11
  <2>5. ASSUME NEW i \in 1..Len(from') PROVE from'[i].v = source[total + i]
    <3>1. i + 3 \in 4..Len(Answer) /\ total + (i + 3) - 3 = total + i
      BY <1>2, <1>9 DEF TypeOK
    <3> QED
      BY <1>9, <1>11, <3>1
  <2> QED
    BY <1>1, <2>1, <2>2, <2>3, <2>4, <2>5 DEF AnswerInv
<1>17. CopyInv'
  <2>1. ~Before'
    BY <1>1 DEF Before
  <2> QED
    BY <1>1, <1>2, <2>1 DEF CopyInv
<1>18. HeldInv'
  <2>1. \A s : at # OpenAt(s) /\ at # CloseAt(s)
    BY <1>5 DEF OpenAt, CloseAt
  <2> QED
    BY <1>1, <1>2, <2>1 DEF HeldInv, OnPs2, Fd
<1>19. ListInv'
  BY <1>1, <1>2, <1>5 DEF ListInv
<1> QED
  BY <1>12, <1>13, <1>14, <1>15, <1>16, <1>17, <1>18, <1>19 DEF Inv

\* The data of a read is complete.
LEMMA DataDoneKeeps ==
    ASSUME Inv, phase = "data", from # <<>>, NEW k, NEW cells, Received(k, cells),
           AllReceived(cells), Return(need), buffer' = [i \in DOMAIN cells |-> cells[i].v],
           UNCHANGED <<got, need>>
    PROVE  Inv'
<1>1. /\ UNCHANGED <<cmd, name, at, status, fd0, fd1, size, total, bytes, sent, files>>
      /\ UNCHANGED <<call, out, link, to, source, dest, held, pos, left, served, cut>>
      /\ UNCHANGED <<got, need>> /\ phase' = "back" /\ ret' = need
  BY DEF Received, Return
<1>2. TypeOK /\ PlaceInv /\ CallInv /\ ToInv /\ AnswerInv /\ CopyInv /\ HeldInv /\ ListInv
  BY DEF Inv
<1>4. Remote /\ at = "read" /\ call = [op |-> OpAt, n |-> CountAt] /\ to = <<>> /\ need \in 1..call.n
  BY <1>2, HasCome DEF CallInv
<1>5. call.n \in Int /\ call.n <= Buffer
  <2>1. call.n = IF size - total < Buffer THEN size - total ELSE Buffer
    BY <1>4 DEF CountAt, Smaller
  <2>2. size \in Int /\ total \in Int
    BY <1>2, Bounds DEF TypeOK
  <2> QED
    BY <2>1, <2>2, Bounds
<1>6. /\ cells \in Seq(Cells) /\ from' \in Seq(Cells) /\ Len(cells) = need
      /\ Len(Answer) = need + Len(from') /\ need \in Nat
  <2>1. cells \in Seq(Cells) /\ from' \in Seq(Cells) /\ Len(cells) = need /\ Answer = cells \o from'
    BY DEF Received, AllReceived, Moves, Answer
  <2>2. Len(cells \o from') = Len(cells) + Len(from')
    BY <2>1
  <2> QED
    BY <1>2, <2>1, <2>2 DEF TypeOK
<1>7. /\ Outcome(need) /\ Len(Answer) <= need
      /\ \A i \in 1..Len(Answer) : Answer[i].v = source[total + i]
  BY <1>2 DEF AnswerInv
<1>8. from' = <<>>
  <2>1. Len(from') \in Nat
    BY <1>6
  <2>2. Len(from') = 0
    BY <1>6, <1>7, <2>1
  <2> QED
    BY <1>6, <2>2
<1>9. /\ buffer' \in Seq(Int) /\ Len(buffer') = need
      /\ \A i \in 1..need : buffer'[i] = source[total + i]
  <2>1. DOMAIN cells = 1..need /\ \A i \in 1..need : cells[i] \in Cells
    BY <1>6
  <2>2. \A i \in 1..need : cells[i].v \in Int
    BY <2>1 DEF Cells
  <2>3. buffer' = [i \in 1..need |-> cells[i].v]
    BY <2>1
  <2>4. buffer' \in [1..need -> Int]
    BY <2>2, <2>3
  <2>5. buffer' \in Seq(Int) /\ Len(buffer') = need
    BY <1>6, <2>4, <2>3
  <2>6. ASSUME NEW i \in 1..need PROVE buffer'[i] = source[total + i]
    <3>1. i \in 1..Len(Answer) /\ i \in 1..Len(cells)
      BY <1>6, <1>8
    <3>2. cells[i] = Answer[i]
      BY <3>1 DEF Received
    <3> QED
      BY <1>7, <2>3, <3>1, <3>2
  <2> QED
    BY <2>5, <2>6
<1>10. TypeOK'
  <2>1. Len(buffer') <= Buffer
    BY <1>4, <1>5, <1>6, <1>9, Bounds
  <2>2. need \in Int
    BY <1>6
  <2> QED
    BY <1>1, <1>2, <1>6, <1>9, <2>1, <2>2 DEF TypeOK
<1>13. PlaceInv'
  BY <1>1, <1>2 DEF PlaceInv
<1>14. CallInv'
  <2>1. Remote' = Remote /\ OpAt' = OpAt /\ CountAt' = CountAt
    BY <1>1 DEF Remote, SideAt, OnPs2, OpAt, CountAt
  <2> QED
    BY <1>1, <1>2, <1>4, <2>1 DEF CallInv
<1>15. ToInv'
  BY <1>1, <1>2, <1>4 DEF ToInv
<1>16. AnswerInv'
  <2>1. ~Before'
    BY <1>1 DEF Before
  <2>2. Outcome(ret)'
    BY <1>1, <1>7 DEF Outcome
  <2>3. need <= call.n
    BY <1>4, <1>5
  <2> QED
    BY <1>1, <1>4, <1>8, <1>9, <2>1, <2>2, <2>3 DEF AnswerInv
<1>17. CopyInv'
  <2>1. ~Before'
    BY <1>1 DEF Before
  <2> QED
    BY <1>1, <1>2, <1>4, <2>1 DEF CopyInv
<1>18. HeldInv'
  <2>1. \A s : at # OpenAt(s) /\ at # CloseAt(s)
    BY <1>4 DEF OpenAt, CloseAt
  <2> QED
    BY <1>1, <1>2, <2>1 DEF HeldInv, OnPs2, Fd
<1>19. ListInv'
  BY <1>1, <1>2, <1>4 DEF ListInv
<1> QED
  BY <1>10, <1>13, <1>14, <1>15, <1>16, <1>17, <1>18, <1>19 DEF Inv

LEMMA ReceivePieceKeeps ==
    ASSUME Inv, ReceivePiece
    PROVE  Inv'
<1>1. phase \in {"reply", "data"} /\ from # <<>>
  BY DEF ReceivePiece
<1>2. PICK k, cells :
        /\ Received(k, cells)
        /\ \/ /\ ~AllReceived(cells)
              /\ got' = cells /\ UNCHANGED <<phase, ret, need, buffer>>
           \/ /\ AllReceived(cells) /\ phase = "reply"
              /\ Responded(cells)
           \/ /\ AllReceived(cells) /\ phase = "data"
              /\ Return(need)
              /\ buffer' = [i \in DOMAIN cells |-> cells[i].v]
              /\ UNCHANGED <<got, need>>
  BY ReceivePieces
<1>3. CASE ~AllReceived(cells) /\ got' = cells /\ UNCHANGED <<phase, ret, need, buffer>>
  BY <1>1, <1>2, <1>3, PartKeeps
<1>4. CASE AllReceived(cells) /\ phase = "reply" /\ Responded(cells)
  <2>1. PICK r \in ResultOf(cells) :
          IF call.op # "read" \/ r <= 0
            THEN Return(r) /\ UNCHANGED <<got, need, buffer>>
            ELSE IF ReadTooLong(r)
              THEN Return(-1) /\ UNCHANGED <<got, need, buffer>>
              ELSE /\ phase' = "data" /\ got' = <<>> /\ need' = r
                   /\ UNCHANGED <<ret, buffer>>
    BY <1>4 DEF Responded
  <2>2. CASE call.op # "read" \/ r <= 0
    BY <1>1, <1>2, <1>4, <2>1, <2>2, ReturnKeeps
  <2>3. CASE call.op = "read" /\ ~(r <= 0) /\ ReadTooLong(r)
    BY <1>1, <1>2, <1>4, <2>1, <2>3, ReturnKeeps
  <2>4. CASE call.op = "read" /\ ~(r <= 0) /\ ~ReadTooLong(r)
    BY <1>1, <1>2, <1>4, <2>1, <2>4, DataKeeps
  <2> QED
    BY <2>2, <2>3, <2>4
<1>5. CASE /\ AllReceived(cells) /\ phase = "data"
           /\ Return(need)
           /\ buffer' = [i \in DOMAIN cells |-> cells[i].v]
           /\ UNCHANGED <<got, need>>
  BY <1>1, <1>2, <1>5, DataDoneKeeps
<1> QED
  BY <1>2, <1>3, <1>4, <1>5

----------------------------------------------------------------------------
(* The server.                                                             *)

\* The operation the server performs for a call: three calls have the number of another.
ServedOp == CASE call.op = "sync"   -> "read"
              [] call.op = "mount"  -> "write"
              [] call.op = "umount" -> "lseek"
              [] OTHER              -> call.op

Calls15 == {"open", "close", "read", "write", "lseek", "delete", "mkdir", "rmdir", "dopen", "dclose", "dread", "sync", "mount", "umount", "devlist"}

LEMMA Numbers ==
    ASSUME NEW op \in DOMAIN Number
    PROVE  Understood(Number[op]) = CASE op = "sync"   -> "read"
                                      [] op = "mount"  -> "write"
                                      [] op = "umount" -> "lseek"
                                      [] OTHER         -> op
<1> DEFINE s == CASE op = "sync"   -> "read"
                  [] op = "mount"  -> "write"
                  [] op = "umount" -> "lseek"
                  [] OTHER         -> op
<1>a. op \in Calls15 /\ DOMAIN Documented = Calls15
  BY DEF Documented, Number, Calls15
<1>b. /\ TRUE
      /\ Number["open"] = "8011" /\ Number["close"] = "8021" /\ Number["read"] = "8031" /\ Number["write"] = "8041"
      /\ Number["lseek"] = "8051" /\ Number["delete"] = "8071" /\ Number["mkdir"] = "8081" /\ Number["rmdir"] = "8091"
      /\ Number["dopen"] = "80A1" /\ Number["dclose"] = "80B1" /\ Number["dread"] = "80C1" /\ Number["sync"] = "8031"
      /\ Number["mount"] = "8041" /\ Number["umount"] = "8051" /\ Number["devlist"] = "8F21"
  BY DEF Number
<1>c. /\ TRUE
      /\ Documented["open"] = "8011" /\ Documented["close"] = "8021" /\ Documented["read"] = "8031" /\ Documented["write"] = "8041"
      /\ Documented["lseek"] = "8051" /\ Documented["delete"] = "8071" /\ Documented["mkdir"] = "8081" /\ Documented["rmdir"] = "8091"
      /\ Documented["dopen"] = "80A1" /\ Documented["dclose"] = "80B1" /\ Documented["dread"] = "80C1" /\ Documented["sync"] = "8131"
      /\ Documented["mount"] = "8141" /\ Documented["umount"] = "8151" /\ Documented["devlist"] = "8F21"
  BY DEF Number, Documented
<1>1. s \in DOMAIN Documented /\ Documented[s] = Number[op]
  BY <1>a, <1>b, <1>c DEF Calls15
<1>2. ASSUME NEW o \in DOMAIN Documented, Documented[o] = Number[op] PROVE o = s
  BY <1>a, <1>b, <1>c, <1>2 DEF Calls15
<1> HIDE DEF s
<1>3. Understood(Number[op]) = s
  BY <1>1, <1>2 DEF Understood
<1> QED
  BY <1>3 DEF s

LEMMA Responses ==
    ASSUME NEW op, NEW r \in Int, NEW data \in Seq(Int)
    PROVE  LET c == Response(op, r, data)
           IN  /\ c \in Seq(Cells) /\ Len(c) = ResponseLength(op) + Len(data)
               /\ c[2].t = "result" /\ c[2].v = AsInt(r)
               /\ ResponseLength(op) = 3 => \A i \in 4..Len(c) : c[i].v = data[i - 3]
<1>1. AsInt(r) \in Int
  BY Ints, Bounds
<1> DEFINE h == <<Cell("head", 0), Cell("result", AsInt(r))>>
           b == IF ResponseLength(op) = 3 THEN <<Cell("body", 0)>> ELSE <<>>
           d == DataCells(data)
<1>2. Cell("head", 0) \in Cells /\ Cell("result", AsInt(r)) \in Cells /\ Cell("body", 0) \in Cells
  BY <1>1 DEF Cell, Cells
<1>3. h \in Seq(Cells) /\ Len(h) = 2 /\ h[2] = Cell("result", AsInt(r))
  BY <1>2
<1>4. b \in Seq(Cells) /\ Len(b) = ResponseLength(op) - 2
  BY <1>2, Lengths2
<1>5. d \in Seq(Cells) /\ Len(d) = Len(data) /\ \A i \in 1..Len(data) : d[i].v = data[i]
  <2>1. DOMAIN data = 1..Len(data) /\ Len(data) \in Nat
    OBVIOUS
  <2>2. d = [i \in 1..Len(data) |-> Cell("data", data[i])]
    BY <2>1 DEF DataCells
  <2>3. \A i \in 1..Len(data) : Cell("data", data[i]) \in Cells /\ Cell("data", data[i]).v = data[i]
    BY DEF Cell, Cells
  <2> HIDE DEF d
  <2>4. d \in [1..Len(data) -> Cells]
    BY <2>2, <2>3
  <2> QED
    BY <2>1, <2>2, <2>3, <2>4
<1>6. Cell("result", AsInt(r)).t = "result" /\ Cell("result", AsInt(r)).v = AsInt(r)
  BY DEF Cell
<1>7. Response(op, r, data) = (h \o b) \o d
  BY DEF Response
<1>8. ResponseLength(op) \in {2, 3}
  BY Lengths2
<1> HIDE DEF h, b, d
<1> DEFINE hb == h \o b
<1>9. hb \in Seq(Cells) /\ Len(hb) = ResponseLength(op) /\ hb[2] = h[2]
  <2>0. h \in Seq(Cells) /\ b \in Seq(Cells)
    BY <1>3, <1>4
  <2>1. h \in Seq(Cells) /\ b \in Seq(Cells) /\ Len(h) = 2
    BY <1>3, <1>4
  <2>2. h \o b \in Seq(Cells) /\ Len(h \o b) = Len(h) + Len(b)
    BY <2>0
  <2>3. Len(b) \in Nat /\ 2 \in 1..(Len(h) + Len(b)) /\ 2 <= Len(h)
    BY <2>1
  <2>4. (h \o b)[2] = h[2]
    BY <2>1, <2>3, ConcatProperties
  <2> QED
    BY <1>3, <1>4, <1>8, <2>2, <2>4
<1> HIDE DEF hb
<1>10. Len(data) \in Nat
  OBVIOUS
<1>11. hb \o d \in Seq(Cells) /\ Len(hb \o d) = ResponseLength(op) + Len(data) /\ (hb \o d)[2] = hb[2]
  BY <1>5, <1>8, <1>9, <1>10
<1>12. ASSUME ResponseLength(op) = 3, NEW i \in 4..Len(hb \o d)
       PROVE  (hb \o d)[i].v = data[i - 3]
  <2>1. i - 3 \in 1..Len(data) /\ i > Len(hb) /\ i - Len(hb) = i - 3
    BY <1>9, <1>10, <1>11, <1>12
  <2>2. (hb \o d)[i] = d[i - 3]
    BY <1>5, <1>9, <1>11, <2>1
  <2> QED
    BY <1>5, <2>1, <2>2
<1> QED
  BY <1>3, <1>6, <1>7, <1>9, <1>11, <1>12 DEF hb

WriteData == IF call.op = "write" THEN [i \in 1..call.n |-> buffer[sent + i]] ELSE <<>>
ReadData(r) == IF ServedOp # "read" THEN <<>>
               ELSE IF r > call.n THEN [i \in 1..r |-> 0]
               ELSE Piece(r)

\* The server performs the call, with result r.
Performs(r) ==
    /\ r \in ServerResults(ServedOp, call.n) /\ FileOp(ServedOp, ServerSide, WriteData, r)
    /\ from' = from \o Response(ServedOp, r, ReadData(r))
    /\ left' = (IF ServedOp = "dread" /\ r > 0 THEN left - 1 ELSE left)
    /\ cut' = (cut \/ (ServedOp = "dread" /\ r < 0))
    /\ served' = served \cup {[op |-> ServedOp, name |-> to[2].t, ok |-> r >= 0]}

LEMMA CallTypes ==
    ASSUME Inv, phase # "idle" \/ call = [op |-> "close", n |-> 0]
    PROVE  /\ call.op \in Calls15 /\ call.n \in Int
           /\ phase # "idle" => call = [op |-> OpAt, n |-> CountAt]
           /\ call.op = "write" => call.n >= 0
<1>1. TypeOK /\ PlaceInv /\ CallInv /\ CopyInv
  BY DEF Inv
<1>2. CASE phase = "idle"
  BY <1>2 DEF Calls15
<1>3. CASE phase # "idle"
  <2>1. call = [op |-> OpAt, n |-> CountAt] /\ at \notin {"start", "exit"}
    BY <1>1, <1>3 DEF CallInv
  <2>2. OpAt \in Calls15 /\ (OpAt = "write" => at = "write")
    BY <1>1, <2>1 DEF OpAt, Calls15, PlaceInv, Singles, TypeOK, Labels
  <2>3. size \in Int /\ total \in Int /\ bytes \in Int /\ sent \in Int /\ sent <= bytes
    BY <1>1, Bounds DEF TypeOK
  <2>4. CountAt \in Int /\ (at = "write" => CountAt >= 0)
    BY <2>3, Bounds DEF CountAt, Smaller, LSEEK_END
  <2> QED
    BY <2>1, <2>2, <2>4
<1> QED
  BY <1>2, <1>3

LEMMA ServeFacts ==
    ASSUME Inv, Serve
    PROVE  /\ link = "up" /\ to # <<>> /\ to' = <<>> /\ IsCommand(to) /\ (phase = "reply" \/ Late)
           /\ \E r : Performs(r)
<1>1. TypeOK /\ PlaceInv /\ CallInv /\ ToInv
  BY DEF Inv
<1>2. link = "up" /\ Len(to) >= 2 /\ to \in Seq(Cells) /\ to # <<>> /\ Len(to) \in Nat
  BY <1>1 DEF Serve, TypeOK
<1>3. phase # "idle" \/ call = [op |-> "close", n |-> 0]
  BY <1>1, <1>2 DEF ToInv, Late
<1>4. call.op \in Calls15 /\ call.n \in Int /\ (call.op = "write" => call.n >= 0)
  BY <1>3, CallTypes
<1>5. Understood(Number[call.op]) = ServedOp
  <2>1. call.op \in DOMAIN Number
    BY <1>4 DEF Calls15, Number
  <2> QED
    BY <2>1, Numbers DEF ServedOp
<1> DEFINE op == Understood(to[1].t)
           n == to[2].v
           length == IF op = "write" THEN n ELSE 0
           data == [i \in 1..length |-> to[i + 2].v]
<1>6. /\ Len(to) >= 2 + length
      /\ to' = SubSeq(to, 3 + length, Len(to))
      /\ \E r \in ServerResults(op, n) :
           /\ FileOp(op, ServerSide, data, r)
           /\ from' = from \o Response(op, r, IF op # "read" THEN <<>>
                                              ELSE IF r > n THEN [i \in 1..r |-> 0]
                                              ELSE Piece(r))
           /\ left' = (IF op = "dread" /\ r > 0 THEN left - 1 ELSE left)
           /\ cut' = (cut \/ (op = "dread" /\ r < 0))
           /\ served' = served \cup {[op |-> op, name |-> to[2].t, ok |-> r >= 0]}
  BY DEF Serve
<1>7. phase # "send"
  <2> SUFFICES ASSUME phase = "send" PROVE FALSE
    OBVIOUS
  <2>1. IsCommand(Asked) /\ out # <<>> /\ out \in Seq(Cells)
    BY <1>1, <1>2 DEF ToInv, CallInv, TypeOK
  <2>2. Len(out) \in Nat /\ Len(out) >= 1
    BY <2>1
  <2>3. Len(Asked) = Len(to) + Len(out) /\ Asked[1] = to[1] /\ Asked[2] = to[2]
    <3>1. to \in Seq(Cells) /\ out \in Seq(Cells)
      BY <1>2, <2>1
    <3>2. Len(to \o out) = Len(to) + Len(out)
      BY <3>1
    <3>3. 1 \in 1..(Len(to) + Len(out)) /\ 2 \in 1..(Len(to) + Len(out)) /\ 1 <= Len(to) /\ 2 <= Len(to)
      BY <1>2, <2>2
    <3>4. (to \o out)[1] = to[1] /\ (to \o out)[2] = to[2]
      BY <3>1, <3>3, ConcatProperties
    <3> QED
      BY <3>2, <3>4 DEF Asked
  <2>4. op = ServedOp /\ n = call.n
    BY <1>5, <2>1, <2>3 DEF IsCommand
  <2>5. CASE call.op = "write"
    <3>1. length = call.n
      BY <2>4, <2>5 DEF ServedOp
    <3>2. Len(Asked) = 2 + call.n
      BY <2>1, <2>5 DEF IsCommand
    <3> HIDE DEF length
    <3> QED
      BY <1>2, <1>4, <1>6, <2>2, <2>3, <3>1, <3>2
  <2>6. CASE call.op # "write"
    <3>1. Len(Asked) = 2
      BY <2>1, <2>6 DEF IsCommand
    <3>2. 2 = Len(to) + Len(out)
      BY <2>3, <3>1
    <3>3. Len(to) \in Nat /\ Len(to) >= 2
      BY <1>2
    <3> QED
      BY <2>2, <3>2, <3>3
  <2> QED
    BY <2>5, <2>6
<1>8. IsCommand(to) /\ (phase = "reply" \/ Late)
  BY <1>1, <1>2, <1>7 DEF ToInv
<1>9. op = ServedOp /\ n = call.n
  BY <1>5, <1>8 DEF IsCommand
<1>10. Len(to) = 2 + length /\ length \in Nat /\ data = WriteData
  <2>1. CASE call.op = "write"
    <3>1. length = call.n
      BY <1>9, <2>1 DEF ServedOp
    <3>2. Len(to) = 2 + call.n /\ \A i \in 1..call.n : to[2 + i].v = buffer[sent + i]
      BY <1>8, <2>1 DEF IsCommand
    <3>3. \A i \in 1..call.n : to[i + 2].v = buffer[sent + i]
      BY <1>4, <3>2
    <3> QED
      BY <1>4, <2>1, <3>1, <3>2, <3>3 DEF WriteData
  <2>2. CASE call.op # "write"
    <3>1. Len(to) = 2
      BY <1>8, <2>2 DEF IsCommand
    <3>2. length \in Int /\ length <= 0
      BY <1>2, <1>4, <1>6, <1>9, <3>1
    <3>3. length = 0
      <4>1. CASE op = "write"
        <5>1. call.op = "mount" /\ phase # "idle"
          BY <1>8, <1>9, <2>2, <4>1 DEF ServedOp, Late
        <5>2. call = [op |-> OpAt, n |-> CountAt] /\ at \in Labels
          BY <1>1, <5>1 DEF CallInv, TypeOK
        <5>3. at = "single"
          BY <5>1, <5>2 DEF OpAt, Labels
        <5>4. call.n = 0
          BY <5>2, <5>3 DEF CountAt
        <5> QED
          BY <1>9, <5>4
      <4> QED
        BY <4>1
    <3> QED
      BY <2>2, <3>1, <3>3 DEF WriteData
  <2> QED
    BY <2>1, <2>2
<1>11. to' = <<>>
  <2> HIDE DEF length
  <2> QED
    BY <1>2, <1>6, <1>10
<1>12. \E r : Performs(r)
  <2>1. PICK r \in ServerResults(op, n) :
           /\ FileOp(op, ServerSide, data, r)
           /\ from' = from \o Response(op, r, IF op # "read" THEN <<>>
                                              ELSE IF r > n THEN [i \in 1..r |-> 0]
                                              ELSE Piece(r))
           /\ left' = (IF op = "dread" /\ r > 0 THEN left - 1 ELSE left)
           /\ cut' = (cut \/ (op = "dread" /\ r < 0))
           /\ served' = served \cup {[op |-> op, name |-> to[2].t, ok |-> r >= 0]}
    BY <1>6
  <2>2. Performs(r)
    <3> HIDE DEF op, n, data
    <3> QED
      BY <1>9, <1>10, <2>1 DEF Performs, ReadData
  <2> QED
    BY <2>2
<1> QED
  BY <1>2, <1>8, <1>11, <1>12

\* For the copies, the server performs the call on its side; for the others it has no file.
LEMMA ServerPlace ==
    ASSUME Inv, phase = "reply", link = "up"
    PROVE  /\ at \in CopyPlaces \cup ListPlaces \cup {"single"} /\ call = [op |-> OpAt, n |-> CountAt]
           /\ at \in CopyPlaces => /\ ServerSide = SideAt /\ OnPs2(SideAt) /\ ServedOp = OpAt
                                   /\ cmd = (IF SideAt = 0 THEN "copyfrom" ELSE "copyto")
           /\ at \in ListPlaces => ServedOp = at
           /\ at \notin CopyPlaces => ServerSide = 1 /\ 1 \notin held /\ call.n = 0
           /\ ServedOp \in {"open", "close"} => at \in CopyPlaces
           /\ ServedOp = "dread" => at = "dread"
<1>1. TypeOK /\ PlaceInv /\ CallInv /\ HeldInv
  BY DEF Inv
<1>2. Remote /\ call = [op |-> OpAt, n |-> CountAt] /\ at \notin {"start", "exit"}
  BY <1>1 DEF CallInv
<1>3. at \in CopyPlaces \cup ListPlaces \cup {"single"}
  BY <1>2 DEF Remote
<1>4. at \in CopyPlaces =>
        /\ ServerSide = SideAt /\ OnPs2(SideAt) /\ cmd = (IF SideAt = 0 THEN "copyfrom" ELSE "copyto")
  BY <1>1, <1>2 DEF Remote, ServerSide, OnPs2, PlaceInv, Copies, SideAt, CopyPlaces, ListPlaces
<1>5. at \in CopyPlaces => ServedOp = OpAt
  BY <1>2 DEF ServedOp, OpAt, CopyPlaces
<1>6. at \in ListPlaces => ServedOp = at
  BY <1>2 DEF ServedOp, OpAt, ListPlaces
<1>7. ASSUME at \notin CopyPlaces PROVE ServerSide = 1 /\ 1 \notin held /\ call.n = 0
  <2>1. at \in ListPlaces \cup {"single"} /\ cmd \notin Copies
    BY <1>1, <1>3, <1>7 DEF PlaceInv, Singles, Copies
  <2>2. ServerSide = 1
    BY <2>1 DEF ServerSide, Copies
  <2>3. fd1 = -1
    BY <1>1, <2>1 DEF PlaceInv
  <2>4. 1 \notin held
    BY <1>1, <2>1, <2>3 DEF HeldInv, Fd, ClosedAt, CloseAt, OpenAt, ListPlaces
  <2>5. call.n = 0
    BY <1>2, <2>1 DEF CountAt, ListPlaces
  <2> QED
    BY <2>2, <2>4, <2>5
<1>8. ServedOp \in {"open", "close"} => at \in CopyPlaces
  BY <1>1, <1>2, <1>3 DEF ServedOp, OpAt, CopyPlaces, ListPlaces, PlaceInv, Singles
<1>9. ServedOp = "dread" => at = "dread"
  BY <1>1, <1>2, <1>3 DEF ServedOp, OpAt, CopyPlaces, ListPlaces, PlaceInv, Singles
<1> QED
  BY <1>2, <1>3, <1>4, <1>5, <1>6, <1>7, <1>8, <1>9

\* The results there are, by place.
LEMMA ServerResultsAre ==
    ASSUME Inv, phase = "reply", to # <<>>, link = "up", NEW r \in ServerResults(ServedOp, call.n)
    PROVE  /\ r \in Int /\ r >= -1
           /\ at = "open0" => r \in {-1, 0}
           /\ at = "open1" => r \in {-1, 1}
           /\ at = "end" => r \in {-1, Len(source)}
           /\ at = "rewind" => r \in {-1, 0}
           /\ at = "read" => /\ call.n \in 0..IntMax /\ r <= call.n + 1
                             /\ r <= call.n => r <= Len(source) - total \/ r <= 0
           /\ at = "write" => call.n \in 1..IntMax /\ r <= call.n + 1
           /\ at = "dread" => r \in {-1, 0, 1} /\ (r = 1 => left > 0) /\ (r = 0 => left = 0)
           /\ ServedOp \in {"read", "write", "lseek"} /\ at \notin CopyPlaces => r = -1
<1>1. TypeOK /\ PlaceInv /\ CallInv /\ CopyInv
  BY DEF Inv
<1>2. Before
  BY DEF Before
<1>3. /\ at \in CopyPlaces \cup ListPlaces \cup {"single"} /\ call = [op |-> OpAt, n |-> CountAt]
      /\ at \in CopyPlaces => ServerSide = SideAt /\ ServedOp = OpAt
      /\ at \in ListPlaces => ServedOp = at
      /\ at \notin CopyPlaces => ServerSide = 1 /\ 1 \notin held
  BY ServerPlace
<1>4. Len(source) \in Nat /\ pos \in Nat /\ left \in Nat
  BY <1>1, Bounds DEF TypeOK
<1>5. at = "read" => call.n \in 0..IntMax
  <2>1. at = "read" => call.n = (IF size - total < Buffer THEN size - total ELSE Buffer)
    BY <1>3 DEF CountAt, Smaller
  <2>2. at = "read" => total <= size /\ total \in Nat /\ size \in Int /\ size <= IntMax
    BY <1>1, Bounds DEF CopyInv, TypeOK
  <2> QED
    BY <2>1, <2>2, Bounds
<1>6. at = "write" => call.n \in 1..IntMax
  <2>1. at = "write" => call.n = bytes - sent
    BY <1>3 DEF CountAt
  <2>2. at = "write" => /\ sent < bytes /\ total + bytes <= size /\ total \in Nat /\ sent \in Nat
                        /\ bytes \in Nat /\ size \in Int /\ size <= IntMax
    BY <1>1, Bounds DEF CopyInv, TypeOK
  <2> QED
    BY <2>1, <2>2, Bounds
<1>7. CASE at \in {"open0", "open1"}
  <2>1. ServedOp = "open" /\ ServerSide = (IF at = "open0" THEN 0 ELSE 1)
    BY <1>3, <1>7 DEF OpAt, SideAt, CopyPlaces
  <2>2. r \in {-1, ServerSide}
    BY <2>1 DEF ServerResults, Results
  <2> QED
    BY <1>7, <2>1, <2>2
<1>8. CASE at \in {"end", "rewind"}
  <2>1. ServedOp = "lseek" /\ call.n = (IF at = "end" THEN 2 ELSE 0)
    BY <1>3, <1>8 DEF OpAt, CountAt, CopyPlaces, LSEEK_END
  <2>2. r \in {-1, IF call.n = 2 THEN Len(source) ELSE 0}
    BY <2>1 DEF ServerResults, Results, LSEEK_END
  <2> QED
    BY <1>4, <1>8, <2>1, <2>2 DEF CopyPlaces
<1>9. CASE at = "read"
  <2>1. ServedOp = "read" /\ pos = total
    BY <1>1, <1>2, <1>3, <1>9 DEF OpAt, CopyPlaces, CopyInv
  <2>2. r \in {-1, 0} \cup 1..Smaller(call.n, Len(source) - pos) \cup {call.n + 1}
    BY <2>1 DEF ServerResults, Results
  <2>3. /\ r \in Int /\ r >= -1 /\ r <= call.n + 1
        /\ r <= call.n => r <= Len(source) - total \/ r <= 0
    BY <1>4, <1>5, <1>9, <2>1, <2>2 DEF Smaller
  <2> QED
    BY <1>5, <1>9, <2>3 DEF CopyPlaces
<1>10. CASE at = "write"
  <2>1. ServedOp = "write"
    BY <1>3, <1>10 DEF OpAt, CopyPlaces
  <2>2. r \in {-1, 0} \cup 1..call.n \cup {call.n + 1}
    BY <2>1 DEF ServerResults, Results
  <2>3. r \in Int /\ r >= -1 /\ r <= call.n + 1
    BY <1>6, <1>10, <2>2, Bounds
  <2> QED
    BY <1>6, <1>10, <2>3 DEF CopyPlaces
<1>11. CASE at \in {"close0", "close1"}
  <2>1. ServedOp = "close"
    BY <1>3, <1>11 DEF OpAt, CopyPlaces
  <2>2. r \in {-1, 0}
    BY <2>1 DEF ServerResults, Results
  <2> QED
    BY <1>11, <2>1, <2>2
<1>12. CASE at \in ListPlaces
  <2>1. ServedOp = at
    BY <1>3, <1>12
  <2>2. r \in (IF at = "dread" THEN {-1, IF left > 0 THEN 1 ELSE 0} ELSE {-1, 0})
    BY <1>12, <2>1 DEF ServerResults, Results, ListPlaces
  <2> QED
    BY <1>4, <1>12, <2>1, <2>2 DEF ListPlaces
<1>13. CASE at = "single"
  <2>1. /\ ServedOp \in {"read", "write", "lseek", "delete", "devlist", "mkdir", "rmdir"}
        /\ ServerSide \notin held
    BY <1>1, <1>3, <1>13 DEF ServedOp, OpAt, PlaceInv, Singles, CopyPlaces
  <2>2. /\ r \in {-1, 0}
        /\ ServedOp \in {"read", "write", "lseek"} => r = -1
    BY <2>1 DEF ServerResults, Results
  <2> QED
    BY <1>13, <2>2
<1> QED
  BY <1>3, <1>7, <1>8, <1>9, <1>10, <1>11, <1>12, <1>13 DEF CopyPlaces

\* The data that comes with a result.
LEMMA ServerData ==
    ASSUME Inv, phase = "reply", to # <<>>, link = "up", NEW r \in ServerResults(ServedOp, call.n)
    PROVE  /\ ReadData(r) \in Seq(Int)
           /\ ServedOp # "read" => ReadData(r) = <<>>
           /\ at = "read" /\ r \in 1..call.n =>
                Len(ReadData(r)) = r /\ \A i \in 1..r : ReadData(r)[i] = source[total + i]
<1>1. TypeOK /\ CopyInv /\ CallInv
  BY DEF Inv
<1>2. source \in Seq(Nat) /\ pos \in Nat /\ Len(source) \in Nat /\ total \in Nat
  BY <1>1, Bounds DEF TypeOK
<1>0. <<>> \in Seq(Int)
  OBVIOUS
<1>3. r \in Int /\ r >= -1
  BY ServerResultsAre
<1>4. CASE ServedOp # "read"
  <2>1. at # "read"
    BY <1>4, ServerPlace DEF CopyPlaces, OpAt
  <2>2. ReadData(r) = <<>>
    BY <1>4 DEF ReadData
  <2> QED
    BY <1>0, <1>4, <2>1, <2>2
<1>5. CASE ServedOp = "read" /\ at = "read"
  <2>1. pos = total /\ call.n \in 0..IntMax /\ (r <= call.n => r <= Len(source) - total \/ r <= 0)
    BY <1>1, <1>5, ServerResultsAre DEF CopyInv, Before
  <2>2. CASE r > call.n
    <3>1. ReadData(r) = [i \in 1..r |-> 0] /\ r \in Nat
      BY <1>3, <1>5, <2>1, <2>2, Bounds DEF ReadData
    <3>2. [i \in 1..r |-> 0] \in Seq(Int)
      BY <3>1
    <3>3. r \notin 1..call.n
      BY <1>3, <2>1, <2>2, Bounds
    <3> QED
      BY <1>5, <3>1, <3>2, <3>3
  <2>3. CASE ~(r > call.n) /\ r <= 0
    <3>1. ReadData(r) = SubSeq(source, pos + 1, pos + r)
      BY <1>5, <2>3 DEF ReadData, Piece
    <3>2. pos + r < pos + 1
      BY <1>2, <1>3, <2>3
    <3>3. SubSeq(source, pos + 1, pos + r) = <<>>
      BY <1>2, <1>3, <3>2, SubSeqEmpty
    <3>4. r \notin 1..call.n
      BY <1>3, <2>1, <2>3, Bounds
    <3> QED
      BY <1>0, <1>5, <3>1, <3>3, <3>4
  <2>4. CASE ~(r > call.n) /\ r > 0
    <3>1. ReadData(r) = SubSeq(source, pos + 1, pos + r)
      BY <1>5, <2>4 DEF ReadData, Piece
    <3>2. pos + 1 \in Int /\ pos + r \in Int /\ pos + r <= Len(source) /\ pos + 1 <= pos + r
      BY <1>2, <1>3, <2>1, <2>4, Bounds
    <3>3. \A i \in (pos + 1)..(pos + r) : source[i] \in Int
      BY <1>2, <3>2
    <3> DEFINE d == SubSeq(source, pos + 1, pos + r)
    <3>4. /\ d \in Seq(Int) /\ Len(d) = (pos + r) - (pos + 1) + 1
          /\ \A i \in 1..((pos + r) - (pos + 1) + 1) : d[i] = source[(pos + 1) + i - 1]
      BY <3>2, <3>3, SubSeqProperties
    <3> HIDE DEF d
    <3>5. (pos + r) - (pos + 1) + 1 = r
      BY <1>2, <1>3
    <3>6. ASSUME NEW i \in 1..r PROVE d[i] = source[total + i]
      <4>1. (pos + 1) + i - 1 = total + i
        BY <1>2, <1>3, <2>1
      <4> QED
        BY <3>4, <3>5, <4>1
    <3> QED
      BY <1>5, <3>1, <3>4, <3>5, <3>6 DEF d
  <2> QED
    BY <1>3, <2>1, <2>2, <2>3, <2>4, Bounds
<1>6. CASE ServedOp = "read" /\ at # "read"
  <2>1. r = -1 /\ call.n = 0
    <3>1. at \notin CopyPlaces
      BY <1>6, ServerPlace DEF CopyPlaces, OpAt
    <3> QED
      BY <1>6, <3>1, ServerPlace, ServerResultsAre
  <2>2. ~(r > call.n)
    BY <2>1
  <2>3. ReadData(r) = SubSeq(source, pos + 1, pos + r)
    BY <1>6, <2>2 DEF ReadData, Piece
  <2>4. pos + r < pos + 1 /\ pos + 1 \in Int /\ pos + r \in Int
    BY <1>2, <2>1
  <2>5. ReadData(r) = <<>>
    BY <2>3, <2>4, SubSeqEmpty
  <2> QED
    BY <1>0, <1>6, <2>5
<1> QED
  BY <1>4, <1>5, <1>6

\* A write extends the destination by what comes next in the source.
LEMMA Extended ==
    ASSUME Inv, at = "write", Before, NEW d, Len(d) = bytes - sent, d \in Seq(Int),
           \A i \in 1..(bytes - sent) : d[i] = buffer[sent + i], NEW m \in 1..(bytes - sent)
    PROVE  LET e == dest \o SubSeq(d, 1, m)
           IN  /\ e \in Seq(Nat) /\ Len(e) = total + sent + m /\ Len(e) <= size /\ Len(e) <= Len(source)
               /\ \A i \in 1..Len(e) : e[i] = source[i]
               /\ e = dest \o SubSeq(source, Len(dest) + 1, Len(dest) + m)
<1>1. TypeOK /\ CopyInv
  BY DEF Inv
<1>2. /\ sent < bytes /\ total + bytes <= size /\ Len(dest) = total + sent /\ dest # Old
      /\ \A i \in 1..bytes : buffer[i] = source[total + i]
      /\ \A i \in 1..Len(dest) : dest[i] = source[i]
      /\ size = AsInt(Len(source))
  BY <1>1 DEF CopyInv
<1>3. /\ sent \in Nat /\ bytes \in Nat /\ total \in Nat /\ size \in Int /\ m \in Nat
      /\ source \in Seq(Nat) /\ dest \in Seq(Nat) /\ Len(source) \in Nat
  BY <1>1, Bounds DEF TypeOK
<1>4. size <= Len(source)
  BY <1>2, <1>3, Ints
<1> DEFINE p == SubSeq(source, Len(dest) + 1, Len(dest) + m)
           q == SubSeq(d, 1, m)
<1>5. total + sent + m <= size /\ m <= bytes - sent /\ m >= 1
  BY <1>2, <1>3
<1>6. /\ p \in Seq(Nat) /\ Len(p) = m /\ \A i \in 1..m : p[i] = source[(total + sent) + i]
  <2> DEFINE a == Len(dest) + 1
             z == Len(dest) + m
  <2>1. a \in Int /\ z \in Int /\ a <= z /\ z <= Len(source) /\ a >= 1 /\ z - a + 1 = m
    BY <1>2, <1>3, <1>4, <1>5
  <2>2. a = total + sent + 1
    BY <1>2
  <2> HIDE DEF a, z
  <2>3. \A i \in a..z : source[i] \in Nat
    BY <1>3, <2>1
  <2>4. /\ SubSeq(source, a, z) \in Seq(Nat) /\ Len(SubSeq(source, a, z)) = z - a + 1
        /\ \A i \in 1..(z - a + 1) : SubSeq(source, a, z)[i] = source[a + i - 1]
    BY <2>1, <2>3, SubSeqProperties
  <2>5. ASSUME NEW i \in 1..m PROVE SubSeq(source, a, z)[i] = source[(total + sent) + i]
    <3>1. a + i - 1 = (total + sent) + i
      BY <1>3, <2>2
    <3> QED
      BY <2>1, <2>4, <3>1
  <2> QED
    BY <2>1, <2>4, <2>5 DEF a, z
<1>7. q = p
  <2>1. q \in Seq(Int) /\ Len(q) = m /\ \A i \in 1..m : q[i] = d[i]
    BY <1>3, <1>5
  <2>2. ASSUME NEW i \in 1..m PROVE q[i] = p[i]
    <3>1. i \in 1..(bytes - sent) /\ sent + i \in 1..bytes /\ total + (sent + i) = (total + sent) + i
      BY <1>3, <1>5
    <3>2. d[i] = source[total + (sent + i)]
      BY <1>2, <3>1
    <3> QED
      BY <1>6, <2>1, <3>1, <3>2
  <2>3. p \in Seq(Int)
    BY <1>6
  <2> HIDE DEF p, q
  <2> QED
    BY <1>6, <2>1, <2>2, <2>3, SeqEqual
<1> HIDE DEF p, q
<1> DEFINE e == dest \o p
<1>8. e \in Seq(Nat) /\ Len(e) = total + sent + m
  <2>1. dest \in Seq(Nat) /\ p \in Seq(Nat)
    BY <1>3, <1>6
  <2>2. Len(e) = Len(dest) + Len(p) /\ e \in Seq(Nat)
    BY <2>1
  <2> QED
    BY <1>2, <1>6, <2>2
<1>9. ASSUME NEW i \in 1..(total + sent + m) PROVE e[i] = source[i]
  <2>1. CASE i <= total + sent
    <3>1. i \in 1..Len(dest)
      BY <1>2, <1>3, <2>1
    <3>2. e[i] = dest[i]
      BY <1>3, <1>6, <3>1
    <3> QED
      BY <1>2, <3>1, <3>2
  <2>2. CASE i > total + sent
    <3>1. i - (total + sent) \in 1..m /\ (total + sent) + (i - (total + sent)) = i
      BY <1>3, <2>2
    <3>2. dest \in Seq(Nat) /\ p \in Seq(Nat)
      BY <1>3, <1>6
    <3>3. i \in 1..(Len(dest) + Len(p)) /\ i > Len(dest) /\ i - Len(dest) = i - (total + sent)
      BY <1>2, <1>3, <1>6, <2>2
    <3>4. e[i] = p[i - Len(dest)]
      <4>1. (dest \o p)[i] = IF i <= Len(dest) THEN dest[i] ELSE p[i - Len(dest)]
        BY <3>2, <3>3, ConcatProperties
      <4>2. ~(i <= Len(dest))
        BY <3>2, <3>3
      <4> QED
        BY <4>1, <4>2
    <3> QED
      BY <1>6, <3>1, <3>3, <3>4
  <2>3. i <= total + sent \/ i > total + sent
    BY <1>3
  <2> QED
    BY <2>1, <2>2, <2>3
<1>10. total + sent + m <= Len(source)
  BY <1>3, <1>4, <1>5
<1>11. dest \o SubSeq(d, 1, m) = e /\ e = dest \o SubSeq(source, Len(dest) + 1, Len(dest) + m)
  BY <1>7 DEF p, q
<1> HIDE DEF e
<1> QED
  BY <1>5, <1>8, <1>9, <1>10, <1>11

\* What the server does to the files, by place.
LEMMA ServerFiles ==
    ASSUME Inv, phase = "reply", to # <<>>, link = "up", NEW r, Performs(r)
    PROVE  /\ source' = source
           /\ \A s \in held' : \/ s \in held /\ ~(s = ServerSide /\ at = CloseAt(s))
                               \/ s = ServerSide /\ at = OpenAt(s) /\ OnPs2(s) /\ r >= 0
           /\ held' \subseteq {0, 1}
           /\ at \notin {"open1", "write"} => dest' = dest
           /\ at = "open1" => dest' = (IF r >= 0 THEN <<>> ELSE dest)
           /\ at = "write" => dest' = (IF r > 0 THEN dest \o SubSeq(WriteData, 1, Smaller(r, Len(WriteData)))
                                       ELSE dest)
           /\ at \notin {"end", "rewind", "read"} => pos' = pos
           /\ at \in {"end", "rewind"} => pos' = (IF r >= 0 THEN r ELSE pos)
           /\ at = "read" => pos' = (IF r > 0 THEN pos + r ELSE pos)
<1>1. r \in ServerResults(ServedOp, call.n) /\ FileOp(ServedOp, ServerSide, WriteData, r)
  BY DEF Performs
<1>2. /\ at \in CopyPlaces \cup ListPlaces \cup {"single"}
      /\ at \in CopyPlaces => ServerSide = SideAt /\ OnPs2(SideAt) /\ ServedOp = OpAt
      /\ at \notin CopyPlaces => ServerSide = 1
      /\ ServedOp \in {"open", "close"} => at \in CopyPlaces
  BY ServerPlace
<1>3. /\ r \in Int /\ r >= -1
      /\ ServedOp \in {"read", "write", "lseek"} /\ at \notin CopyPlaces => r = -1
  BY <1>1, ServerResultsAre
<1>4. held \subseteq {0, 1}
  BY DEF Inv, TypeOK
<1>5. source' = source
  BY <1>1 DEF FileOp
<1>6. /\ held' = (IF ServedOp = "open" /\ r >= 0 THEN held \cup {ServerSide}
                  ELSE IF ServedOp = "close" THEN held \ {ServerSide} ELSE held)
      /\ dest' = (IF ServedOp = "open" /\ r >= 0 /\ ServerSide = 1 THEN <<>>
                  ELSE IF ServedOp = "write" /\ r > 0
                    THEN dest \o SubSeq(WriteData, 1, Smaller(r, Len(WriteData)))
                  ELSE dest)
      /\ pos' = (IF ServedOp = "lseek" /\ r >= 0 THEN r
                 ELSE IF ServedOp = "read" /\ r > 0 THEN pos + r ELSE pos)
  BY <1>1 DEF FileOp
<1>7. CASE at \notin CopyPlaces
  <2>1. ServedOp \notin {"open", "close"}
    BY <1>2, <1>7
  <2>2. ~(ServedOp = "write" /\ r > 0) /\ ~(ServedOp = "lseek" /\ r >= 0) /\ ~(ServedOp = "read" /\ r > 0)
    BY <1>3, <1>7
  <2>3. held' = held /\ dest' = dest /\ pos' = pos
    BY <1>6, <2>1, <2>2
  <2>4. \A s : at # CloseAt(s)
    BY <1>7 DEF CloseAt, CopyPlaces
  <2> QED
    BY <1>4, <1>5, <1>7, <2>3, <2>4 DEF CopyPlaces
<1>8. CASE at \in CopyPlaces
  <2>1. ServerSide = SideAt /\ OnPs2(SideAt) /\ ServedOp = OpAt /\ SideAt \in {0, 1}
    BY <1>2, <1>8 DEF SideAt
  <2>2. /\ ServedOp = "open" <=> at \in {"open0", "open1"}
        /\ ServedOp = "close" <=> at \in {"close0", "close1"}
        /\ ServedOp = "lseek" <=> at \in {"end", "rewind"}
        /\ ServedOp = "read" <=> at = "read"
        /\ ServedOp = "write" <=> at = "write"
    BY <1>8, <2>1 DEF OpAt, CopyPlaces
  <2>3. /\ at = "open0" => ServerSide = 0
        /\ at = "open1" => ServerSide = 1
        /\ at = "close0" => ServerSide = 0
        /\ at = "close1" => ServerSide = 1
    BY <2>1 DEF SideAt
  <2>4. held' \subseteq {0, 1}
    BY <1>4, <1>6, <2>1
  <2>5. ASSUME NEW s \in held'
        PROVE  \/ s \in held /\ ~(s = ServerSide /\ at = CloseAt(s))
               \/ s = ServerSide /\ at = OpenAt(s) /\ OnPs2(s) /\ r >= 0
    BY <1>6, <2>1, <2>2, <2>3, <2>5 DEF CloseAt, OpenAt
  <2>6. /\ at \notin {"open1", "write"} => dest' = dest
        /\ at = "open1" => dest' = (IF r >= 0 THEN <<>> ELSE dest)
        /\ at = "write" => dest' = (IF r > 0 THEN dest \o SubSeq(WriteData, 1, Smaller(r, Len(WriteData)))
                                    ELSE dest)
    BY <1>6, <2>2, <2>3
  <2>7. /\ at \notin {"end", "rewind", "read"} => pos' = pos
        /\ at \in {"end", "rewind"} => pos' = (IF r >= 0 THEN r ELSE pos)
        /\ at = "read" => pos' = (IF r > 0 THEN pos + r ELSE pos)
    BY <1>6, <2>2
  <2> QED
    BY <1>5, <2>4, <2>5, <2>6, <2>7
<1> QED
  BY <1>7, <1>8

\* What a response tells, once the call has been performed.
LEMMA ServerAnswers ==
    ASSUME Inv, Serve, phase = "reply", NEW r, Performs(r)
    PROVE  /\ from' \in Seq(Cells)
           /\ Aligned => /\ Told' /\ Answer[2].t' = "result" /\ Result' = AsInt(r)
                         /\ Len(Answer)' = ResponseLength(ServedOp) + Len(ReadData(r))
                         /\ ResponseLength(ServedOp) = 3 =>
                              \A i \in 4..Len(Answer)' : Answer[i].v' = ReadData(r)[i - 3]
<1>1. /\ link = "up" /\ to # <<>> /\ r \in ServerResults(ServedOp, call.n)
      /\ from' = from \o Response(ServedOp, r, ReadData(r)) /\ got' = got
  BY ServeFacts DEF Performs, Serve, rpc
<1>2. r \in Int /\ ReadData(r) \in Seq(Int)
  BY <1>1, ServerResultsAre, ServerData
<1> DEFINE R == Response(ServedOp, r, ReadData(r))
<1>3. /\ R \in Seq(Cells) /\ Len(R) = ResponseLength(ServedOp) + Len(ReadData(r))
      /\ R[2].t = "result" /\ R[2].v = AsInt(r)
      /\ ResponseLength(ServedOp) = 3 => \A i \in 4..Len(R) : R[i].v = ReadData(r)[i - 3]
  BY <1>2, Responses
<1>4. from' = from \o R
  BY <1>1
<1> HIDE DEF R
<1>5. from \in Seq(Cells)
  BY DEF Inv, TypeOK
<1>6. from' \in Seq(Cells)
  BY <1>3, <1>4, <1>5
<1>7. ASSUME Aligned
      PROVE  Answer' = R
  <2>1. from = <<>> /\ got = <<>>
    BY <1>1, <1>7 DEF Inv, AnswerInv, Before
  <2>2. from' = R
    BY <1>3, <1>4, <2>1, ConcatEmptySeq
  <2> QED
    BY <1>1, <1>3, <2>1, <2>2, ConcatEmptySeq DEF Answer
<1>8. Len(ReadData(r)) \in Nat /\ ResponseLength(ServedOp) \in {2, 3}
  BY <1>2, Lengths2
<1>9. Len(R) >= 2
  BY <1>3, <1>8
<1> QED
  BY <1>3, <1>6, <1>7, <1>9 DEF Told, Result

\* The result that is told is the result there was, unless it says nothing.
LEMMA ServerTells ==
    ASSUME Inv, phase = "reply", to # <<>>, link = "up", NEW r \in ServerResults(ServedOp, call.n)
    PROVE  /\ at \in {"open0", "open1", "rewind", "dread"} => AsInt(r) = r
           /\ at = "end" => AsInt(r) \in {-1, AsInt(Len(source))}
           /\ at \in {"read", "write"} /\ AsInt(r) \in 1..call.n => AsInt(r) = r
<1>1. /\ r \in Int /\ r >= -1
      /\ at = "open0" => r \in {-1, 0}
      /\ at = "open1" => r \in {-1, 1}
      /\ at = "end" => r \in {-1, Len(source)}
      /\ at = "rewind" => r \in {-1, 0}
      /\ at = "read" => call.n \in 0..IntMax /\ r <= call.n + 1
      /\ at = "write" => call.n \in 1..IntMax /\ r <= call.n + 1
      /\ at = "dread" => r \in {-1, 0, 1}
  BY ServerResultsAre
<1>2. /\ r \in -1..IntMax => AsInt(r) = r
      /\ r \in 0..(2 * IntMax + 1) /\ AsInt(r) >= 0 => AsInt(r) = r
      /\ AsInt(r) \in Int
  BY <1>1, Ints, Bounds
<1>3. at \in {"open0", "open1", "rewind", "dread"} => r \in -1..IntMax
  BY <1>1, Bounds
<1>4. at = "end" => AsInt(r) \in {-1, AsInt(Len(source))}
  <2>1. r = -1 => r \in -1..IntMax
    BY Bounds
  <2> QED
    BY <1>1, <1>2, <2>1
<1>5. ASSUME at \in {"read", "write"}, AsInt(r) \in 1..call.n PROVE AsInt(r) = r
  <2>1. r # -1 => r \in 0..(2 * IntMax + 1)
    BY <1>1, <1>5, Bounds
  <2>2. r = -1 => r \in -1..IntMax
    BY Bounds
  <2>3. AsInt(r) >= 0 /\ AsInt(r) # -1
    BY <1>1, <1>5, Bounds
  <2> QED
    BY <1>2, <2>1, <2>2, <2>3
<1> QED
  BY <1>2, <1>3, <1>4, <1>5

\* The source numbers its cells from 1, so that none of them is what was at the destination.
LEMMA NotOld ==
    ASSUME source = File(Len(source)), source \in Seq(Nat), NEW e, e \in Seq(Nat), Len(e) >= 1,
           Len(e) <= Len(source), \A i \in 1..Len(e) : e[i] = source[i]
    PROVE  e # Old
<1>1. Len(source) \in Nat /\ Len(e) \in Nat
  OBVIOUS
<1>2. 1 \in 1..Len(e) /\ 1 \in 1..Len(source)
  BY <1>1
<1>3. source[1] = 1
  BY <1>2 DEF File
<1>4. e[1] = 1
  BY <1>2, <1>3
<1>5. Old[1] = 0
  BY DEF Old
<1> QED
  BY <1>4, <1>5

\* A write by the server.
LEMMA ServerWrites ==
    ASSUME Inv, phase = "reply", to # <<>>, link = "up", NEW r, Performs(r), at = "write", r > 0
    PROVE  LET m == Smaller(r, call.n)
           IN  /\ m \in 1..call.n /\ dest' \in Seq(Nat) /\ Len(dest') = total + sent + m
               /\ Len(dest') <= Len(source) /\ dest' # Old
               /\ \A i \in 1..Len(dest') : dest'[i] = source[i]
               /\ dest' = dest \o SubSeq(source, Len(dest) + 1, Len(dest) + m)
<1>1. r \in ServerResults(ServedOp, call.n) /\ Before
  BY DEF Performs, Before
<1>2. r \in Int /\ call.n \in 1..IntMax /\ r <= call.n + 1
  BY <1>1, ServerResultsAre
<1>3. call.op = "write" /\ call.n = bytes - sent
  BY ServerPlace DEF CopyPlaces, OpAt, CountAt
<1>4. /\ buffer \in Seq(Int) /\ sent \in Nat /\ bytes \in Nat /\ total \in Nat
      /\ bytes = Len(buffer) /\ sent < bytes
      /\ source = File(Len(source)) /\ source \in Seq(Nat)
  BY DEF Inv, TypeOK, CopyInv
<1> DEFINE d == WriteData
           m == Smaller(r, call.n)
<1>5. d = [i \in 1..(bytes - sent) |-> buffer[sent + i]]
  BY <1>3 DEF WriteData
<1>6. bytes - sent \in Nat /\ \A i \in 1..(bytes - sent) : buffer[sent + i] \in Int
  BY <1>4
<1>7. d \in Seq(Int) /\ Len(d) = bytes - sent /\ \A i \in 1..(bytes - sent) : d[i] = buffer[sent + i]
  <2> HIDE DEF d
  <2>1. d \in [1..(bytes - sent) -> Int]
    BY <1>5, <1>6
  <2> QED
    BY <1>5, <1>6, <2>1
<1>8. m \in 1..call.n
  BY <1>2, Bounds DEF Smaller
<1>9. dest' = dest \o SubSeq(d, 1, m)
  <2>1. Len(d) = call.n
    BY <1>3, <1>7
  <2>2. dest' = dest \o SubSeq(WriteData, 1, Smaller(r, Len(WriteData)))
    BY ServerFiles
  <2> QED
    BY <2>1, <2>2
<1> HIDE DEF d, m
<1>10. m \in 1..(bytes - sent)
  BY <1>3, <1>8
<1>11. /\ dest' \in Seq(Nat) /\ Len(dest') = total + sent + m /\ Len(dest') <= Len(source)
       /\ \A i \in 1..Len(dest') : dest'[i] = source[i]
       /\ dest' = dest \o SubSeq(source, Len(dest) + 1, Len(dest) + m)
  BY <1>1, <1>7, <1>9, <1>10, Extended
<1>12. Len(dest') >= 1
  <2>1. total + sent + m >= 1
    BY <1>4, <1>10
  <2> QED
    BY <1>11, <2>1
<1>13. dest' # Old
  BY <1>4, <1>11, <1>12, NotOld
<1> QED
  BY <1>8, <1>11, <1>13 DEF m

LEMMA ServeReplyKeeps ==
    ASSUME Inv, Serve, phase = "reply"
    PROVE  Inv'
<1>1. /\ link = "up" /\ to # <<>> /\ to' = <<>>
      /\ UNCHANGED <<cmd, name, at, status, fd0, fd1, size, total, bytes, sent, files>>
      /\ UNCHANGED <<phase, call, ret, out, got, need, buffer, link>>
  BY ServeFacts DEF Serve, client, line, copying, rpc
<1>2. TypeOK /\ PlaceInv /\ CallInv /\ ToInv /\ AnswerInv /\ CopyInv /\ HeldInv /\ ListInv
  BY DEF Inv
<1>3. PICK r : Performs(r)
  BY ServeFacts
<1>4. /\ r \in ServerResults(ServedOp, call.n) /\ r \in Int /\ r >= -1
      /\ left' = (IF ServedOp = "dread" /\ r > 0 THEN left - 1 ELSE left)
      /\ cut' = (cut \/ (ServedOp = "dread" /\ r < 0))
  <2>1. r \in ServerResults(ServedOp, call.n)
    BY <1>3 DEF Performs
  <2> QED
    BY <1>1, <1>3, <2>1, ServerResultsAre DEF Performs
<1>5. Before /\ ~Before' /\ Aligned' = Aligned
  BY <1>1 DEF Before, Aligned
<1>6. /\ source' = source /\ held' \subseteq {0, 1}
      /\ at \notin {"open1", "write"} => dest' = dest
      /\ at = "open1" => dest' = (IF r >= 0 THEN <<>> ELSE dest)
      /\ at = "write" /\ ~(r > 0) => dest' = dest
      /\ at \notin {"end", "rewind", "read"} => pos' = pos
      /\ at \in {"end", "rewind"} => pos' = (IF r >= 0 THEN r ELSE pos)
      /\ at = "read" => pos' = (IF r > 0 THEN pos + r ELSE pos)
  BY <1>1, <1>3, ServerFiles
<1>7. at = "write" /\ r > 0 =>
        /\ Smaller(r, call.n) \in 1..call.n /\ dest' \in Seq(Nat)
        /\ Len(dest') = total + sent + Smaller(r, call.n)
        /\ Len(dest') <= Len(source) /\ dest' # Old /\ \A i \in 1..Len(dest') : dest'[i] = source[i]
  BY <1>1, <1>3, ServerWrites
<1>8. /\ at \in CopyPlaces \cup ListPlaces \cup {"single"} /\ call = [op |-> OpAt, n |-> CountAt]
      /\ at \in ListPlaces => ServedOp = at
      /\ at \in CopyPlaces => ServerSide = SideAt /\ OnPs2(SideAt) /\ ServedOp = OpAt
      /\ ServedOp = "dread" => at = "dread"
  BY <1>1, ServerPlace
<1>9. ServedOp = "dread" /\ r > 0 => left > 0 /\ r = 1
  BY <1>1, <1>4, <1>8, ServerResultsAre
<1>10. from' \in Seq(Cells)
  BY <1>3, ServerAnswers
<1>11. TypeOK'
  <2>1. dest' \in Seq(Nat)
    <3>1. <<>> \in Seq(Nat) /\ dest \in Seq(Nat)
      BY <1>2 DEF TypeOK
    <3> QED
      BY <1>6, <1>7, <3>1
  <2>2. pos' \in Nat
    <3>1. pos \in Nat
      BY <1>2 DEF TypeOK
    <3> QED
      BY <1>4, <1>6, <3>1
  <2>3. left' \in 0..Entries /\ cut' \in BOOLEAN
    <3>1. left \in 0..Entries /\ cut \in BOOLEAN
      BY <1>2 DEF TypeOK
    <3>2. left' \in 0..Entries
      BY <1>4, <1>9, <3>1, Bounds
    <3>3. cut' \in BOOLEAN
      BY <1>4, <3>1
    <3> QED
      BY <3>2, <3>3
  <2>4. to' \in Seq(Cells)
    BY <1>1
  <2> QED
    BY <1>1, <1>2, <1>6, <1>10, <2>1, <2>2, <2>3, <2>4 DEF TypeOK
<1>12. PlaceInv'
  BY <1>1, <1>2 DEF PlaceInv
<1>13. CallInv'
  <2>1. Remote' = Remote /\ OpAt' = OpAt /\ CountAt' = CountAt
    BY <1>1 DEF Remote, SideAt, OnPs2, OpAt, CountAt
  <2> QED
    BY <1>1, <1>2, <2>1 DEF CallInv
<1>14. ToInv'
  BY <1>1 DEF ToInv
<1>15. ASSUME Aligned
       PROVE  /\ Told' /\ Answer[2].t' = "result" /\ Result' = AsInt(r)
              /\ Len(Answer)' = ResponseLength(ServedOp) + Len(ReadData(r))
              /\ ResponseLength(ServedOp) = 3 =>
                   \A i \in 4..Len(Answer)' : Answer[i].v' = ReadData(r)[i - 3]
  BY <1>3, <1>15, ServerAnswers
<1>16. /\ at \in {"open0", "open1", "rewind", "dread"} => AsInt(r) = r
       /\ at = "end" => AsInt(r) \in {-1, AsInt(Len(source))}
       /\ at \in {"read", "write"} /\ AsInt(r) \in 1..call.n => AsInt(r) = r
  BY <1>1, <1>4, ServerTells
<1>17. Outcome(AsInt(r))'
  <2>0. AsInt(r)' = AsInt(r) /\ AsInt(Len(source))' = AsInt(Len(source))
    BY <1>3, <1>6 DEF AsInt
  <2>1. at = "open0" => AsInt(r) \in {-1, 0}
    BY <1>1, <1>4, <1>16, ServerResultsAre
  <2>2. at = "open1" => AsInt(r) \in {-1, 1} /\ (AsInt(r) = 1 => dest' = <<>>)
    <3>1. at = "open1" => r \in {-1, 1}
      BY <1>1, <1>4, ServerResultsAre
    <3> QED
      BY <1>6, <1>16, <3>1
  <2>3. at = "rewind" => AsInt(r) < 0 \/ pos' = 0
    <3>1. at = "rewind" => r \in {-1, 0}
      BY <1>1, <1>4, ServerResultsAre
    <3> QED
      BY <1>6, <1>16, <3>1
  <2>4. at = "read" /\ AsInt(r) \in 1..call.n => pos' = total + AsInt(r) /\ pos' <= Len(source)
    <3> SUFFICES ASSUME at = "read", AsInt(r) \in 1..call.n
                 PROVE  pos' = total + r /\ pos' <= Len(source)
      BY <1>16
    <3>1. r \in 1..call.n
      BY <1>16
    <3>2. call.n \in 0..IntMax /\ (r <= call.n => r <= Len(source) - total \/ r <= 0)
      BY <1>1, <1>4, ServerResultsAre
    <3>3. pos = total /\ total \in Nat /\ Len(source) \in Nat
      BY <1>2, <1>5, Bounds DEF CopyInv, TypeOK
    <3>4. r > 0 /\ r <= call.n
      BY <1>4, <3>1, <3>2, Bounds
    <3>5. pos' = total + r
      BY <1>6, <3>3, <3>4
    <3> QED
      BY <1>4, <3>2, <3>3, <3>4, <3>5
  <2>5. at = "write" /\ AsInt(r) \in 1..call.n => Len(dest') = total + sent + AsInt(r)
    <3> SUFFICES ASSUME at = "write", AsInt(r) \in 1..call.n
                 PROVE  Len(dest') = total + sent + r
      BY <1>16
    <3>1. r \in 1..call.n
      BY <1>16
    <3>2. call.n \in 1..IntMax
      BY <1>1, <1>4, ServerResultsAre
    <3>3. r > 0 /\ Smaller(r, call.n) = r
      BY <1>4, <3>1, <3>2, Bounds DEF Smaller
    <3> QED
      BY <1>7, <3>3
  <2>6. at = "dread" => /\ AsInt(r) \in {-1, 0, 1} /\ (AsInt(r) = -1 => cut')
                        /\ AsInt(r) = 0 => files = Entries
                        /\ AsInt(r) = 1 => files + 1 + left' = Entries
    <3> SUFFICES ASSUME at = "dread"
                 PROVE  /\ r \in {-1, 0, 1} /\ (r = -1 => cut')
                        /\ r = 0 => files = Entries
                        /\ r = 1 => files + 1 + left' = Entries
      BY <1>16
    <3>1. r \in {-1, 0, 1} /\ (r = 1 => left > 0) /\ (r = 0 => left = 0)
      BY <1>1, <1>4, ServerResultsAre
    <3>2. files + left = Entries /\ files \in Nat /\ left \in Nat
      BY <1>2, <1>5, Bounds DEF ListInv, TypeOK
    <3>3. ServedOp = "dread"
      BY <1>8 DEF ListPlaces
    <3>4. r = -1 => cut'
      <4>1. r = -1 => r < 0
        BY <1>4
      <4> QED
        BY <1>4, <3>3, <4>1
    <3>5. r = 1 => left' = left - 1
      <4>1. r = 1 => r > 0
        BY <1>4
      <4> QED
        BY <1>4, <3>3, <4>1
    <3>6. /\ r = 0 => files = Entries
          /\ r = 1 => files + 1 + left' = Entries
      BY <3>1, <3>2, <3>5, Bounds
    <3> QED
      BY <3>1, <3>4, <3>6
  <2> QED
    BY <1>1, <1>6, <1>16, <2>0, <2>1, <2>2, <2>3, <2>4, <2>5, <2>6 DEF Outcome
<1>18. AnswerInv'
  <2>1. ASSUME Aligned PROVE Told' => Answer[2].t' = "result" /\ Outcome(Result)'
    <3>1. Outcome(Result)'
      BY <1>15, <1>17, <2>1 DEF Outcome
    <3> QED
      BY <1>15, <2>1, <3>1
  <2>2. ASSUME Aligned, call.op # "read", at # "single" PROVE Len(Answer)' <= ResponseLength(call.op)
    <3>1. ServedOp = call.op
      BY <1>8, <2>2 DEF ListPlaces, OpAt
    <3>2. Len(ReadData(r)) = 0
      BY <1>1, <1>4, <2>2, <3>1, ServerData
    <3> QED
      BY <1>15, <2>2, <3>1, <3>2, Lengths2
  <2>3. ASSUME Aligned, call.op = "read", Told', Result' \in 1..call.n
        PROVE  /\ Len(Answer)' <= 3 + Result'
               /\ \A i \in 4..Len(Answer)' : Answer[i].v' = source[total + i - 3]
    <3>1. at = "read" /\ ServedOp = "read"
      BY <1>2, <1>8, <2>3 DEF OpAt, CopyPlaces, ListPlaces, PlaceInv, Singles
    <3>2. Result' = r /\ r \in 1..call.n
      BY <1>15, <1>16, <2>3, <3>1
    <3>3. Len(ReadData(r)) = r /\ \A i \in 1..r : ReadData(r)[i] = source[total + i]
      BY <1>1, <1>4, <3>1, <3>2, ServerData
    <3>4. ResponseLength(ServedOp) = 3
      BY <3>1 DEF ResponseLength
    <3>5. Len(Answer)' = 3 + r
      BY <1>15, <2>3, <3>3, <3>4
    <3>6. ASSUME NEW i \in 4..Len(Answer)' PROVE Answer[i].v' = source[total + i - 3]
      <4>1. i \in 4..(3 + r)
        BY <3>5
      <4>2. total \in Nat
        BY <1>2, Bounds DEF TypeOK
      <4>3. i - 3 \in 1..r /\ total + (i - 3) = total + i - 3
        BY <1>4, <4>1, <4>2
      <4>4. Answer[i].v' = ReadData(r)[i - 3]
        BY <1>15, <2>3, <3>4
      <4> QED
        BY <3>3, <4>3, <4>4
    <3>7. 3 + r <= 3 + r
      BY <1>4
    <3> QED
      BY <3>2, <3>5, <3>6, <3>7
  <2> QED
    BY <1>1, <1>5, <1>6, <2>1, <2>2, <2>3 DEF AnswerInv
<1>19. CopyInv'
  <2>1. dest' = Old \/ (Len(dest') <= Len(source) /\ \A i \in 1..Len(dest') : dest'[i] = source[i])
    <3>1. CASE dest' = dest
      BY <1>2, <3>1 DEF CopyInv
    <3>2. CASE dest' = <<>>
      <4>1. Len(source) \in Nat /\ Len(dest') = 0
        BY <1>2, <3>2 DEF TypeOK
      <4> QED
        BY <4>1
    <3> QED
      BY <1>6, <1>7, <3>1, <3>2
  <2>2. AsInt(Len(source))' = AsInt(Len(source)) /\ File(Len(source))' = File(Len(source))
    BY <1>6 DEF AsInt, File
  <2>3. at \in {"start", "open0", "end", "rewind"} \/ cmd \notin Copies => dest' = dest
    BY <1>2, <1>6 DEF PlaceInv, CopyPlaces
  <2>4. status = 0 => dest' = dest
    BY <1>2, <1>6 DEF PlaceInv
  <2>5. at \in {"read", "write"} => dest' # Old
    BY <1>2, <1>6, <1>7 DEF CopyInv
  <2> QED
    BY <1>1, <1>2, <1>5, <1>6, <2>1, <2>2, <2>3, <2>4, <2>5 DEF CopyInv
<1>20. HeldInv'
  <2> SUFFICES ASSUME NEW s \in held' PROVE
        \/ Fd(s) >= 0 /\ at \notin ClosedAt(s) /\ (at = CloseAt(s) => phase \in {"idle", "send"})
        \/ at = OpenAt(s) /\ OnPs2(s) /\ Told' /\ Result' >= 0
    BY <1>1 DEF HeldInv, OnPs2, Fd
  <2>1. \/ s \in held /\ ~(s = ServerSide /\ at = CloseAt(s))
        \/ s = ServerSide /\ at = OpenAt(s) /\ OnPs2(s) /\ r >= 0
    BY <1>1, <1>3, ServerFiles
  <2>2. s \in {0, 1}
    BY <1>6
  <2>3. CASE s \in held /\ ~(s = ServerSide /\ at = CloseAt(s))
    <3>1. OnPs2(s) /\ at \in ClosedAt(s) \cup {CloseAt(s)} => s = ServerSide /\ at = CloseAt(s)
      <4> HAVE OnPs2(s) /\ at \in ClosedAt(s) \cup {CloseAt(s)}
      <4>1. at \in {"close0", "close1"}
        BY <1>8, <2>2 DEF ClosedAt, CloseAt, CopyPlaces, ListPlaces
      <4>2. OnPs2(SideAt) /\ ServerSide = SideAt /\ SideAt = (IF at = "close1" THEN 1 ELSE 0)
        BY <1>8, <4>1 DEF CopyPlaces, SideAt
      <4>3. s = SideAt
        BY <2>2, <4>1, <4>2 DEF OnPs2
      <4> QED
        BY <2>2, <4>1, <4>2, <4>3 DEF ClosedAt, CloseAt
    <3> QED
      BY <1>1, <1>2, <2>3, <3>1 DEF HeldInv
  <2>4. CASE s = ServerSide /\ at = OpenAt(s) /\ OnPs2(s) /\ r >= 0
    <3>1. Aligned /\ at \in {"open0", "open1"}
      BY <2>4 DEF Aligned, OpenAt
    <3> QED
      BY <1>15, <1>16, <2>4, <3>1
  <2> QED
    BY <2>1, <2>3, <2>4
<1>21. ListInv'
  <2>1. left \in Nat /\ files \in Nat
    BY <1>2, Bounds DEF TypeOK
  <2>2. left' \in Int /\ left' <= left
    BY <1>4, <2>1
  <2>3. files + left <= Entries
    BY <1>2 DEF ListInv
  <2>4. files + left' <= Entries
    <3>1. \A a, b, c, d \in Int : b <= c /\ a + c <= d => a + b <= d
      OBVIOUS
    <3>2. files \in Int /\ left \in Int /\ Entries \in Int
      BY <2>1, Bounds
    <3> QED
      BY ONLY <2>2, <2>3, <3>1, <3>2
  <2>5. at \in {"start", "dopen"} => left' = left
    BY <1>4, <1>8
  <2>6. cut => cut'
    BY <1>4
  <2> QED
    BY <1>1, <1>2, <1>5, <2>4, <2>5, <2>6 DEF ListInv
<1> QED
  BY <1>11, <1>12, <1>13, <1>14, <1>18, <1>19, <1>20, <1>21 DEF Inv

\* The server closes a file nobody waits for any more.
LEMMA ServeLateKeeps ==
    ASSUME Inv, Serve, phase # "reply"
    PROVE  Inv' /\ UNCHANGED <<source, dest>>
<1>1. /\ link = "up" /\ to' = <<>> /\ Late
      /\ UNCHANGED <<cmd, name, at, status, fd0, fd1, size, total, bytes, sent, files>>
      /\ UNCHANGED <<phase, call, ret, out, got, need, buffer, link>>
  BY ServeFacts DEF Serve, client, line, copying, rpc
<1>2. TypeOK /\ PlaceInv /\ CallInv /\ ToInv /\ AnswerInv /\ CopyInv /\ HeldInv /\ ListInv
  BY DEF Inv
<1>3. /\ cmd = "copyfrom" /\ status = -1 /\ call = [op |-> "close", n |-> 0]
      /\ at \in {"close0", "close1", "exit"} /\ ~Aligned
  BY <1>1 DEF Late, Aligned
<1>4. ServedOp = "close" /\ ServerSide = 0 /\ call.n = 0
  BY <1>3 DEF ServedOp, ServerSide
<1>5. PICK r : Performs(r)
  BY ServeFacts
<1>6. /\ source' = source /\ dest' = dest /\ pos' = pos /\ held' = held \ {0}
      /\ left' = left /\ cut' = cut
  <2>1. cut \in BOOLEAN
    BY <1>2 DEF TypeOK
  <2>2. cut' = cut
    BY <1>4, <1>5, <2>1 DEF Performs
  <2> QED
    BY <1>4, <1>5, <2>2 DEF Performs, FileOp
<1>7. from' \in Seq(Cells)
  <2>1. r \in {-1, 0}
    BY <1>4, <1>5 DEF Performs, ServerResults, Results
  <2>2. ReadData(r) = <<>>
    BY <1>4 DEF ReadData
  <2>3. r \in Int /\ <<>> \in Seq(Int)
    BY <2>1
  <2>4. Response(ServedOp, r, ReadData(r)) \in Seq(Cells)
    BY <2>2, <2>3, Responses
  <2>5. from \in Seq(Cells) /\ from' = from \o Response(ServedOp, r, ReadData(r))
    BY <1>2, <1>5 DEF TypeOK, Performs
  <2> QED
    BY <2>4, <2>5
<1>8. phase \in {"idle", "back"} /\ (phase = "back" => at \in {"close0", "close1"})
  <2>1. phase \in {"send", "data"} => Remote /\ at # "read"
    BY <1>2, <1>3 DEF CallInv
  <2>2. Remote => at = "close0"
    BY <1>3 DEF Remote, SideAt, OnPs2, ListPlaces, CopyPlaces
  <2>3. at = "close0" => phase = "back"
    BY <1>1 DEF Late
  <2>4. phase \in {"idle", "send", "data", "back"} /\ (at = "exit" => phase = "idle") /\ (phase = "data" => at = "read")
    BY <1>2 DEF TypeOK, CallInv
  <2> QED
    BY <1>3, <2>1, <2>2, <2>3, <2>4
<1>9. TypeOK'
  <2>1. to' \in Seq(Cells) /\ held' \subseteq {0, 1}
    BY <1>1, <1>2, <1>6 DEF TypeOK
  <2> QED
    BY <1>1, <1>2, <1>6, <1>7, <2>1 DEF TypeOK
<1>10. PlaceInv'
  BY <1>1, <1>2 DEF PlaceInv
<1>11. CallInv'
  <2>1. Remote' = Remote /\ OpAt' = OpAt /\ CountAt' = CountAt
    BY <1>1 DEF Remote, SideAt, OnPs2, OpAt, CountAt
  <2> QED
    BY <1>1, <1>2, <2>1 DEF CallInv
<1>12. ToInv'
  BY <1>1, <1>8 DEF ToInv
<1>13. AnswerInv'
  <2>1. ~Aligned'
    BY <1>1, <1>3 DEF Aligned
  <2> QED
    BY <1>1, <1>3, <1>8, <2>1 DEF AnswerInv
<1>14. CopyInv'
  <2>1. Before' <=> Before
    BY <1>1, <1>8 DEF Before
  <2> QED
    BY <1>1, <1>2, <1>3, <1>6, <2>1 DEF CopyInv
<1>15. HeldInv'
  <2> SUFFICES ASSUME NEW s \in held \ {0}
               PROVE  Fd(s) >= 0 /\ at \notin ClosedAt(s) /\ (at = CloseAt(s) => phase \in {"idle", "send"})
    BY <1>1, <1>6 DEF HeldInv, Fd
  <2>1. s = 1
    BY <1>2 DEF TypeOK
  <2>2. ~OnPs2(s) /\ at # OpenAt(s)
    BY <1>3, <2>1 DEF OnPs2, OpenAt
  <2> QED
    BY <1>2, <2>2 DEF HeldInv
<1>16. ListInv'
  BY <1>1, <1>2, <1>3, <1>6 DEF ListInv
<1> QED
  BY <1>6, <1>9, <1>10, <1>11, <1>12, <1>13, <1>14, <1>15, <1>16 DEF Inv

LEMMA ServeKeeps ==
    ASSUME Inv, Serve
    PROVE  Inv'
BY ServeReplyKeeps, ServeLateKeeps

----------------------------------------------------------------------------
(* fsclient makes a call.                                                  *)

\* A command in cells.
LEMMA Commands ==
    ASSUME NEW op \in Calls15, NEW path \in {"fits", "cut", "any"}, NEW n \in Int, NEW data \in Seq(Int)
    PROVE  LET c == <<Cell(Number[op], 0), Cell(path, n)>> \o DataCells(data)
           IN  /\ c \in Seq(Cells) /\ Len(c) = 2 + Len(data) /\ c # <<>> /\ <<>> \o c = c
               /\ c[1].t = Number[op] /\ c[2].t = path /\ c[2].v = n
               /\ \A i \in 1..Len(data) : c[2 + i].v = data[i]
<1> DEFINE h == <<Cell(Number[op], 0), Cell(path, n)>>
           d == DataCells(data)
<1>1. Cell(Number[op], 0) \in Cells /\ Cell(path, n) \in Cells
  <2>1. op \in DOMAIN Number
    BY DEF Calls15, Number
  <2> QED
    BY <2>1 DEF Cell, Cells
<1>2. h \in Seq(Cells) /\ Len(h) = 2 /\ h[1].t = Number[op] /\ h[2].t = path /\ h[2].v = n
  <2>1. h \in Seq(Cells) /\ Len(h) = 2 /\ h[1] = Cell(Number[op], 0) /\ h[2] = Cell(path, n)
    BY <1>1
  <2>2. Cell(Number[op], 0).t = Number[op] /\ Cell(path, n).t = path /\ Cell(path, n).v = n
    BY DEF Cell
  <2> HIDE DEF h
  <2> QED
    BY <2>1, <2>2
<1>3. d \in Seq(Cells) /\ Len(d) = Len(data) /\ \A i \in 1..Len(data) : d[i].v = data[i]
  <2>1. DOMAIN data = 1..Len(data) /\ Len(data) \in Nat
    OBVIOUS
  <2>2. d = [i \in 1..Len(data) |-> Cell("data", data[i])]
    BY <2>1 DEF DataCells
  <2>3. \A i \in 1..Len(data) : Cell("data", data[i]) \in Cells /\ Cell("data", data[i]).v = data[i]
    BY DEF Cell, Cells
  <2> HIDE DEF d
  <2>4. d \in [1..Len(data) -> Cells]
    BY <2>2, <2>3
  <2> QED
    BY <2>1, <2>2, <2>3, <2>4
<1>4. Len(data) \in Nat
  OBVIOUS
<1> HIDE DEF h, d
<1> DEFINE c == h \o d
<1>5. h \in Seq(Cells) /\ d \in Seq(Cells)
  BY <1>2, <1>3
<1>6. c \in Seq(Cells) /\ Len(c) = Len(h) + Len(d)
  BY <1>5
<1>7. \A i \in 1..(Len(h) + Len(d)) : c[i] = IF i <= Len(h) THEN h[i] ELSE d[i - Len(h)]
  BY <1>5, ConcatProperties
<1> HIDE DEF c
<1>8. Len(c) = 2 + Len(data)
  BY <1>2, <1>3, <1>6
<1>9. c # <<>> /\ <<>> \o c = c
  <2>1. c # <<>>
    BY <1>4, <1>6, <1>8
  <2> QED
    BY <1>6, <2>1, ConcatEmptySeq
<1>10. c[1] = h[1] /\ c[2] = h[2]
  <2>1. 1 \in 1..(Len(h) + Len(d)) /\ 2 \in 1..(Len(h) + Len(d)) /\ 1 <= Len(h) /\ 2 <= Len(h)
    BY <1>2, <1>3, <1>4
  <2> QED
    BY <1>7, <2>1
<1>11. ASSUME NEW i \in 1..Len(data) PROVE c[2 + i].v = data[i]
  <2>1. 2 + i \in 1..(Len(h) + Len(d)) /\ ~(2 + i <= Len(h)) /\ (2 + i) - Len(h) = i
    BY <1>2, <1>3, <1>4
  <2>2. c[2 + i] = d[i]
    BY <1>7, <2>1
  <2> QED
    BY <1>3, <2>2
<1> QED
  BY <1>2, <1>6, <1>8, <1>9, <1>10, <1>11 DEF c, h, d

\* Whoever makes a call finds the connection quiet.
LEMMA Quiet ==
    ASSUME Inv, phase = "idle", Remote
    PROVE  to = <<>> /\ at \notin {"start", "exit"} /\ link \in {"up", "closed"}
<1>1. TypeOK /\ PlaceInv /\ ToInv
  BY DEF Inv
<1>2. at \notin {"start", "exit"}
  BY DEF Remote, ListPlaces, CopyPlaces
<1>3. ~Late
  BY DEF Late, Remote, ListPlaces, CopyPlaces, SideAt, OnPs2
<1> QED
  BY <1>1, <1>2, <1>3 DEF TypeOK, PlaceInv, ToInv

LEMMA RpcKeeps ==
    ASSUME Inv, phase = "idle", Remote, NEW op, NEW path, NEW n, NEW data,
           Rpc(op, path, n, data), UNCHANGED client,
           op = OpAt, n = CountAt, path = (IF op \in PathOps THEN SentName ELSE "fits"),
           op = "write" <=> at = "write", data \in Seq(Int), Len(data) = (IF at = "write" THEN n ELSE 0),
           at = "write" => \A i \in 1..n : data[i] = buffer[sent + i]
    PROVE  Inv'
<1>1. /\ call' = [op |-> op, n |-> n] /\ phase' = "send" /\ got' = <<>> /\ need' = ResponseLength(op)
      /\ out' = <<Cell(Number[op], 0), Cell(path, n)>> \o DataCells(data)
      /\ UNCHANGED <<cmd, name, at, status, fd0, fd1, size, total, bytes, sent, files>>
      /\ UNCHANGED <<ret, buffer, link, to, from>>
      /\ UNCHANGED <<source, dest, held, pos, left, served, cut>>
  BY DEF Rpc, client, line, copying, server, disks, wire
<1>2. TypeOK /\ PlaceInv /\ CallInv /\ ToInv /\ AnswerInv /\ CopyInv /\ HeldInv /\ ListInv
  BY DEF Inv
<1>3. to = <<>> /\ at \notin {"start", "exit"} /\ link \in {"up", "closed"}
  BY Quiet
<1>4. op \in Calls15 /\ n \in Int /\ path \in {"fits", "cut", "any"}
  <2>1. op \in Calls15
    BY <1>2, <1>3 DEF OpAt, Calls15, PlaceInv, Singles, TypeOK, Labels
  <2>2. size \in Int /\ total \in Int /\ bytes \in Int /\ sent \in Int
    BY <1>2, Bounds DEF TypeOK
  <2>3. n \in Int
    BY <2>2, Bounds DEF CountAt, Smaller, LSEEK_END
  <2>4. path \in {"fits", "cut", "any"}
    BY <1>2 DEF SentName, PlaceInv
  <2> QED
    BY <2>1, <2>3, <2>4
<1>5. /\ out' \in Seq(Cells) /\ Len(out') = 2 + Len(data) /\ out' # <<>> /\ <<>> \o out' = out'
      /\ out'[1].t = Number[op] /\ out'[2].t = path /\ out'[2].v = n
      /\ \A i \in 1..Len(data) : out'[2 + i].v = data[i]
  BY <1>1, <1>4, Commands
<1>6. Before /\ Before' /\ Aligned' = Aligned
  BY <1>1 DEF Before, Aligned
<1>7. TypeOK'
  <2>1. need' \in Nat /\ got' \in Seq(Cells)
    BY <1>1, Lengths2
  <2> QED
    BY <1>1, <1>2, <1>5, <2>1 DEF TypeOK
<1>8. PlaceInv'
  BY <1>1, <1>2 DEF PlaceInv
<1>9. CallInv'
  <2>1. Remote' /\ OpAt' = OpAt /\ CountAt' = CountAt
    BY <1>1 DEF Remote, SideAt, OnPs2, OpAt, CountAt
  <2> QED
    BY <1>1, <1>3, <1>5, <2>1 DEF CallInv
<1>10. ToInv'
  <2>1. Asked' = out'
    BY <1>1, <1>3, <1>5 DEF Asked
  <2>2. call'.op = op /\ call'.n = n
    BY <1>1
  <2>3. Len(out') = 2 + (IF op = "write" THEN n ELSE 0)
    BY <1>5
  <2>4. op = "write" => \A i \in 1..n : out'[2 + i].v = buffer[sent + i]
    BY <1>5
  <2>5. IsCommand(Asked)'
    BY <1>1, <1>5, <2>1, <2>2, <2>3, <2>4 DEF IsCommand, SentName
  <2> QED
    BY <1>1, <1>3, <2>5 DEF ToInv
<1>11. AnswerInv'
  BY <1>1, <1>2, <1>6 DEF AnswerInv
<1>12. CopyInv'
  BY <1>1, <1>2, <1>6 DEF CopyInv
<1>13. HeldInv'
  BY <1>1, <1>2 DEF HeldInv, Fd, OnPs2
<1>14. ListInv'
  BY <1>1, <1>2, <1>6 DEF ListInv
<1> QED
  BY <1>7, <1>8, <1>9, <1>10, <1>11, <1>12, <1>13, <1>14 DEF Inv

\* ps2netfs_command_open refuses a pathname that is too long without a word to the server.
LEMMA RefusedKeeps ==
    ASSUME Inv, phase = "idle", at \in {"open0", "open1"}, OnPs2(SideAt),
           call' = [op |-> OpAt, n |-> CountAt], Return(-1),
           UNCHANGED <<client, out, got, need, buffer, wire, server>>
    PROVE  Inv'
<1>1. /\ phase' = "back" /\ ret' = -1
      /\ UNCHANGED <<cmd, name, at, status, fd0, fd1, size, total, bytes, sent, files>>
      /\ UNCHANGED <<out, got, need, buffer, link, to, from>>
      /\ UNCHANGED <<source, dest, held, pos, left, served, cut>>
  BY DEF Return, client, line, copying, server, disks, wire
<1>2. TypeOK /\ PlaceInv /\ CallInv /\ ToInv /\ AnswerInv /\ CopyInv /\ HeldInv /\ ListInv
  BY DEF Inv
<1>3. Before /\ ~Before' /\ Aligned /\ Aligned' /\ Remote
  BY <1>1 DEF Before, Aligned, Remote, CopyPlaces
<1>4. to = <<>> /\ from = <<>>
  BY <1>2, <1>3, Quiet DEF AnswerInv
<1>5. OpAt' = OpAt /\ CountAt' = CountAt /\ Remote'
  BY <1>1, <1>3 DEF Remote, SideAt, OnPs2, OpAt, CountAt
<1>6. TypeOK'
  BY <1>1, <1>2 DEF TypeOK
<1>7. PlaceInv'
  BY <1>1, <1>2 DEF PlaceInv
<1>8. CallInv'
  BY <1>1, <1>2, <1>5 DEF CallInv
<1>9. ToInv'
  BY <1>1, <1>4 DEF ToInv
<1>10. AnswerInv'
  <2>1. Outcome(-1)'
    BY <1>1 DEF Outcome
  <2>2. Outcome(ret)'
    BY <1>1, <2>1 DEF Outcome
  <2> QED
    BY <1>1, <1>3, <1>4, <2>2 DEF AnswerInv
<1>11. CopyInv'
  BY <1>1, <1>2, <1>3 DEF CopyInv
<1>12. HeldInv'
  BY <1>1, <1>2 DEF HeldInv, Fd, OnPs2, OpenAt, CloseAt, ClosedAt
<1>13. ListInv'
  BY <1>1, <1>2, <1>3 DEF ListInv
<1> QED
  BY <1>6, <1>7, <1>8, <1>9, <1>10, <1>11, <1>12, <1>13 DEF Inv

LEMMA FileCallKeeps ==
    ASSUME Inv, phase = "idle", at \in CopyPlaces, OnPs2(SideAt), NEW data,
           FileCall(OpAt, CountAt, data), UNCHANGED client,
           data \in Seq(Int), Len(data) = (IF at = "write" THEN CountAt ELSE 0),
           at = "write" => \A i \in 1..CountAt : data[i] = buffer[sent + i]
    PROVE  Inv'
<1>1. OpAt \in {"open", "lseek", "read", "write", "close"} /\ (OpAt = "write" <=> at = "write")
  BY DEF OpAt, CopyPlaces
<1>2. Remote
  BY DEF Remote
<1>3. CASE OpenRefuses(OpAt)
  <2>1. at \in {"open0", "open1"}
    BY <1>3 DEF OpenRefuses, OpAt, CopyPlaces
  <2>2. /\ call' = [op |-> OpAt, n |-> CountAt] /\ Return(-1)
        /\ UNCHANGED <<client, out, got, need, buffer, wire, server>>
    BY <1>3 DEF FileCall
  <2> QED
    BY <2>1, <2>2, RefusedKeeps
<1>4. CASE ~OpenRefuses(OpAt)
  <2>1. Rpc(OpAt, IF OpAt = "open" THEN SentName ELSE "fits", CountAt, data)
    BY <1>4 DEF FileCall
  <2>2. OpAt \in PathOps <=> OpAt = "open"
    BY <1>1 DEF PathOps
  <2>3. Rpc(OpAt, IF OpAt \in PathOps THEN SentName ELSE "fits", CountAt, data)
    BY <2>1, <2>2
  <2> QED
    BY <1>1, <1>2, <2>3, RpcKeeps
<1> QED
  BY <1>3, <1>4

\* The results a system call has, by place.
LEMMA LocalResults ==
    ASSUME Inv, phase = "idle", at \in CopyPlaces, NEW r \in Results(OpAt, SideAt, CountAt)
    PROVE  /\ r \in Int /\ r >= -1
           /\ at = "open0" => r \in {-1, 0}
           /\ at = "open1" => r \in {-1, 1}
           /\ at = "end" => r \in {-1, Len(source)}
           /\ at = "rewind" => r \in {-1, 0}
           /\ at = "read" => /\ pos = total /\ r <= CountAt /\ CountAt \in 0..Buffer
                             /\ r <= Len(source) - total \/ r <= 0
           /\ at = "write" => CountAt = bytes - sent /\ r <= bytes - sent
<1>1. TypeOK /\ CopyInv /\ Before
  BY DEF Inv, Before
<1>2. Len(source) \in Nat /\ pos \in Nat
  BY <1>1 DEF TypeOK
<1>3. CASE at \in {"open0", "open1"}
  <2>1. OpAt = "open" /\ SideAt = (IF at = "open0" THEN 0 ELSE 1)
    BY <1>3 DEF OpAt, SideAt
  <2>2. r \in {-1, SideAt}
    BY <2>1 DEF Results
  <2> QED
    BY <1>3, <2>1, <2>2
<1>4. CASE at \in {"end", "rewind"}
  <2>1. OpAt = "lseek" /\ CountAt = (IF at = "end" THEN 2 ELSE 0)
    BY <1>4 DEF OpAt, CountAt, LSEEK_END
  <2>2. r \in {-1, IF CountAt = 2 THEN Len(source) ELSE 0}
    BY <2>1 DEF Results, LSEEK_END
  <2> QED
    BY <1>2, <1>4, <2>1, <2>2
<1>5. CASE at = "read"
  <2>1. OpAt = "read" /\ pos = total
    BY <1>1, <1>5 DEF OpAt, CopyInv
  <2>2. r \in {-1, 0} \cup 1..Smaller(CountAt, Len(source) - pos)
    BY <2>1 DEF Results
  <2>3. total <= size /\ total \in Nat /\ size \in Int
    BY <1>1, <1>5, Bounds DEF CopyInv, TypeOK
  <2>4. CountAt = (IF size - total < Buffer THEN size - total ELSE Buffer)
    BY <1>5 DEF CountAt, Smaller
  <2>5. CountAt \in 0..Buffer
    BY <2>3, <2>4, Bounds
  <2>6. r \in Int /\ r >= -1 /\ r <= CountAt /\ (r <= Len(source) - total \/ r <= 0)
    BY <1>2, <2>1, <2>2, <2>5, Bounds DEF Smaller
  <2> QED
    BY <1>5, <2>1, <2>5, <2>6
<1>6. CASE at = "write"
  <2>1. OpAt = "write" /\ CountAt = bytes - sent
    BY <1>6 DEF OpAt, CountAt
  <2>2. r \in {-1, 0} \cup 1..(bytes - sent)
    BY <2>1 DEF Results
  <2>3. bytes \in Nat /\ sent \in Nat /\ sent < bytes
    BY <1>1, <1>6, Bounds DEF TypeOK, CopyInv
  <2>4. r \in Int /\ r >= -1 /\ r <= bytes - sent
    BY <2>2, <2>3
  <2> QED
    BY <1>6, <2>1, <2>4
<1>7. CASE at \in {"close0", "close1"}
  <2>1. OpAt = "close"
    BY <1>7 DEF OpAt
  <2>2. r \in {-1, 0}
    BY <2>1 DEF Results
  <2> QED
    BY <1>7, <2>2
<1> QED
  BY <1>3, <1>4, <1>5, <1>6, <1>7 DEF CopyPlaces

\* What read puts into the buffer.
LEMMA LocalPiece ==
    ASSUME Inv, phase = "idle", at = "read", NEW r \in Results(OpAt, SideAt, CountAt), r > 0
    PROVE  /\ Piece(r) \in Seq(Int) /\ Len(Piece(r)) = r /\ r <= Buffer
           /\ pos + r <= Len(source) /\ \A i \in 1..r : Piece(r)[i] = source[total + i]
<1>1. source \in Seq(Nat) /\ pos \in Nat /\ Len(source) \in Nat /\ total \in Nat
  BY Bounds DEF Inv, TypeOK
<1>2. /\ r \in Int /\ pos = total /\ r <= CountAt /\ CountAt \in 0..Buffer
      /\ r <= Len(source) - total \/ r <= 0
  BY LocalResults DEF CopyPlaces
<1>3. pos + 1 \in Int /\ pos + r \in Int /\ pos + r <= Len(source) /\ pos + 1 <= pos + r
  BY <1>1, <1>2
<1>4. ASSUME NEW i \in (pos + 1)..(pos + r) PROVE source[i] \in Int
  <2>1. i \in 1..Len(source)
    BY <1>1, <1>2, <1>3
  <2> QED
    BY <1>1, <2>1
<1> DEFINE d == SubSeq(source, pos + 1, pos + r)
<1>5. /\ d \in Seq(Int) /\ Len(d) = (pos + r) - (pos + 1) + 1
      /\ \A i \in 1..((pos + r) - (pos + 1) + 1) : d[i] = source[(pos + 1) + i - 1]
  BY <1>3, <1>4, SubSeqProperties
<1> HIDE DEF d
<1>6. (pos + r) - (pos + 1) + 1 = r
  BY <1>1, <1>2
<1>7. ASSUME NEW i \in 1..r PROVE d[i] = source[total + i]
  <2>1. (pos + 1) + i - 1 = total + i
    BY <1>1, <1>2
  <2> QED
    BY <1>5, <1>6, <2>1
<1>8. r <= Buffer
  BY <1>2, Bounds
<1> QED
  BY <1>3, <1>5, <1>6, <1>7, <1>8 DEF d, Piece

\* What a system call does to the files, by place.
LEMMA LocalFiles ==
    ASSUME Inv, phase = "idle", at \in CopyPlaces, NEW r \in Results(OpAt, SideAt, CountAt),
           NEW data \in Seq(Int), FileOp(OpAt, SideAt, data, r),
           at = "write" => Len(data) = bytes - sent /\ \A i \in 1..(bytes - sent) : data[i] = buffer[sent + i]
    PROVE  /\ source' = source
           /\ \A s \in held' : \/ s \in held /\ ~(s = SideAt /\ at = CloseAt(s))
                               \/ s = SideAt /\ at = OpenAt(s) /\ r >= 0
           /\ held' \subseteq {0, 1}
           /\ at \notin {"open1", "write"} => dest' = dest
           /\ at = "open1" => dest' = (IF r >= 0 THEN <<>> ELSE dest)
           /\ at = "write" /\ r <= 0 => dest' = dest
           /\ at = "write" /\ r > 0 =>
                /\ dest' \in Seq(Nat) /\ Len(dest') = total + sent + r
                /\ Len(dest') <= Len(source) /\ dest' # Old
                /\ \A i \in 1..Len(dest') : dest'[i] = source[i]
                /\ dest' = dest \o SubSeq(source, Len(dest) + 1, Len(dest) + r)
           /\ at \notin {"end", "rewind", "read"} => pos' = pos
           /\ at \in {"end", "rewind"} => pos' = (IF r >= 0 THEN r ELSE pos)
           /\ at = "read" => pos' = (IF r > 0 THEN pos + r ELSE pos)
<1>1. /\ held' = (IF OpAt = "open" /\ r >= 0 THEN held \cup {SideAt}
                  ELSE IF OpAt = "close" THEN held \ {SideAt} ELSE held)
      /\ dest' = (IF OpAt = "open" /\ r >= 0 /\ SideAt = 1 THEN <<>>
                  ELSE IF OpAt = "write" /\ r > 0 THEN dest \o SubSeq(data, 1, Smaller(r, Len(data)))
                  ELSE dest)
      /\ pos' = (IF OpAt = "lseek" /\ r >= 0 THEN r
                 ELSE IF OpAt = "read" /\ r > 0 THEN pos + r ELSE pos)
      /\ source' = source
  BY DEF FileOp
<1>2. /\ OpAt = "open" <=> at \in {"open0", "open1"}
      /\ OpAt = "close" <=> at \in {"close0", "close1"}
      /\ OpAt = "lseek" <=> at \in {"end", "rewind"}
      /\ OpAt = "read" <=> at = "read"
      /\ OpAt = "write" <=> at = "write"
  BY DEF OpAt, CopyPlaces
<1>3. /\ at = "open0" => SideAt = 0
      /\ at = "open1" => SideAt = 1
      /\ at = "close0" => SideAt = 0
      /\ at = "close1" => SideAt = 1
      /\ SideAt \in {0, 1}
  BY DEF SideAt
<1>4. held \subseteq {0, 1}
  BY DEF Inv, TypeOK
<1>5. held' \subseteq {0, 1}
  BY <1>1, <1>3, <1>4
<1>6. ASSUME NEW s \in held'
      PROVE  \/ s \in held /\ ~(s = SideAt /\ at = CloseAt(s))
             \/ s = SideAt /\ at = OpenAt(s) /\ r >= 0
  BY <1>1, <1>2, <1>3, <1>6 DEF CloseAt, OpenAt
<1>7. r \in Int
  BY LocalResults
<1>8. /\ at \notin {"open1", "write"} => dest' = dest
      /\ at = "open1" => dest' = (IF r >= 0 THEN <<>> ELSE dest)
  BY <1>1, <1>2, <1>3
<1>9. at = "write" /\ r <= 0 => dest' = dest
  <2>1. r <= 0 => ~(r > 0)
    BY <1>7
  <2> QED
    BY <1>1, <1>2, <2>1
<1>10. ASSUME at = "write", r > 0
       PROVE  /\ dest' \in Seq(Nat) /\ Len(dest') = total + sent + r
              /\ Len(dest') <= Len(source) /\ dest' # Old
              /\ \A i \in 1..Len(dest') : dest'[i] = source[i]
              /\ dest' = dest \o SubSeq(source, Len(dest) + 1, Len(dest) + r)
  <2>1. r <= bytes - sent /\ Before
    BY <1>10, LocalResults DEF Before
  <2>2. /\ sent \in Nat /\ bytes \in Nat /\ total \in Nat /\ source = File(Len(source)) /\ source \in Seq(Nat)
    BY Bounds DEF Inv, TypeOK, CopyInv
  <2>3. r \in 1..(bytes - sent)
    BY <1>7, <1>10, <2>1, <2>2
  <2>4. Smaller(r, Len(data)) = r
    <3>1. Len(data) = bytes - sent
      BY <1>10
    <3>2. Smaller(r, bytes - sent) = r
      BY <1>7, <2>1, <2>2 DEF Smaller
    <3> QED
      BY <3>1, <3>2
  <2>5. dest' = dest \o SubSeq(data, 1, r)
    BY <1>1, <1>2, <1>10, <2>4
  <2>6. /\ dest' \in Seq(Nat) /\ Len(dest') = total + sent + r /\ Len(dest') <= Len(source)
        /\ \A i \in 1..Len(dest') : dest'[i] = source[i]
        /\ dest' = dest \o SubSeq(source, Len(dest) + 1, Len(dest) + r)
    BY <1>10, <2>1, <2>3, <2>5, Extended
  <2>7. total + sent + r >= 1
    BY <1>7, <1>10, <2>2
  <2>8. Len(dest') >= 1
    BY <2>6, <2>7
  <2>9. dest' # Old
    BY <2>2, <2>6, <2>8, NotOld
  <2> QED
    BY <2>6, <2>9
<1>11. /\ at \notin {"end", "rewind", "read"} => pos' = pos
       /\ at \in {"end", "rewind"} => pos' = (IF r >= 0 THEN r ELSE pos)
       /\ at = "read" => pos' = (IF r > 0 THEN pos + r ELSE pos)
  BY <1>1, <1>2
<1> QED
  BY <1>1, <1>5, <1>6, <1>8, <1>9, <1>10, <1>11

LEMMA SystemCallKeeps ==
    ASSUME Inv, phase = "idle", at \in CopyPlaces, ~OnPs2(SideAt), NEW data \in Seq(Int),
           SystemCall(OpAt, SideAt, CountAt, data), UNCHANGED client,
           at = "write" => Len(data) = bytes - sent /\ \A i \in 1..(bytes - sent) : data[i] = buffer[sent + i]
    PROVE  Inv'
<1>1. /\ phase' = "back" /\ call' = [op |-> OpAt, n |-> CountAt]
      /\ UNCHANGED <<cmd, name, at, status, fd0, fd1, size, total, bytes, sent, files>>
      /\ UNCHANGED <<out, got, need, link, to, from, left, served, cut>>
  BY DEF SystemCall, Return, client, line, copying, wire
<1>2. TypeOK /\ PlaceInv /\ CallInv /\ ToInv /\ AnswerInv /\ CopyInv /\ HeldInv /\ ListInv
  BY DEF Inv
<1>3. PICK r \in Results(OpAt, SideAt, CountAt) :
        /\ ret' = (IF OpAt = "lseek" THEN AsInt(r) ELSE r) /\ FileOp(OpAt, SideAt, data, r)
        /\ buffer' = (IF OpAt = "read" /\ r > 0 THEN Piece(r) ELSE buffer)
  BY DEF SystemCall, Return
<1>4. /\ r \in Int /\ r >= -1
      /\ at = "open0" => r \in {-1, 0}
      /\ at = "open1" => r \in {-1, 1}
      /\ at = "end" => r \in {-1, Len(source)}
      /\ at = "rewind" => r \in {-1, 0}
      /\ at = "read" => pos = total /\ r <= CountAt
      /\ at = "write" => CountAt = bytes - sent /\ r <= bytes - sent
  BY LocalResults
<1>5. /\ OpAt = "lseek" <=> at \in {"end", "rewind"}
      /\ OpAt = "read" <=> at = "read"
  BY DEF OpAt, CopyPlaces
<1>6. /\ at = "end" => ret' \in {-1, AsInt(Len(source))}
      /\ at # "end" => ret' = r
      /\ ret' \in Int
  <2>1. r \in -1..IntMax => AsInt(r) = r
    BY <1>4, Ints
  <2>2. r \in {-1, 0} => AsInt(r) = r
    BY <2>1, Bounds
  <2>3. AsInt(r) \in Int
    BY <1>4, Ints, Bounds
  <2> QED
    BY <1>3, <1>4, <1>5, <2>2, <2>3
<1>7. /\ source' = source /\ held' \subseteq {0, 1}
      /\ \A s \in held' : \/ s \in held /\ ~(s = SideAt /\ at = CloseAt(s))
                          \/ s = SideAt /\ at = OpenAt(s) /\ r >= 0
      /\ at \notin {"open1", "write"} => dest' = dest
      /\ at = "open1" => dest' = (IF r >= 0 THEN <<>> ELSE dest)
      /\ at = "write" /\ r <= 0 => dest' = dest
      /\ at = "write" /\ r > 0 =>
           /\ dest' \in Seq(Nat) /\ Len(dest') = total + sent + r
           /\ Len(dest') <= Len(source) /\ dest' # Old
           /\ \A i \in 1..Len(dest') : dest'[i] = source[i]
      /\ at \notin {"end", "rewind", "read"} => pos' = pos
      /\ at \in {"end", "rewind"} => pos' = (IF r >= 0 THEN r ELSE pos)
      /\ at = "read" => pos' = (IF r > 0 THEN pos + r ELSE pos)
  BY <1>3, LocalFiles
<1>8. at = "read" /\ r > 0 =>
        /\ buffer' \in Seq(Int) /\ Len(buffer') = r /\ r <= Buffer
        /\ pos + r <= Len(source) /\ \A i \in 1..r : buffer'[i] = source[total + i]
  BY <1>3, <1>5, LocalPiece
<1>9. at # "read" \/ ~(r > 0) => buffer' = buffer
  BY <1>3, <1>5
<1>10. r <= 0 \/ r > 0
  BY <1>4
<1>11. Before /\ ~Before' /\ Aligned' = Aligned /\ ~Remote
  BY <1>1 DEF Before, Aligned, Remote, ListPlaces, CopyPlaces
<1>12. TypeOK'
  <2>1. dest' \in Seq(Nat)
    <3>1. <<>> \in Seq(Nat) /\ dest \in Seq(Nat)
      BY <1>2 DEF TypeOK
    <3> QED
      BY <1>7, <1>10, <3>1
  <2>2. pos' \in Nat
    <3>1. pos \in Nat
      BY <1>2 DEF TypeOK
    <3> QED
      BY <1>4, <1>7, <3>1
  <2>3. buffer' \in Seq(Int) /\ Len(buffer') <= Buffer
    BY <1>2, <1>8, <1>9 DEF TypeOK
  <2> QED
    BY <1>1, <1>2, <1>6, <1>7, <2>1, <2>2, <2>3 DEF TypeOK
<1>13. PlaceInv'
  BY <1>1, <1>2 DEF PlaceInv
<1>14. CallInv'
  <2>1. OpAt' = OpAt /\ CountAt' = CountAt /\ at \notin {"start", "exit"}
    BY <1>1 DEF OpAt, CountAt, CopyPlaces
  <2> QED
    BY <1>1, <1>2, <2>1 DEF CallInv
<1>15. ToInv'
  <2>1. ASSUME to # <<>> PROVE IsCommand(to)' /\ Late'
    <3>1. IsCommand(to) /\ Late
      BY <1>2, <2>1 DEF ToInv
    <3>2. at = "close1" /\ call = [op |-> "close", n |-> 0] /\ call' = call
      BY <1>1, <3>1 DEF Late, CopyPlaces, OpAt, CountAt
    <3>3. Late'
      BY <1>1, <3>1, <3>2 DEF Late
    <3>4. call.op = "close"
      BY <3>2
    <3>5. IsCommand(to)'
      BY <1>1, <3>1, <3>2, <3>4 DEF IsCommand, SentName
    <3> QED
      BY <3>3, <3>5
  <2> QED
    BY <1>1, <1>2, <2>1 DEF ToInv
<1>16. Outcome(ret)'
  <2>1. at = "open0" => ret' \in {-1, 0}
    BY <1>4, <1>6
  <2>2. at = "open1" => ret' \in {-1, 1} /\ (ret' = 1 => dest' = <<>>)
    BY <1>4, <1>6, <1>7
  <2>3. at = "end" => ret' \in {-1, AsInt(Len(source))'}
    BY <1>6, <1>7 DEF AsInt
  <2>4. at = "rewind" => ret' < 0 \/ pos' = 0
    BY <1>4, <1>6, <1>7
  <2>5. at = "read" /\ ret' \in 1..call'.n => pos' = total + ret' /\ pos' <= Len(source')
    <3> SUFFICES ASSUME at = "read", r \in 1..call'.n PROVE pos' = total + r /\ pos' <= Len(source)
      BY <1>6, <1>7
    <3>1. r > 0
      <4>1. CountAt \in Int /\ call'.n = CountAt
        BY <1>1, LocalResults, Bounds DEF CopyPlaces
      <4> QED
        BY <1>4, <4>1
    <3> QED
      BY <1>4, <1>7, <1>8, <3>1
  <2>6. at = "write" /\ ret' \in 1..call'.n => Len(dest') = total + sent + ret'
    <3> SUFFICES ASSUME at = "write", r \in 1..call'.n PROVE Len(dest') = total + sent + r
      BY <1>6, <1>7
    <3>1. r > 0
      <4>1. call'.n = bytes - sent /\ bytes \in Int /\ sent \in Int
        BY <1>1, <1>2, <1>4, Bounds DEF TypeOK
      <4> QED
        BY <1>4, <4>1
    <3> QED
      BY <1>7, <3>1
  <2>7. at # "dread"
    BY DEF CopyPlaces
  <2> QED
    BY <1>1, <2>1, <2>2, <2>3, <2>4, <2>5, <2>6, <2>7 DEF Outcome
<1>17. AnswerInv'
  <2>1. Aligned => from = <<>>
    BY <1>2, <1>11 DEF AnswerInv
  <2>2. ASSUME at = "read", ret' > 0
        PROVE  /\ ret' <= call'.n /\ Len(buffer') = ret'
               /\ \A i \in 1..ret' : buffer'[i] = source'[total + i]
    <3>1. ret' = r /\ call'.n = CountAt
      BY <1>1, <1>6, <2>2
    <3> QED
      BY <1>4, <1>7, <1>8, <2>2, <3>1
  <2>3. at = "write" => ret' <= call'.n
    BY <1>1, <1>4, <1>6
  <2> QED
    BY <1>1, <1>11, <1>16, <2>1, <2>2, <2>3 DEF AnswerInv
<1>18. CopyInv'
  <2>1. dest' = Old \/ (Len(dest') <= Len(source) /\ \A i \in 1..Len(dest') : dest'[i] = source[i])
    <3>1. CASE dest' = dest
      BY <1>2, <3>1 DEF CopyInv
    <3>2. CASE dest' = <<>>
      <4>1. Len(source) \in Nat /\ Len(dest') = 0
        BY <1>2, <3>2 DEF TypeOK
      <4> QED
        BY <4>1
    <3> QED
      BY <1>7, <1>10, <3>1, <3>2
  <2>2. AsInt(Len(source))' = AsInt(Len(source)) /\ File(Len(source))' = File(Len(source))
    BY <1>7 DEF AsInt, File
  <2>3. at \in {"start", "open0", "end", "rewind"} \/ cmd \notin Copies => dest' = dest
    BY <1>2, <1>7 DEF PlaceInv, CopyPlaces
  <2>4. status = 0 => dest' = dest
    BY <1>2, <1>7 DEF PlaceInv
  <2>5. at \in {"read", "write"} => dest' # Old
    BY <1>2, <1>7, <1>10 DEF CopyInv
  <2>6. at = "write" => buffer' = buffer
    BY <1>9
  <2> QED
    BY <1>1, <1>2, <1>7, <1>11, <2>1, <2>2, <2>3, <2>4, <2>5, <2>6 DEF CopyInv
<1>19. HeldInv'
  <2> SUFFICES ASSUME NEW s \in held' PROVE
        \/ OnPs2(s) /\ link = "closed"
        \/ OnPs2(s) /\ to # <<>> /\ at \in ClosedAt(s) \cup {CloseAt(s)}
        \/ Fd(s) >= 0 /\ at \notin ClosedAt(s) /\ at # CloseAt(s)
        \/ at = OpenAt(s) /\ ret' >= 0
    BY <1>1 DEF HeldInv, OnPs2, Fd
  <2>1. CASE s \in held /\ ~(s = SideAt /\ at = CloseAt(s))
    <3>1. at = CloseAt(s) => s = SideAt
      BY <1>7 DEF CloseAt, SideAt
    <3> QED
      BY <1>2, <2>1, <3>1 DEF HeldInv
  <2>2. CASE s = SideAt /\ at = OpenAt(s) /\ r >= 0
    <3>1. at # "end"
      BY <2>2 DEF OpenAt
    <3> QED
      BY <1>6, <2>2, <3>1
  <2> QED
    BY <1>7, <2>1, <2>2
<1>20. ListInv'
  BY <1>1, <1>2, <1>11 DEF ListInv, CopyPlaces
<1> QED
  BY <1>12, <1>13, <1>14, <1>15, <1>17, <1>18, <1>19, <1>20 DEF Inv

\* A call of the copies: the one its place makes, with what it writes.
CopyCall(data) ==
    /\ at \in CopyPlaces /\ Calls(OpAt, SideAt, CountAt, data)
    /\ data \in Seq(Int) /\ Len(data) = (IF at = "write" THEN CountAt ELSE 0)
    /\ at = "write" => \A i \in 1..CountAt : data[i] = buffer[sent + i]
CloseCall ==
    \/ at = "close0" /\ fd0 >= 0 /\ Calls("close", 0, 0, <<>>)
    \/ at = "close1" /\ fd1 >= 0 /\ Calls("close", 1, 0, <<>>)
CopyCalls == Open0 \/ End \/ Rewind \/ Open1 \/ Read \/ Write \/ CloseCall

LEMMA CopyCallKeeps ==
    ASSUME Inv, NEW data, CopyCall(data)
    PROVE  Inv'
<1>1. phase = "idle" /\ UNCHANGED client
  BY DEF Calls, CopyCall
<1>2. at = "write" => CountAt = bytes - sent
  BY DEF CountAt
<1>3. CASE OnPs2(SideAt)
  BY <1>1, <1>3, FileCallKeeps DEF Calls, CopyCall
<1>4. CASE ~OnPs2(SideAt)
  BY <1>1, <1>2, <1>4, SystemCallKeeps DEF Calls, CopyCall
<1> QED
  BY <1>3, <1>4

LEMMA PlainCall ==
    ASSUME at \in CopyPlaces \ {"write"}, Calls(OpAt, SideAt, CountAt, <<>>)
    PROVE  \E data : CopyCall(data)
<1> DEFINE d == <<>>
<1>1. d \in Seq(Int) /\ Len(d) = (IF at = "write" THEN CountAt ELSE 0)
  OBVIOUS
<1>2. Calls(OpAt, SideAt, CountAt, d)
  OBVIOUS
<1> HIDE DEF d
<1>3. CopyCall(d)
  BY <1>1, <1>2 DEF CopyCall
<1> QED
  BY <1>3

LEMMA WriteCall ==
    ASSUME Inv, Write
    PROVE  \E data : CopyCall(data)
<1>1. at = "write" /\ Calls("write", 1, bytes - sent, SubSeq(buffer, sent + 1, bytes))
  BY DEF Write
<1>2. /\ sent < bytes /\ bytes = Len(buffer) /\ buffer \in Seq(Int)
      /\ sent \in Nat /\ bytes \in Nat
  BY <1>1, Bounds DEF Inv, TypeOK, CopyInv
<1> DEFINE a == sent + 1
           d == SubSeq(buffer, a, bytes)
<1>3. a \in Int /\ a >= 1 /\ a <= bytes /\ bytes - a + 1 = bytes - sent
  BY <1>2
<1>4. ASSUME NEW i \in a..bytes PROVE buffer[i] \in Int
  <2>1. i \in 1..Len(buffer)
    BY <1>2, <1>3
  <2> QED
    BY <1>2, <2>1
<1>5. /\ d \in Seq(Int) /\ Len(d) = bytes - a + 1
      /\ \A i \in 1..(bytes - a + 1) : d[i] = buffer[a + i - 1]
  <2> HIDE DEF a
  <2> QED
    BY <1>2, <1>3, <1>4, SubSeqProperties
<1>6. ASSUME NEW i \in 1..(bytes - sent) PROVE d[i] = buffer[sent + i]
  <2>1. a + i - 1 = sent + i
    BY <1>2
  <2> HIDE DEF a, d
  <2> QED
    BY <1>3, <1>5, <2>1
<1>7. OpAt = "write" /\ SideAt = 1 /\ CountAt = bytes - sent /\ at \in CopyPlaces
  BY <1>1 DEF OpAt, SideAt, CountAt, CopyPlaces
<1>8. Calls(OpAt, SideAt, CountAt, d)
  BY <1>1, <1>7
<1>9. Len(d) = bytes - sent
  BY <1>3, <1>5
<1> HIDE DEF d
<1>10. CopyCall(d)
  BY <1>1, <1>5, <1>6, <1>7, <1>8, <1>9 DEF CopyCall
<1> QED
  BY <1>10

LEMMA CopyCallsAre ==
    ASSUME Inv, CopyCalls
    PROVE  \E data : CopyCall(data)
<1>1. CASE Open0
  <2>1. at = "open0" /\ OpAt = "open" /\ SideAt = 0 /\ CountAt = 0
    BY <1>1 DEF Open0, OpAt, SideAt, CountAt
  <2> QED
    BY <1>1, <2>1, PlainCall DEF Open0, CopyPlaces
<1>2. CASE End
  <2>1. at = "end" /\ OpAt = "lseek" /\ SideAt = 0 /\ CountAt = LSEEK_END
    BY <1>2 DEF End, OpAt, SideAt, CountAt
  <2> QED
    BY <1>2, <2>1, PlainCall DEF End, CopyPlaces
<1>3. CASE Rewind
  <2>1. at = "rewind" /\ OpAt = "lseek" /\ SideAt = 0 /\ CountAt = LSEEK_SET
    BY <1>3 DEF Rewind, OpAt, SideAt, CountAt, LSEEK_SET
  <2> QED
    BY <1>3, <2>1, PlainCall DEF Rewind, CopyPlaces
<1>4. CASE Open1
  <2>1. at = "open1" /\ OpAt = "open" /\ SideAt = 1 /\ CountAt = 0
    BY <1>4 DEF Open1, OpAt, SideAt, CountAt
  <2> QED
    BY <1>4, <2>1, PlainCall DEF Open1, CopyPlaces
<1>5. CASE Read
  <2>1. at = "read" /\ OpAt = "read" /\ SideAt = 0 /\ CountAt = Smaller(size - total, Buffer)
    BY <1>5 DEF Read, OpAt, SideAt, CountAt
  <2> QED
    BY <1>5, <2>1, PlainCall DEF Read, CopyPlaces
<1>6. CASE Write
  BY <1>6, WriteCall
<1>7. CASE at = "close0" /\ Calls("close", 0, 0, <<>>)
  <2>1. OpAt = "close" /\ SideAt = 0 /\ CountAt = 0
    BY <1>7 DEF OpAt, SideAt, CountAt
  <2> QED
    BY <1>7, <2>1, PlainCall DEF CopyPlaces
<1>8. CASE at = "close1" /\ Calls("close", 1, 0, <<>>)
  <2>1. OpAt = "close" /\ SideAt = 1 /\ CountAt = 0
    BY <1>8 DEF OpAt, SideAt, CountAt
  <2> QED
    BY <1>8, <2>1, PlainCall DEF CopyPlaces
<1> QED
  BY <1>1, <1>2, <1>3, <1>4, <1>5, <1>6, <1>7, <1>8 DEF CopyCalls, CloseCall

LEMMA CopyCallsKeep ==
    ASSUME Inv, CopyCalls
    PROVE  Inv'
BY CopyCallsAre, CopyCallKeeps

LEMMA OtherCallsKeep ==
    ASSUME Inv, Single \/ Dir("dopen") \/ Dir("dread") \/ Dir("dclose")
    PROVE  Inv'
<1> DEFINE d == <<>>
<1>1. d \in Seq(Int) /\ Len(d) = 0
  OBVIOUS
<1>2. CASE Single
  <2>1. at = "single" /\ phase = "idle" /\ UNCHANGED client /\ cmd \in Singles
    BY <1>2 DEF Single, Inv, PlaceInv
  <2>2. OpAt = cmd /\ CountAt = 0 /\ Remote
    BY <2>1 DEF OpAt, CountAt, Remote
  <2>3. Rpc(cmd, IF cmd \in PathOps THEN SentName ELSE "fits", 0, <<>>)
    <3>1. CASE cmd \in {"delete", "mkdir", "rmdir"}
      BY <1>2, <3>1 DEF Single, PathCall, PathOps
    <3>2. CASE cmd \notin {"delete", "mkdir", "rmdir"}
      <4>1. cmd \in {"devlist", "mount", "sync", "umount"}
        BY <2>1, <3>2 DEF Singles
      <4>2. cmd = "devlist" <=> cmd \notin PathOps
        BY <4>1 DEF PathOps
      <4>3. Rpc(cmd, IF cmd = "devlist" THEN "fits" ELSE SentName, 0, <<>>)
        BY <1>2, <3>2 DEF Single, DeviceCall
      <4> QED
        BY <4>2, <4>3
    <3> QED
      BY <3>1, <3>2
  <2>4. cmd # "write"
    BY <2>1 DEF Singles
  <2>5. Rpc(OpAt, IF OpAt \in PathOps THEN SentName ELSE "fits", CountAt, d)
    BY <2>2, <2>3
  <2>6. /\ OpAt = "write" <=> at = "write"
        /\ Len(d) = (IF at = "write" THEN CountAt ELSE 0)
        /\ at = "write" => \A i \in 1..CountAt : d[i] = buffer[sent + i]
    BY <1>1, <2>1, <2>2, <2>4
  <2> HIDE DEF d
  <2> QED
    BY <1>1, <2>1, <2>2, <2>5, <2>6, RpcKeeps
<1>3. ASSUME NEW label \in ListPlaces, Dir(label) PROVE Inv'
  <2>1. at = label /\ phase = "idle" /\ UNCHANGED client
    BY <1>3 DEF Dir
  <2>2. OpAt = label /\ CountAt = 0 /\ Remote
    BY <2>1 DEF OpAt, CountAt, Remote, ListPlaces
  <2>3. label = "dopen" <=> label \in PathOps
    BY DEF PathOps, ListPlaces
  <2>4. Rpc(label, IF label \in PathOps THEN SentName ELSE "fits", 0, <<>>)
    BY <1>3, <2>3 DEF Dir, DirCall
  <2>5. label # "write"
    BY DEF ListPlaces
  <2>6. Rpc(OpAt, IF OpAt \in PathOps THEN SentName ELSE "fits", CountAt, d)
    BY <2>2, <2>4
  <2>7. /\ OpAt = "write" <=> at = "write"
        /\ Len(d) = (IF at = "write" THEN CountAt ELSE 0)
        /\ at = "write" => \A i \in 1..CountAt : d[i] = buffer[sent + i]
    BY <1>1, <2>1, <2>2, <2>5
  <2> HIDE DEF d
  <2> QED
    BY <1>1, <2>1, <2>2, <2>6, <2>7, RpcKeeps
<1> QED
  BY <1>2, <1>3 DEF ListPlaces

----------------------------------------------------------------------------
(* fsclient looks at what a call returned, and goes on.                    *)

\* What every such step leaves alone.
Steps ==
    /\ phase \in {"idle", "back"} /\ phase' = "idle"
    /\ UNCHANGED <<cmd, name, call, ret, out, got, need, buffer, to, from>>
    /\ UNCHANGED <<source, dest, held, pos, left, served, cut>>

LEMMA GoesSteps ==
    ASSUME NEW label, Goes(label), phase \in {"idle", "back"}
    PROVE  Steps /\ at' = label /\ link' = link
BY DEF Goes, Steps, line, wire, server, disks

\* The call is over, so that little is left of the invariant of a call.
LEMMA StepsKeepCalls ==
    ASSUME Inv, Steps, Aligned' => from = <<>>, to # <<>> => Late', link' # "up" => to = <<>>
    PROVE  CallInv' /\ ToInv' /\ AnswerInv'
<1>1. /\ phase \in {"idle", "back"} /\ phase' = "idle"
      /\ UNCHANGED <<cmd, name, call, ret, out, got, need, buffer, to, from>>
  BY DEF Steps
<1>2. CallInv'
  <2>1. out = <<>>
    BY <1>1 DEF Inv, CallInv
  <2> QED
    BY <1>1, <2>1 DEF CallInv
<1>3. ToInv'
  <2>1. ASSUME to # <<>> PROVE IsCommand(to)'
    <3>1. IsCommand(to)
      BY <1>1, <2>1 DEF Inv, ToInv
    <3>2. call.op = "close" /\ call' = call
      BY <1>1, <2>1 DEF Late
    <3> QED
      BY <1>1, <3>1, <3>2 DEF IsCommand, SentName
  <2> QED
    BY <1>1, <2>1 DEF ToInv
<1>4. AnswerInv'
  BY <1>1 DEF AnswerInv
<1> QED
  BY <1>2, <1>3, <1>4

\* Nothing but a close can be waiting at the server, and only after a copyfrom that failed.
LEMMA NothingAsked ==
    ASSUME Inv, phase \in {"idle", "back"}, at \notin {"close0", "close1", "exit"}
    PROVE  to = <<>>
BY DEF Inv, ToInv, Late

\* A call that returned told the truth, or the connection is gone.
LEMMA Truth ==
    ASSUME Inv, phase = "back", Aligned
    PROVE  /\ Outcome(ret) \/ (ret = -1 /\ link = "closed" /\ from = <<>>)
           /\ at # "single" /\ ~(cmd = "copyfrom" /\ at = "read" /\ ret <= 0) => from = <<>>
           /\ ret \in Int
BY DEF Inv, AnswerInv, TypeOK

LEMMA StartKeeps ==
    ASSUME Inv, Start
    PROVE  Inv'
<1>1. TypeOK /\ PlaceInv /\ CallInv /\ ToInv /\ AnswerInv /\ CopyInv /\ HeldInv /\ ListInv
  BY DEF Inv
<1>2. at = "start" /\ phase = "idle" /\ link = "none" /\ to = <<>>
  BY <1>1 DEF Start, PlaceInv, CallInv, ToInv
<1>3. /\ Steps /\ UNCHANGED <<status, fd0, fd1, size, total, bytes, sent, files>>
      /\ link' \in {"none", "up"} /\ (link' = "none" => at' = "exit")
      /\ at' \in {"exit", "open0", "dopen", "single"}
      /\ at' = "open0" => cmd \in Copies
      /\ at' = "dopen" => cmd = "dir"
      /\ at' = "single" => cmd \in Singles
  <2>1. UNCHANGED <<status, fd0, fd1, size, total, bytes, sent, files>>
    BY DEF Start, copying
  <2>2. CASE Goes("exit")
    BY <1>2, <2>1, <2>2, GoesSteps
  <2>3. CASE ~Goes("exit")
    <3>1. /\ link' = "up"
          /\ at' = (CASE cmd \in Copies -> "open0" [] cmd = "dir" -> "dopen"
                      [] cmd \in Singles -> "single" [] OTHER -> "exit")
          /\ UNCHANGED <<line, to, from, server, rpc>>
      BY <2>3 DEF Start
    <3>2. Steps
      BY <1>2, <3>1 DEF Steps, line, server, disks, rpc
    <3> QED
      BY <2>1, <3>1, <3>2 DEF Copies, Singles
  <2> QED
    BY <2>2, <2>3
<1>4. /\ phase' = "idle" /\ UNCHANGED <<cmd, name, call, ret, out, got, need, buffer, to, from>>
      /\ UNCHANGED <<source, dest, held, pos, left, served, cut>>
  BY <1>3 DEF Steps
<1>5. from = <<>>
  BY <1>1, <1>2 DEF AnswerInv, Aligned, Before
<1>6. CallInv' /\ ToInv' /\ AnswerInv'
  BY <1>2, <1>3, <1>5, StepsKeepCalls
<1>7. TypeOK'
  BY <1>1, <1>3, <1>4 DEF TypeOK, Labels
<1>8. fd0 = -1 /\ fd1 = -1 /\ status = -1
  BY <1>1, <1>2 DEF PlaceInv, TypeOK
<1>9. PlaceInv'
  BY <1>1, <1>3, <1>4, <1>8 DEF PlaceInv, CopyPlaces, ListPlaces
<1>10. CopyInv'
  BY <1>1, <1>2, <1>3, <1>4, <1>8 DEF CopyInv
<1>11. HeldInv'
  <2>1. held = {}
    <3> SUFFICES ASSUME NEW s \in held PROVE FALSE
      OBVIOUS
    <3>1. s \in {0, 1} /\ Fd(s) = -1
      BY <1>1, <1>8 DEF TypeOK, Fd
    <3> QED
      BY <1>1, <1>2, <3>1 DEF HeldInv, OpenAt
  <2> QED
    BY <1>4, <2>1 DEF HeldInv
<1>12. ListInv'
  BY <1>1, <1>2, <1>3, <1>4, <1>8 DEF ListInv
<1> QED
  BY <1>6, <1>7, <1>9, <1>10, <1>11, <1>12 DEF Inv

\* A step of the copies before they close their files.
LEMMA CopyStepKeeps ==
    ASSUME Inv, Steps, link' = link, files' = files,
           at \in {"open0", "end", "rewind", "open1", "read", "write"}, at' \in CopyPlaces \ {"close1"},
           IF at = "open0" /\ phase = "back" THEN fd0' = ret ELSE fd0' = fd0,
           IF at = "open1" /\ phase = "back" THEN fd1' = ret ELSE fd1' = fd1,
           cmd = "copyfrom" /\ at = "read" /\ phase = "back" /\ ret <= 0 => at' = "close0" /\ status' = -1
    PROVE  CallInv' /\ ToInv' /\ AnswerInv' /\ HeldInv' /\ ListInv'
<1>1. TypeOK /\ PlaceInv /\ AnswerInv /\ HeldInv /\ ListInv
  BY DEF Inv
<1>2. /\ phase \in {"idle", "back"} /\ phase' = "idle"
      /\ UNCHANGED <<cmd, name, call, ret, out, got, need, buffer, to, from>>
      /\ UNCHANGED <<source, dest, held, pos, left, served, cut>>
  BY DEF Steps
<1>3. to = <<>>
  BY <1>2, NothingAsked
<1>4. Aligned
  BY DEF Aligned
<1>5. Aligned' => from = <<>>
  <2>1. CASE phase = "idle"
    BY <1>1, <1>4, <2>1 DEF AnswerInv, Before
  <2>2. CASE phase = "back"
    <3>1. cmd = "copyfrom" /\ at = "read" /\ ret <= 0 => ~Aligned'
      BY <1>2, <2>2 DEF Aligned
    <3> QED
      BY <1>4, <2>2, <3>1, Truth
  <2> QED
    BY <1>2, <2>1, <2>2
<1>6. CallInv' /\ ToInv' /\ AnswerInv'
  BY <1>3, <1>5, StepsKeepCalls
<1>7. HeldInv'
  <2> SUFFICES ASSUME NEW s \in held
               PROVE  \/ OnPs2(s) /\ link = "closed"
                      \/ Fd(s)' >= 0 /\ at' \notin ClosedAt(s)
    BY <1>2 DEF HeldInv, OnPs2
  <2>1. s \in {0, 1}
    BY <1>1 DEF TypeOK
  <2>2. at' \notin ClosedAt(s)
    BY <2>1 DEF ClosedAt, CopyPlaces
  <2>3. \/ OnPs2(s) /\ link = "closed"
        \/ Fd(s) >= 0 /\ at \notin ClosedAt(s)
        \/ at = OpenAt(s) /\ phase = "back" /\ ret >= 0
    BY <1>1, <1>2, <1>3 DEF HeldInv
  <2>4. Fd(s) >= 0 => at # OpenAt(s)
    BY <1>1, <2>1 DEF PlaceInv, Fd, OpenAt
  <2>5. CASE s = 0
    BY <2>2, <2>3, <2>4, <2>5 DEF Fd, OpenAt
  <2>6. CASE s = 1
    BY <2>2, <2>3, <2>4, <2>6 DEF Fd, OpenAt
  <2> QED
    BY <2>1, <2>5, <2>6
<1>8. ListInv'
  BY <1>1, <1>2 DEF ListInv, CopyPlaces
<1> QED
  BY <1>6, <1>7, <1>8

LEMMA Opened0Keeps ==
    ASSUME Inv, Opened0
    PROVE  Inv'
<1>1. TypeOK /\ PlaceInv /\ CopyInv
  BY DEF Inv
<1>2. /\ at = "open0" /\ phase = "back" /\ fd0' = ret
      /\ Goes(IF Fails THEN "close0" ELSE "end")
      /\ UNCHANGED <<status, fd1, size, total, bytes, sent, files>>
  BY DEF Opened0
<1>3. Steps /\ at' = (IF Fails THEN "close0" ELSE "end") /\ link' = link
  BY <1>2, GoesSteps
<1>4. /\ phase' = "idle" /\ UNCHANGED <<cmd, name, call, ret, out, got, need, buffer, to, from>>
      /\ UNCHANGED <<source, dest, held, pos, left, served, cut>>
  BY <1>3 DEF Steps
<1>5. ret \in {-1, 0} /\ (Fails <=> ret = -1)
  <2>1. Aligned
    BY <1>2 DEF Aligned
  <2>2. ret \in {-1, 0}
    BY <1>2, <2>1, Truth DEF Outcome
  <2> QED
    BY <2>2 DEF Fails
<1>6. CallInv' /\ ToInv' /\ AnswerInv' /\ HeldInv' /\ ListInv'
  BY <1>2, <1>3, CopyStepKeeps DEF CopyPlaces
<1>7. TypeOK'
  BY <1>1, <1>2, <1>3, <1>4, <1>5 DEF TypeOK, Labels
<1>8. PlaceInv'
  BY <1>1, <1>2, <1>3, <1>4, <1>5 DEF PlaceInv, CopyPlaces, ListPlaces
<1>9. CopyInv'
  BY <1>1, <1>2, <1>3, <1>4 DEF CopyInv, PlaceInv
<1> QED
  BY <1>6, <1>7, <1>8, <1>9 DEF Inv

LEMMA EndedKeeps ==
    ASSUME Inv, Ended
    PROVE  Inv'
<1>1. TypeOK /\ PlaceInv /\ CopyInv
  BY DEF Inv
<1>2. /\ at = "end" /\ phase = "back" /\ size' = ret
      /\ Goes(IF Fails THEN "close0" ELSE "rewind")
      /\ UNCHANGED <<status, fd0, fd1, total, bytes, sent, files>>
  BY DEF Ended
<1>3. Steps /\ at' = (IF Fails THEN "close0" ELSE "rewind") /\ link' = link
  BY <1>2, GoesSteps
<1>4. /\ phase' = "idle" /\ UNCHANGED <<cmd, name, call, ret, out, got, need, buffer, to, from>>
      /\ UNCHANGED <<source, dest, held, pos, left, served, cut>>
  BY <1>3 DEF Steps
<1>5. ret \in {-1, AsInt(Len(source))} /\ ret \in Int
  <2>1. Aligned
    BY <1>2 DEF Aligned
  <2> QED
    BY <1>2, <2>1, Truth DEF Outcome
<1>6. CallInv' /\ ToInv' /\ AnswerInv' /\ HeldInv' /\ ListInv'
  BY <1>2, <1>3, CopyStepKeeps DEF CopyPlaces
<1>7. ret \in -(IntMax + 1)..IntMax /\ (~Fails => ret >= 0 /\ ret # -1)
  <2>1. Len(source) \in Int
    BY <1>1 DEF TypeOK
  <2>2. AsInt(Len(source)) \in -(IntMax + 1)..IntMax
    BY <2>1, Ints
  <2>3. -1 \in -(IntMax + 1)..IntMax
    BY Bounds
  <2> QED
    BY <1>5, <2>2, <2>3 DEF Fails
<1>8. TypeOK'
  BY <1>1, <1>2, <1>3, <1>4, <1>7 DEF TypeOK, Labels
<1>9. PlaceInv'
  BY <1>1, <1>2, <1>3, <1>4 DEF PlaceInv, CopyPlaces, ListPlaces
<1>10. CopyInv'
  <2>1. ~Fails => ret = AsInt(Len(source)) /\ ret >= 0
    BY <1>5, <1>7
  <2>2. AsInt(Len(source))' = AsInt(Len(source)) /\ status = -1
    BY <1>1, <1>2, <1>4 DEF AsInt, PlaceInv, TypeOK
  <2> QED
    BY <1>1, <1>2, <1>3, <1>4, <2>1, <2>2 DEF CopyInv
<1> QED
  BY <1>6, <1>8, <1>9, <1>10 DEF Inv

LEMMA RewoundKeeps ==
    ASSUME Inv, Rewound
    PROVE  Inv'
<1>1. TypeOK /\ PlaceInv /\ CopyInv
  BY DEF Inv
<1>2. /\ at = "rewind" /\ phase = "back"
      /\ Goes(IF Fails THEN "close0" ELSE "open1")
      /\ UNCHANGED <<status, fd0, fd1, size, total, bytes, sent, files>>
  BY DEF Rewound, copying
<1>3. Steps /\ at' = (IF Fails THEN "close0" ELSE "open1") /\ link' = link
  BY <1>2, GoesSteps
<1>4. /\ phase' = "idle" /\ UNCHANGED <<cmd, name, call, ret, out, got, need, buffer, to, from>>
      /\ UNCHANGED <<source, dest, held, pos, left, served, cut>>
  BY <1>3 DEF Steps
<1>5. ~Fails => pos = 0
  <2>1. Aligned
    BY <1>2 DEF Aligned
  <2>2. ret < 0 \/ pos = 0 \/ ret = -1
    BY <1>2, <2>1, Truth DEF Outcome
  <2>3. ret = -1 => ret < 0
    OBVIOUS
  <2> QED
    BY <2>2, <2>3 DEF Fails
<1>6. CallInv' /\ ToInv' /\ AnswerInv' /\ HeldInv' /\ ListInv'
  BY <1>2, <1>3, CopyStepKeeps DEF CopyPlaces
<1>7. TypeOK'
  BY <1>1, <1>2, <1>3, <1>4 DEF TypeOK, Labels
<1>8. PlaceInv'
  BY <1>1, <1>2, <1>3, <1>4 DEF PlaceInv, CopyPlaces, ListPlaces
<1>9. CopyInv'
  <2>1. total = 0 /\ size >= 0 /\ size = AsInt(Len(source)) /\ dest = Old /\ status = -1
    BY <1>1, <1>2 DEF CopyInv, PlaceInv, TypeOK
  <2>2. total <= size
    BY <2>1
  <2>3. AsInt(Len(source))' = AsInt(Len(source))
    BY <1>4 DEF AsInt
  <2> QED
    BY <1>1, <1>2, <1>3, <1>4, <1>5, <2>1, <2>2, <2>3 DEF CopyInv
<1> QED
  BY <1>6, <1>7, <1>8, <1>9 DEF Inv

LEMMA Opened1Keeps ==
    ASSUME Inv, Opened1
    PROVE  Inv'
<1>1. TypeOK /\ PlaceInv /\ CopyInv
  BY DEF Inv
<1>2. /\ at = "open1" /\ phase = "back" /\ fd1' = ret
      /\ Goes(IF Fails THEN "close0" ELSE "read")
      /\ UNCHANGED <<status, fd0, size, total, bytes, sent, files>>
  BY DEF Opened1
<1>3. Steps /\ at' = (IF Fails THEN "close0" ELSE "read") /\ link' = link
  BY <1>2, GoesSteps
<1>4. /\ phase' = "idle" /\ UNCHANGED <<cmd, name, call, ret, out, got, need, buffer, to, from>>
      /\ UNCHANGED <<source, dest, held, pos, left, served, cut>>
  BY <1>3 DEF Steps
<1>5. ret \in {-1, 1} /\ (Fails <=> ret = -1) /\ (ret = 1 => dest = <<>>)
  <2>1. Aligned
    BY <1>2 DEF Aligned
  <2>2. ret \in {-1, 1} /\ (ret = 1 => dest = <<>>)
    BY <1>2, <2>1, Truth DEF Outcome
  <2> QED
    BY <2>2 DEF Fails
<1>6. CallInv' /\ ToInv' /\ AnswerInv' /\ HeldInv' /\ ListInv'
  BY <1>2, <1>3, CopyStepKeeps DEF CopyPlaces
<1>7. TypeOK'
  BY <1>1, <1>2, <1>3, <1>4, <1>5 DEF TypeOK, Labels
<1>8. PlaceInv'
  BY <1>1, <1>2, <1>3, <1>4, <1>5 DEF PlaceInv, CopyPlaces, ListPlaces
<1>9. CopyInv'
  <2>1. /\ total = 0 /\ pos = 0 /\ size >= 0 /\ size = AsInt(Len(source)) /\ status = -1
        /\ total <= size
    BY <1>1, <1>2 DEF CopyInv, PlaceInv, TypeOK
  <2>2. ~Fails => dest # Old /\ Len(dest) = total
    <3>1. <<>> # Old /\ Len(<<>>) = 0
      BY DEF Old
    <3> QED
      BY <1>5, <2>1, <3>1
  <2>3. AsInt(Len(source))' = AsInt(Len(source))
    BY <1>4 DEF AsInt
  <2> QED
    BY <1>1, <1>2, <1>3, <1>4, <2>1, <2>2, <2>3 DEF CopyInv
<1> QED
  BY <1>6, <1>7, <1>8, <1>9 DEF Inv

LEMMA HaveReadKeeps ==
    ASSUME Inv, HaveRead
    PROVE  Inv'
<1>1. TypeOK /\ PlaceInv /\ CallInv /\ AnswerInv /\ CopyInv
  BY DEF Inv
<1>2. /\ at = "read" /\ phase = "back"
      /\ IF ReadFails THEN UNCHANGED <<bytes, sent>> ELSE bytes' = ret /\ sent' = 0
      /\ Goes(IF ReadFails THEN "close0" ELSE IF ret = 0 THEN "read" ELSE "write")
      /\ UNCHANGED <<status, fd0, fd1, size, total, files>>
  BY DEF HaveRead
<1>3. ret \in Int /\ (~ReadFails => ret > 0 /\ ret # 0) /\ (ret <= 0 => ReadFails) /\ status = -1
  <2>1. ret \in Int /\ status = -1
    BY <1>1, <1>2 DEF TypeOK, PlaceInv
  <2> QED
    BY <2>1 DEF ReadFails
<1>4. Steps /\ at' = (IF ReadFails THEN "close0" ELSE "write") /\ link' = link
  BY <1>2, <1>3, GoesSteps
<1>5. /\ phase' = "idle" /\ UNCHANGED <<cmd, name, call, ret, out, got, need, buffer, to, from>>
      /\ UNCHANGED <<source, dest, held, pos, left, served, cut>>
  BY <1>4 DEF Steps
<1>6. CallInv' /\ ToInv' /\ AnswerInv' /\ HeldInv' /\ ListInv'
  BY <1>2, <1>3, <1>4, CopyStepKeeps DEF CopyPlaces
<1>7. total \in Nat /\ size \in Int /\ total <= size
  BY <1>1, <1>2, Bounds DEF TypeOK, CopyInv
<1>8. ASSUME ~ReadFails
      PROVE  /\ ret \in 1..Buffer /\ Len(buffer) = ret /\ pos = total + ret /\ total + ret <= size
             /\ \A i \in 1..ret : buffer[i] = source[total + i]
  <2>1. ret > 0
    BY <1>3, <1>8
  <2>2. ret <= call.n /\ Len(buffer) = ret /\ \A i \in 1..ret : buffer[i] = source[total + i]
    BY <1>1, <1>2, <2>1 DEF AnswerInv
  <2>3. call.n = (IF size - total < Buffer THEN size - total ELSE Buffer)
    BY <1>1, <1>2 DEF CallInv, CountAt, Smaller
  <2>4. call.n \in Int /\ call.n <= Buffer /\ call.n <= size - total
    BY <1>7, <2>3, Bounds
  <2>5. ret \in 1..call.n
    BY <1>3, <2>1, <2>2, <2>4
  <2>6. ret # -1
    BY <2>1
  <2>7. pos = total + ret
    <3>1. Aligned
      BY <1>2 DEF Aligned
    <3>2. Outcome(ret)
      BY <1>2, <2>6, <3>1, Truth
    <3> QED
      BY <1>2, <2>5, <3>2 DEF Outcome
  <2>8. ret \in 1..Buffer /\ total + ret <= size
    BY <1>3, <1>7, <2>1, <2>2, <2>4, Bounds
  <2> QED
    BY <2>2, <2>7, <2>8
<1>9. TypeOK'
  <2>1. bytes' \in 0..Buffer /\ sent' \in 0..bytes'
    <3>1. CASE ReadFails
      BY <1>1, <1>2, <3>1 DEF TypeOK
    <3>2. CASE ~ReadFails
      <4>1. bytes' = ret /\ sent' = 0 /\ ret \in 1..Buffer
        BY <1>2, <1>8, <3>2
      <4> QED
        BY <4>1, Bounds
    <3> QED
      BY <3>1, <3>2
  <2> QED
    BY <1>1, <1>2, <1>4, <1>5, <2>1 DEF TypeOK, Labels
<1>10. PlaceInv'
  BY <1>1, <1>2, <1>4, <1>5 DEF PlaceInv, CopyPlaces, ListPlaces
<1>11. CopyInv'
  <2>1. AsInt(Len(source))' = AsInt(Len(source))
    BY <1>5 DEF AsInt
  <2>2. ~ReadFails =>
          /\ sent' < bytes' /\ bytes' = Len(buffer') /\ pos' = total' + bytes' /\ total' + bytes' <= size'
          /\ \A i \in 1..bytes' : buffer'[i] = source'[total' + i]
    BY <1>2, <1>3, <1>5, <1>8
  <2>3. ~ReadFails => Len(dest') = total' + sent'
    BY <1>1, <1>2, <1>5, <1>7 DEF CopyInv
  <2> QED
    BY <1>1, <1>2, <1>3, <1>4, <1>5, <2>1, <2>2, <2>3 DEF CopyInv
<1> QED
  BY <1>6, <1>9, <1>10, <1>11 DEF Inv

LEMMA HaveWrittenKeeps ==
    ASSUME Inv, HaveWritten
    PROVE  Inv'
<1>1. TypeOK /\ PlaceInv /\ CallInv /\ AnswerInv /\ CopyInv
  BY DEF Inv
<1>2. at = "write" /\ phase = "back" /\ UNCHANGED <<status, fd0, fd1, size, bytes, files>>
  BY DEF HaveWritten
<1>3. \/ WriteFails /\ Goes("close0") /\ UNCHANGED <<sent, total>>
      \/ /\ ~WriteFails /\ sent' = sent + ret
         /\ IF sent' < bytes THEN Goes("write") /\ UNCHANGED total
            ELSE Goes("read") /\ total' = total + bytes
  BY DEF HaveWritten, SentSoFar
<1>4. Steps /\ at' \in {"close0", "write", "read"} /\ link' = link
  BY <1>2, <1>3, GoesSteps
<1>5. /\ phase' = "idle" /\ UNCHANGED <<cmd, name, call, ret, out, got, need, buffer, to, from>>
      /\ UNCHANGED <<source, dest, held, pos, left, served, cut>>
  BY <1>4 DEF Steps
<1>6. CallInv' /\ ToInv' /\ AnswerInv' /\ HeldInv' /\ ListInv'
  BY <1>2, <1>4, CopyStepKeeps DEF CopyPlaces
<1>7. /\ total \in Nat /\ bytes \in Nat /\ sent \in Nat /\ size \in Int /\ size <= IntMax /\ ret \in Int
      /\ status = -1
  BY <1>1, <1>2, Bounds DEF TypeOK, PlaceInv
<1>8. total + bytes <= size /\ sent < bytes /\ pos = total + bytes /\ dest # Old
  BY <1>1, <1>2 DEF CopyInv
<1>9. ASSUME ~WriteFails PROVE ret \in 1..(bytes - sent) /\ Len(dest) = total + sent + ret
  <2>1. call.n = bytes - sent
    BY <1>1, <1>2 DEF CallInv, CountAt
  <2>2. ret > 0 /\ ~(cmd = "copyto" /\ ret > bytes - sent)
    BY <1>7, <1>9 DEF WriteFails
  <2>3. cmd = "copyfrom" => ret <= bytes - sent
    BY <1>1, <1>2, <2>1 DEF AnswerInv
  <2>4. cmd \in {"copyfrom", "copyto"}
    BY <1>1, <1>2 DEF PlaceInv, CopyPlaces, Copies
  <2>5. ret <= bytes - sent
    <3>1. ~(ret > bytes - sent) => ret <= bytes - sent
      BY <1>7
    <3> QED
      BY <2>2, <2>3, <2>4, <3>1
  <2>6. ret \in 1..(bytes - sent) /\ ret # -1
    BY <1>7, <2>2, <2>5
  <2>7. Outcome(ret)
    <3>1. Aligned
      BY <1>2 DEF Aligned
    <3> QED
      BY <1>2, <2>6, <3>1, Truth
  <2> QED
    BY <1>2, <2>1, <2>6, <2>7 DEF Outcome
<1>10. CASE WriteFails /\ Goes("close0") /\ UNCHANGED <<sent, total>>
  <2>1. at' = "close0"
    BY <1>2, <1>10, GoesSteps
  <2>2. TypeOK'
    BY <1>1, <1>2, <1>4, <1>5, <1>10, <2>1 DEF TypeOK, Labels
  <2>3. PlaceInv'
    BY <1>1, <1>2, <1>4, <1>5, <2>1 DEF PlaceInv, CopyPlaces, ListPlaces
  <2>4. CopyInv'
    BY <1>1, <1>2, <1>5, <1>7, <2>1 DEF CopyInv, PlaceInv, CopyPlaces
  <2> QED
    BY <1>6, <2>2, <2>3, <2>4 DEF Inv
<1>11. CASE ~WriteFails /\ sent' = sent + ret /\ sent' < bytes /\ Goes("write") /\ UNCHANGED total
  <2>1. at' = "write"
    BY <1>2, <1>11, GoesSteps
  <2>2. sent + ret \in 0..bytes /\ Len(dest) = total + (sent + ret)
    BY <1>7, <1>9, <1>11
  <2>3. TypeOK'
    BY <1>1, <1>2, <1>4, <1>5, <1>11, <2>1, <2>2 DEF TypeOK, Labels
  <2>4. PlaceInv'
    BY <1>1, <1>2, <1>4, <1>5, <2>1 DEF PlaceInv, CopyPlaces, ListPlaces
  <2>5. CopyInv'
    <3>1. AsInt(Len(source))' = AsInt(Len(source))
      BY <1>5 DEF AsInt
    <3>2. Len(dest') = total' + sent'
      BY <1>5, <1>11, <2>2
    <3>3. /\ sent' < bytes' /\ bytes' = Len(buffer') /\ pos' = total' + bytes' /\ total' + bytes' <= size'
          /\ \A i \in 1..bytes' : buffer'[i] = source'[total' + i]
      BY <1>1, <1>2, <1>5, <1>11 DEF CopyInv
    <3> QED
      BY <1>1, <1>2, <1>5, <1>7, <1>11, <2>1, <3>1, <3>2, <3>3 DEF CopyInv
  <2> QED
    BY <1>6, <2>3, <2>4, <2>5 DEF Inv
<1>12. CASE ~WriteFails /\ sent' = sent + ret /\ ~(sent' < bytes) /\ Goes("read") /\ total' = total + bytes
  <2>1. at' = "read"
    BY <1>2, <1>12, GoesSteps
  <2>2. sent + ret = bytes
    BY <1>7, <1>9, <1>12
  <2>3. Len(dest) = total + bytes /\ total + bytes \in 0..IntMax /\ bytes \in 0..bytes
    <3>1. Len(dest) = total + sent + ret
      BY <1>9, <1>12
    <3>2. total + sent + ret = total + bytes
      BY <1>7, <2>2
    <3>3. total + bytes \in 0..IntMax /\ bytes \in 0..bytes
      BY <1>7, <1>8, Bounds
    <3> QED
      BY <3>1, <3>2, <3>3
  <2>4. TypeOK'
    BY <1>1, <1>2, <1>4, <1>5, <1>12, <2>1, <2>2, <2>3 DEF TypeOK, Labels
  <2>5. PlaceInv'
    BY <1>1, <1>2, <1>4, <1>5, <2>1 DEF PlaceInv, CopyPlaces, ListPlaces
  <2>6. CopyInv'
    <3>1. AsInt(Len(source))' = AsInt(Len(source))
      BY <1>5 DEF AsInt
    <3>2. Len(dest') = total' /\ pos' = total' /\ total' <= size' /\ dest' # Old
      BY <1>2, <1>5, <1>8, <1>12, <2>3
    <3> QED
      BY <1>1, <1>2, <1>5, <1>7, <2>1, <3>1, <3>2 DEF CopyInv
  <2> QED
    BY <1>6, <2>4, <2>5, <2>6 DEF Inv
<1> QED
  BY <1>3, <1>10, <1>11, <1>12

LEMMA CopiedKeeps ==
    ASSUME Inv, Copied
    PROVE  Inv'
<1>1. TypeOK /\ PlaceInv /\ CopyInv
  BY DEF Inv
<1>2. /\ at = "read" /\ phase = "idle" /\ total >= size /\ status' = 0 /\ Goes("close0")
      /\ UNCHANGED <<fd0, fd1, size, total, bytes, sent, files>>
  BY DEF Copied, copying
<1>3. Steps /\ at' = "close0" /\ link' = link
  BY <1>2, GoesSteps
<1>4. /\ phase' = "idle" /\ UNCHANGED <<cmd, name, call, ret, out, got, need, buffer, to, from>>
      /\ UNCHANGED <<source, dest, held, pos, left, served, cut>>
  BY <1>3 DEF Steps
<1>5. CallInv' /\ ToInv' /\ AnswerInv' /\ HeldInv' /\ ListInv'
  BY <1>2, <1>3, CopyStepKeeps DEF CopyPlaces
<1>6. TypeOK'
  BY <1>1, <1>2, <1>3, <1>4 DEF TypeOK, Labels
<1>7. PlaceInv'
  BY <1>1, <1>2, <1>3, <1>4 DEF PlaceInv, CopyPlaces, ListPlaces
<1>8. CopyInv'
  <2>1. total \in Nat /\ size \in Int /\ total <= size
    BY <1>1, <1>2, Bounds DEF TypeOK, CopyInv
  <2>2. total = size
    BY <1>2, <2>1
  <2>3. Len(dest) = AsInt(Len(source)) /\ dest # Old
    BY <1>1, <1>2, <2>2 DEF CopyInv
  <2>4. AsInt(Len(source))' = AsInt(Len(source))
    BY <1>4 DEF AsInt
  <2> QED
    BY <1>1, <1>2, <1>3, <1>4, <2>3, <2>4 DEF CopyInv, PlaceInv, CopyPlaces
<1> QED
  BY <1>5, <1>6, <1>7, <1>8 DEF Inv

\* One of the copies' files is closed, or there was none to close.
LEMMA ClosedKeeps ==
    ASSUME Inv, NEW side \in {0, 1}, NEW next, next = (IF side = 0 THEN "close1" ELSE "exit"),
           at = CloseAt(side), phase = "back" \/ (phase = "idle" /\ Fd(side) < 0),
           status' \in {-1, status}, Goes(next), UNCHANGED <<copying, files>>
    PROVE  Inv'
<1>1. TypeOK /\ PlaceInv /\ CallInv /\ ToInv /\ AnswerInv /\ CopyInv /\ HeldInv /\ ListInv
  BY DEF Inv
<1>2. Steps /\ at' = next /\ link' = link /\ UNCHANGED <<fd0, fd1, size, total, bytes, sent, files>>
  BY GoesSteps DEF copying
<1>3. /\ phase \in {"idle", "back"} /\ phase' = "idle"
      /\ UNCHANGED <<cmd, name, call, ret, out, got, need, buffer, to, from>>
      /\ UNCHANGED <<source, dest, held, pos, left, served, cut>>
  BY <1>2 DEF Steps
<1>4. at \in {"close0", "close1"} /\ at' \in {"close1", "exit"} /\ cmd \in Copies
  BY <1>1, <1>2 DEF CloseAt, PlaceInv, CopyPlaces
<1>5. status \in {-1, 0} /\ (status = -1 => status' = -1) /\ status' \in {-1, 0}
  BY <1>1 DEF TypeOK
<1>6. Aligned' => from = <<>>
  <2> SUFFICES ASSUME Aligned' PROVE from = <<>>
    OBVIOUS
  <2>1. Aligned
    BY <1>2, <1>3, <1>4, <1>5 DEF Aligned
  <2>2. CASE phase = "idle"
    BY <1>1, <2>1, <2>2 DEF AnswerInv, Before
  <2>3. CASE phase = "back"
    BY <1>4, <2>1, <2>3, Truth
  <2> QED
    BY <1>3, <2>2, <2>3
<1>7. to # <<>> => Late'
  <2> SUFFICES ASSUME to # <<>> PROVE Late'
    OBVIOUS
  <2>1. Late
    BY <1>1, <1>3 DEF ToInv
  <2> QED
    BY <1>3, <1>4, <1>5, <2>1 DEF Late
<1>8. CallInv' /\ ToInv' /\ AnswerInv'
  BY <1>1, <1>2, <1>6, <1>7, StepsKeepCalls DEF ToInv
<1>9. TypeOK'
  BY <1>1, <1>2, <1>3, <1>4, <1>5 DEF TypeOK, Labels
<1>10. PlaceInv'
  BY <1>1, <1>2, <1>3, <1>4, <1>5 DEF PlaceInv, CopyPlaces, ListPlaces
<1>11. CopyInv'
  <2>1. AsInt(Len(source))' = AsInt(Len(source))
    BY <1>3 DEF AsInt
  <2> QED
    BY <1>1, <1>2, <1>3, <1>4, <1>5, <2>1 DEF CopyInv
<1>12. HeldInv'
  <2> SUFFICES ASSUME NEW s \in held
               PROVE  \/ OnPs2(s) /\ link = "closed"
                      \/ OnPs2(s) /\ to # <<>> /\ at' \in ClosedAt(s) \cup {CloseAt(s)}
                      \/ Fd(s) >= 0 /\ at' \notin ClosedAt(s)
    BY <1>2, <1>3 DEF HeldInv, OnPs2, Fd
  <2>1. s \in {0, 1}
    BY <1>1 DEF TypeOK
  <2>2. \/ OnPs2(s) /\ link = "closed"
        \/ OnPs2(s) /\ to # <<>> /\ at \in ClosedAt(s) \cup {CloseAt(s)}
        \/ Fd(s) >= 0 /\ at \notin ClosedAt(s) /\ at # CloseAt(s)
    <3>1. at # OpenAt(s)
      BY <1>4 DEF OpenAt
    <3>2. fd0 \in Int /\ fd1 \in Int
      BY <1>1 DEF TypeOK
    <3>3. Fd(s) >= 0 /\ (at = CloseAt(s) => phase \in {"idle", "send"}) => at # CloseAt(s)
      <4> HAVE Fd(s) >= 0 /\ (at = CloseAt(s) => phase \in {"idle", "send"})
      <4> SUFFICES ASSUME at = CloseAt(s) PROVE FALSE
        OBVIOUS
      <4>1. s = side
        BY <2>1 DEF CloseAt
      <4>2. Fd(s) >= 0 => ~(Fd(s) < 0)
        BY <3>2 DEF Fd
      <4> QED
        BY <4>1, <4>2
    <3> QED
      BY <1>1, <3>1, <3>3 DEF HeldInv
  <2>3. at \in ClosedAt(s) \cup {CloseAt(s)} => at' \in ClosedAt(s) \cup {CloseAt(s)}
    BY <1>2, <2>1 DEF ClosedAt, CloseAt
  <2>4. at \notin ClosedAt(s) /\ at # CloseAt(s) => at' \notin ClosedAt(s)
    BY <1>2, <2>1 DEF ClosedAt, CloseAt
  <2> QED
    BY <2>2, <2>3, <2>4
<1>13. ListInv'
  BY <1>1, <1>2, <1>3, <1>4 DEF ListInv, Copies
<1> QED
  BY <1>8, <1>9, <1>10, <1>11, <1>12, <1>13 DEF Inv

\* A step of Close0 and Close1 is the call, or what comes after it.
LEMMA CloseSteps ==
    ASSUME Close0 \/ Close1
    PROVE  \/ CloseCall
           \/ \E side \in {0, 1} :
                /\ at = CloseAt(side) /\ (phase = "back" \/ (phase = "idle" /\ Fd(side) < 0))
                /\ status' = (IF phase = "back" /\ Fails THEN -1 ELSE status)
                /\ Goes(IF side = 0 THEN "close1" ELSE "exit") /\ UNCHANGED <<copying, files>>
<1>1. CASE Close0
  <2>1. CloseAt(0) = "close0" /\ Fd(0) = fd0
    BY DEF CloseAt, Fd
  <2> QED
    BY <1>1, <2>1 DEF Close0, Closing, CloseCall
<1>2. CASE Close1
  <2>1. CloseAt(1) = "close1" /\ Fd(1) = fd1
    BY DEF CloseAt, Fd
  <2> QED
    BY <1>2, <2>1 DEF Close1, Closing, CloseCall
<1> QED
  BY <1>1, <1>2

LEMMA CloseKeeps ==
    ASSUME Inv, Close0 \/ Close1
    PROVE  Inv'
<1>1. CASE CloseCall
  BY <1>1, CopyCallsKeep DEF CopyCalls
<1>2. CASE ~CloseCall
  <2>1. PICK side \in {0, 1} :
          /\ at = CloseAt(side) /\ (phase = "back" \/ (phase = "idle" /\ Fd(side) < 0))
          /\ status' \in {-1, status}
          /\ Goes(IF side = 0 THEN "close1" ELSE "exit") /\ UNCHANGED <<copying, files>>
    BY <1>2, CloseSteps
  <2> QED
    BY <2>1, ClosedKeeps
<1> QED
  BY <1>1, <1>2

\* A step of the commands without files of their own.
LEMMA OtherStepKeeps ==
    ASSUME Inv, Steps, link' = link, at \in {"single", "dopen", "dread", "dclose"}, phase = "back",
           at' \in {"exit", "dread", "dclose"}, at' # "exit" => at \in {"dopen", "dread"},
           status' \in {-1, 0}, at' # "exit" => status' = -1, files' \in 0..Entries,
           UNCHANGED <<fd0, fd1, size, total, bytes, sent>>, ListInv'
    PROVE  Inv'
<1>1. TypeOK /\ PlaceInv /\ CallInv /\ ToInv /\ AnswerInv /\ CopyInv /\ HeldInv /\ ListInv
  BY DEF Inv
<1>2. /\ phase' = "idle" /\ UNCHANGED <<cmd, name, call, ret, out, got, need, buffer, to, from>>
      /\ UNCHANGED <<source, dest, held, pos, left, served, cut>>
  BY DEF Steps
<1>3. cmd \notin Copies /\ (at # "single" => cmd = "dir") /\ to = <<>>
  BY <1>1, NothingAsked DEF PlaceInv, Copies, Singles, ListPlaces
<1>4. Aligned' => from = <<>>
  <2> SUFFICES ASSUME Aligned' PROVE from = <<>>
    OBVIOUS
  <2>1. at \in {"dopen", "dread"} /\ Aligned
    BY DEF Aligned
  <2> QED
    BY <2>1, Truth
<1>5. CallInv' /\ ToInv' /\ AnswerInv'
  BY <1>3, <1>4, StepsKeepCalls
<1>6. TypeOK'
  BY <1>1, <1>2 DEF TypeOK, Labels
<1>7. PlaceInv'
  BY <1>1, <1>2, <1>3 DEF PlaceInv, CopyPlaces, ListPlaces
<1>8. CopyInv'
  BY <1>1, <1>2, <1>3 DEF CopyInv
<1>9. HeldInv'
  <2> SUFFICES ASSUME NEW s \in held PROVE OnPs2(s) /\ link = "closed"
    BY <1>2 DEF HeldInv, OnPs2
  <2>1. s \in {0, 1} /\ Fd(s) = -1
    BY <1>1, <1>3 DEF TypeOK, PlaceInv, Fd
  <2> QED
    BY <1>1, <1>3, <2>1 DEF HeldInv, OpenAt
<1> QED
  BY <1>5, <1>6, <1>7, <1>8, <1>9 DEF Inv

LEMMA SingleDoneKeeps ==
    ASSUME Inv, SingleDone
    PROVE  Inv'
<1>1. TypeOK /\ PlaceInv /\ ListInv
  BY DEF Inv
<1>2. /\ at = "single" /\ phase = "back" /\ status' = (IF Fails THEN -1 ELSE 0) /\ Goes("exit")
      /\ UNCHANGED <<fd0, fd1, size, total, bytes, sent, files>>
  BY DEF SingleDone, copying
<1>3. Steps /\ at' = "exit" /\ link' = link
  BY <1>2, GoesSteps
<1>4. UNCHANGED <<cmd, left, cut>> /\ cmd # "dir"
  BY <1>1, <1>2, <1>3 DEF Steps, PlaceInv, Singles
<1>5. ListInv'
  BY <1>1, <1>2, <1>3, <1>4 DEF ListInv
<1>6. files' \in 0..Entries /\ status' \in {-1, 0}
  BY <1>1, <1>2 DEF TypeOK
<1> QED
  BY <1>2, <1>3, <1>5, <1>6, OtherStepKeeps

LEMMA DirOpenedKeeps ==
    ASSUME Inv, DirOpened
    PROVE  Inv'
<1>1. TypeOK /\ PlaceInv /\ ListInv
  BY DEF Inv
<1>2. /\ at = "dopen" /\ phase = "back" /\ Goes(IF Fails THEN "exit" ELSE "dread")
      /\ UNCHANGED <<status, fd0, fd1, size, total, bytes, sent, files>>
  BY DEF DirOpened, copying
<1>3. Steps /\ at' = (IF Fails THEN "exit" ELSE "dread") /\ link' = link
  BY <1>2, GoesSteps
<1>4. UNCHANGED <<cmd, left, cut>> /\ status = -1
  BY <1>1, <1>2, <1>3 DEF Steps, PlaceInv, TypeOK
<1>5. ListInv'
  BY <1>1, <1>2, <1>3, <1>4 DEF ListInv
<1>6. files' \in 0..Entries
  BY <1>1, <1>2 DEF TypeOK
<1> QED
  BY <1>2, <1>3, <1>4, <1>5, <1>6, OtherStepKeeps

LEMMA DirReadKeeps ==
    ASSUME Inv, DirRead
    PROVE  Inv'
<1>1. TypeOK /\ PlaceInv /\ ListInv
  BY DEF Inv
<1>2. /\ at = "dread" /\ phase = "back" /\ Goes(IF ret > 0 THEN "dread" ELSE "dclose")
      /\ files' = (IF ret > 0 THEN files + 1 ELSE files)
      /\ UNCHANGED <<status, fd0, fd1, size, total, bytes, sent>>
  BY DEF DirRead, copying
<1>3. Steps /\ at' = (IF ret > 0 THEN "dread" ELSE "dclose") /\ link' = link
  BY <1>2, GoesSteps
<1>4. UNCHANGED <<cmd, left, cut, from>> /\ status = -1 /\ phase' = "idle"
  BY <1>1, <1>2, <1>3 DEF Steps, PlaceInv, TypeOK
<1>5. files \in Nat /\ left \in Nat
  BY <1>1, Bounds DEF TypeOK
<1>6. \/ /\ ret \in {-1, 0, 1} /\ (ret = -1 => cut) /\ (ret = 0 => files = Entries)
         /\ ret = 1 => files + 1 + left = Entries
      \/ ret = -1 /\ link = "closed" /\ from = <<>>
  <2>1. Aligned
    BY <1>2 DEF Aligned
  <2> QED
    BY <1>2, <2>1, Truth DEF Outcome
<1>7. CASE ret = 1
  <2>1. files' = files + 1 /\ at' = "dread" /\ files + 1 + left = Entries
    BY <1>2, <1>3, <1>6, <1>7
  <2>2. files + 1 \in 0..Entries /\ files + 1 + left <= Entries
    BY <1>5, <2>1, Bounds
  <2>3. ListInv'
    BY <1>4, <2>1, <2>2 DEF ListInv
  <2> QED
    BY <1>2, <1>3, <1>4, <2>1, <2>2, <2>3, OtherStepKeeps
<1>8. CASE ret # 1
  <2>1. ret \in {-1, 0}
    BY <1>6, <1>8
  <2>2. files' = files /\ at' = "dclose"
    BY <1>2, <1>3, <2>1
  <2>3. files = Entries \/ cut \/ (link = "closed" /\ from = <<>>)
    BY <1>6, <2>1
  <2>4. ListInv'
    BY <1>1, <1>3, <1>4, <2>2, <2>3 DEF ListInv
  <2>5. files \in 0..Entries
    BY <1>1 DEF TypeOK
  <2> QED
    BY <1>2, <1>3, <1>4, <2>2, <2>4, <2>5, OtherStepKeeps
<1> QED
  BY <1>7, <1>8

LEMMA DirClosedKeeps ==
    ASSUME Inv, DirClosed
    PROVE  Inv'
<1>1. TypeOK /\ PlaceInv /\ ListInv
  BY DEF Inv
<1>2. /\ at = "dclose" /\ phase = "back" /\ status' = (IF Fails THEN -1 ELSE 0) /\ Goes("exit")
      /\ UNCHANGED <<fd0, fd1, size, total, bytes, sent, files>>
  BY DEF DirClosed, DirStatus, copying
<1>3. Steps /\ at' = "exit" /\ link' = link
  BY <1>2, GoesSteps
<1>4. UNCHANGED <<cmd, left, cut, from>> /\ (ret = -1 => Fails)
  BY <1>3 DEF Steps, Fails
<1>5. status' = 0 => files = Entries \/ cut
  <2>1. files = Entries \/ cut \/ ret = -1
    BY <1>1, <1>2 DEF ListInv
  <2> QED
    BY <1>2, <1>4, <2>1
<1>6. ListInv'
  BY <1>1, <1>2, <1>3, <1>4, <1>5 DEF ListInv
<1>7. files' \in 0..Entries /\ status' \in {-1, 0}
  BY <1>1, <1>2 DEF TypeOK
<1> QED
  BY <1>2, <1>3, <1>6, <1>7, OtherStepKeeps

----------------------------------------------------------------------------
(* The theorems.                                                           *)

LEMMA InitInv == Init => Inv
<1> SUFFICES ASSUME Init PROVE Inv
  OBVIOUS
<1>1. /\ cmd \in DOMAIN CommandLines /\ name \in CommandLines[cmd]
      /\ at = "start" /\ status = -1 /\ phase = "idle" /\ link = "none"
      /\ fd0 = -1 /\ fd1 = -1 /\ size = 0 /\ total = 0 /\ bytes = 0 /\ sent = 0 /\ files = 0
      /\ buffer = <<>> /\ ret = 0 /\ out = <<>> /\ got = <<>> /\ need = 0 /\ to = <<>> /\ from = <<>>
      /\ dest = Old /\ held = {} /\ pos = 0 /\ left = Entries /\ cut = FALSE
  BY DEF Init
<1>2. PICK k \in Nat : source = File(k) /\ k \in Lengths \cup {0}
  <2>1. PICK n \in Lengths : source = File(IF cmd \in Copies THEN n ELSE 0)
    BY DEF Init
  <2>2. n \in Nat
    BY Bounds
  <2> QED
    BY <2>1, <2>2
<1>3. source \in Seq(Nat) /\ Len(source) = k
  <2>1. source = [i \in 1..k |-> i]
    BY <1>2 DEF File
  <2>2. source \in [1..k -> Nat]
    BY <2>1
  <2> QED
    BY <1>2, <2>1, <2>2
<1>4. TypeOK
  <2>1. size \in -(IntMax + 1)..IntMax /\ total \in 0..IntMax /\ bytes \in 0..Buffer /\ sent \in 0..bytes
    BY <1>1, Bounds
  <2>2. buffer \in Seq(Int) /\ Len(buffer) <= Buffer
    BY <1>1, Bounds
  <2>3. files \in 0..Entries /\ left \in 0..Entries
    BY <1>1, Bounds
  <2>4. out \in Seq(Cells) /\ got \in Seq(Cells) /\ to \in Seq(Cells) /\ from \in Seq(Cells)
    BY <1>1
  <2>5. dest \in Seq(Nat)
    BY <1>1 DEF Old
  <2>6. ret \in Int /\ need \in Nat /\ pos \in Nat
    BY <1>1
  <2>7. /\ at \in Labels /\ status \in {-1, 0} /\ fd0 \in {-1, 0} /\ fd1 \in {-1, 1} /\ cut \in BOOLEAN
        /\ phase \in {"idle", "send", "reply", "data", "back"} /\ link \in {"none", "up", "closed"}
        /\ held \subseteq {0, 1}
    BY <1>1 DEF Labels
  <2> QED
    BY <1>3, <2>1, <2>2, <2>3, <2>4, <2>5, <2>6, <2>7 DEF TypeOK
<1>5. PlaceInv
  BY <1>1, FsAssumption DEF PlaceInv, CopyPlaces, ListPlaces
<1>6. CallInv
  BY <1>1 DEF CallInv
<1>7. ToInv
  BY <1>1 DEF ToInv
<1>8. AnswerInv
  BY <1>1 DEF AnswerInv
<1>9. CopyInv
  BY <1>1, <1>2, <1>3 DEF CopyInv
<1>10. HeldInv
  BY <1>1 DEF HeldInv
<1>11. ListInv
  <2>1. files + left = Entries /\ files + left <= Entries
    BY <1>1, Bounds
  <2> QED
    BY <1>1, <2>1 DEF ListInv
<1> QED
  BY <1>4, <1>5, <1>6, <1>7, <1>8, <1>9, <1>10, <1>11 DEF Inv

LEMMA StutterKeeps ==
    ASSUME Inv, UNCHANGED vars
    PROVE  Inv'
<1>1. /\ UNCHANGED <<cmd, name, at, status, fd0, fd1, size, total, bytes, sent, files>>
      /\ UNCHANGED <<phase, call, ret, out, got, need, buffer, link, to, from>>
      /\ UNCHANGED <<source, dest, held, pos, left, served, cut>>
  BY DEF vars, client, line, copying, rpc, wire, server, disks
<1>2. Remote' = Remote /\ OpAt' = OpAt /\ CountAt' = CountAt /\ Before' = Before /\ Aligned' = Aligned
  BY <1>1 DEF Remote, SideAt, OnPs2, OpAt, CountAt, Before, Aligned
<1>3. TypeOK' /\ PlaceInv' /\ CallInv'
  BY <1>1, <1>2 DEF Inv, TypeOK, PlaceInv, CallInv
<1>4. ToInv'
  <2>1. Asked' = Asked /\ Late' = Late
    BY <1>1 DEF Asked, Late
  <2>2. IsCommand(Asked)' = IsCommand(Asked) /\ IsCommand(to)' = IsCommand(to)
    BY <1>1, <2>1 DEF IsCommand, SentName
  <2> QED
    BY <1>1, <2>1, <2>2 DEF Inv, ToInv
<1>5. Answer' = Answer /\ Told' = Told /\ Result' = Result
  BY <1>1 DEF Answer, Told, Result
<1>6. AnswerInv'
  <2>1. /\ Outcome(Result)' = Outcome(Result) /\ Outcome(need)' = Outcome(need)
        /\ Outcome(ret)' = Outcome(ret)
    BY <1>1, <1>5 DEF Outcome
  <2> QED
    BY <1>1, <1>2, <1>5, <2>1 DEF Inv, AnswerInv
<1>7. CopyInv'
  BY <1>1, <1>2 DEF Inv, CopyInv
<1>8. HeldInv'
  BY <1>1, <1>5 DEF Inv, HeldInv, OnPs2, Fd
<1>9. ListInv'
  BY <1>1, <1>2 DEF Inv, ListInv
<1> QED
  BY <1>3, <1>4, <1>6, <1>7, <1>8, <1>9 DEF Inv

LEMMA NextKeeps == Inv /\ [Next]_vars => Inv'
<1> SUFFICES ASSUME Inv, [Next]_vars PROVE Inv'
  OBVIOUS
<1>1. CASE Network
  BY <1>1, SendPieceKeeps, SendFailsKeeps, ReceivePieceKeeps, ReceiveFailsKeeps DEF Network
<1>2. CASE Copy
  BY <1>2, CopyCallsKeep, CloseKeeps, Opened0Keeps, EndedKeeps, RewoundKeeps, Opened1Keeps,
     HaveReadKeeps, HaveWrittenKeeps, CopiedKeeps DEF Copy, CopyCalls
<1>3. CASE Single \/ List
  BY <1>3, OtherCallsKeep, DirOpenedKeeps, DirReadKeeps, DirClosedKeeps DEF List
<1>4. CASE Start \/ SingleDone
  BY <1>4, StartKeeps, SingleDoneKeeps
<1>5. CASE Serve \/ Closes
  BY <1>5, ServeKeeps, ClosesKeeps
<1>6. CASE UNCHANGED vars
  BY <1>6, StutterKeeps
<1> QED
  BY <1>1, <1>2, <1>3, <1>4, <1>5, <1>6 DEF Next, Client, Exited

LEMMA SpecInv == Spec => []Inv
BY InitInv, NextKeeps, PTL DEF Spec

\* The type invariant: above all, that the copies never use more than their buffer, whatever
\* length a server or a file system returns.
THEOREM TypesHold == Spec => []TypeOK
<1>1. Inv => TypeOK
  BY DEF Inv
<1> QED
  BY <1>1, SpecInv, PTL

\* The done: labels of the copies leave nothing open, after a failure, a connection lost and a
\* stream out of step too.
THEOREM FilesAreClosed == Spec => []NothingStaysOpen
<1>1. Inv => NothingStaysOpen
  <2> SUFFICES ASSUME Inv, at = "exit", NEW s \in held
               PROVE  OnPs2(s) /\ (link = "closed" \/ to # <<>>)
    BY DEF NothingStaysOpen
  <2>1. at \in ClosedAt(s) /\ at # OpenAt(s)
    BY DEF ClosedAt, OpenAt
  <2> QED
    BY <2>1 DEF Inv, HeldInv
<1> QED
  BY <1>1, SpecInv, PTL

\* fsclient_dir lists every entry or does not succeed, unless the server refused to go on.
THEOREM ListingsAreWhole == Spec => []ListingIsWhole
<1>1. Inv => ListingIsWhole
  BY DEF Inv, ListInv, ListingIsWhole
<1> QED
  BY <1>1, SpecInv, PTL

----------------------------------------------------------------------------
(* The copies implement FileCopy.                                          *)

\* The destination is emptied, or extended by what comes next in the source.
Grows ==
    \/ dest = Old /\ dest' = <<>>
    \/ dest # Old /\ \E k \in 1..(Len(source) - Len(dest)) :
                       dest' = dest \o SubSeq(source, Len(dest) + 1, Len(dest) + k)
FilesMove ==
    source' = source /\ (dest' = dest \/ (at' = at /\ at \in {"open1", "write"} /\ Grows))

LEMMA WriteGrows ==
    ASSUME Inv, at = "write", Before, NEW m \in Nat \ {0},
           dest' = dest \o SubSeq(source, Len(dest) + 1, Len(dest) + m),
           Len(dest') = total + sent + m, Len(dest') <= Len(source)
    PROVE  Grows
<1>1. Len(dest) = total + sent /\ dest # Old
  BY DEF Inv, CopyInv
<1>2. total \in Nat /\ sent \in Nat /\ Len(source) \in Nat
  BY Bounds DEF Inv, TypeOK
<1>3. total + sent + m <= Len(source)
  BY <1>1
<1>4. m \in 1..(Len(source) - (total + sent))
  BY <1>2, <1>3
<1> QED
  BY <1>1, <1>4 DEF Grows

LEMMA ServeMoves ==
    ASSUME Inv, Serve
    PROVE  FilesMove
<1>1. at' = at
  BY DEF Serve, client
<1>2. CASE phase # "reply"
  BY <1>2, ServeLateKeeps DEF FilesMove
<1>3. CASE phase = "reply"
  <2>1. link = "up" /\ to # <<>> /\ Before
    BY <1>3, ServeFacts DEF Before
  <2>2. PICK r : Performs(r)
    BY ServeFacts
  <2>3. /\ source' = source
        /\ at \notin {"open1", "write"} => dest' = dest
        /\ at = "open1" => dest' = (IF r >= 0 THEN <<>> ELSE dest)
        /\ at = "write" /\ ~(r > 0) => dest' = dest
    BY <1>3, <2>1, <2>2, ServerFiles
  <2>4. at = "open1" => dest = Old
    BY <2>1 DEF Inv, CopyInv
  <2>5. ASSUME at = "write", r > 0 PROVE Grows
    <3> DEFINE m == Smaller(r, call.n)
    <3>1. /\ m \in 1..call.n /\ Len(dest') = total + sent + m /\ Len(dest') <= Len(source)
          /\ dest' = dest \o SubSeq(source, Len(dest) + 1, Len(dest) + m)
      BY <1>3, <2>1, <2>2, <2>5, ServerWrites
    <3>2. call.n \in Int
      BY <1>3, CallTypes
    <3> HIDE DEF m
    <3>3. m \in Nat \ {0}
      BY <3>1, <3>2
    <3> QED
      BY <2>1, <2>5, <3>1, <3>3, WriteGrows
  <2> QED
    BY <1>1, <2>3, <2>4, <2>5 DEF FilesMove, Grows
<1> QED
  BY <1>2, <1>3

LEMMA CopyCallMoves ==
    ASSUME Inv, NEW data, CopyCall(data)
    PROVE  FilesMove
<1>1. phase = "idle" /\ at' = at /\ at \in CopyPlaces /\ Before
  BY DEF CopyCall, Calls, client, Before
<1>2. CASE OnPs2(SideAt)
  <2>1. FileCall(OpAt, CountAt, data)
    BY <1>2 DEF CopyCall, Calls
  <2>2. UNCHANGED <<source, dest>>
    BY <2>1 DEF FileCall, Rpc, server, disks
  <2> QED
    BY <2>2 DEF FilesMove
<1>3. CASE ~OnPs2(SideAt)
  <2>1. SystemCall(OpAt, SideAt, CountAt, data) /\ data \in Seq(Int)
    BY <1>3 DEF CopyCall, Calls
  <2>2. PICK r \in Results(OpAt, SideAt, CountAt) : FileOp(OpAt, SideAt, data, r)
    BY <2>1 DEF SystemCall
  <2>3. at = "write" => Len(data) = bytes - sent /\ \A i \in 1..(bytes - sent) : data[i] = buffer[sent + i]
    BY DEF CopyCall, CountAt
  <2>4. /\ source' = source
        /\ at \notin {"open1", "write"} => dest' = dest
        /\ at = "open1" => dest' = (IF r >= 0 THEN <<>> ELSE dest)
        /\ at = "write" /\ r <= 0 => dest' = dest
        /\ at = "write" /\ r > 0 =>
             /\ Len(dest') = total + sent + r /\ Len(dest') <= Len(source)
             /\ dest' = dest \o SubSeq(source, Len(dest) + 1, Len(dest) + r)
    BY <1>1, <2>1, <2>2, <2>3, LocalFiles
  <2>5. at = "open1" => dest = Old
    BY <1>1 DEF Inv, CopyInv
  <2>6. r \in Int /\ (r <= 0 \/ r > 0)
    <3>1. r \in Int
      BY <1>1, <2>2, LocalResults
    <3> QED
      BY <3>1
  <2>7. ASSUME at = "write", r > 0 PROVE Grows
    <3>1. r \in Nat \ {0}
      BY <2>6, <2>7
    <3> QED
      BY <1>1, <2>4, <2>7, <3>1, WriteGrows
  <2> QED
    BY <1>1, <2>4, <2>5, <2>6, <2>7 DEF FilesMove, Grows
<1> QED
  BY <1>2, <1>3

\* Where the program ends, and with which status.
Ending ==
    \/ at' = at /\ UNCHANGED <<cmd, status>>
    \/ at' # "exit" /\ at # "exit" /\ cmd' = cmd
    \/ at # "exit" /\ at' = "exit" /\ cmd' = cmd
          /\ (cmd \in Copies => status' \in {-1, status} /\ UNCHANGED <<source, dest>>)

LEMMA NextMoves ==
    ASSUME Inv, Next
    PROVE  FilesMove /\ Ending
<1>1. CASE Network \/ Closes \/ Exited
  <2>1. UNCHANGED <<source, dest, at, cmd, status>>
    BY <1>1 DEF Network, SendPiece, SendFails, ReceivePiece, ReceiveFails, Closes, Exited, vars,
       client, line, server, disks
  <2> QED
    BY <2>1 DEF FilesMove, Ending
<1>2. CASE Serve
  <2>1. UNCHANGED <<at, cmd, status>>
    BY <1>2 DEF Serve, client, line
  <2> QED
    BY <1>2, <2>1, ServeMoves DEF Ending
<1>3. CASE CopyCalls
  <2>1. PICK data : CopyCall(data)
    BY <1>3, CopyCallsAre
  <2>2. UNCHANGED <<at, cmd, status>>
    BY <2>1 DEF CopyCall, Calls, client, line
  <2> QED
    BY <2>1, <2>2, CopyCallMoves DEF Ending
<1>4. CASE Single \/ Dir("dopen") \/ Dir("dread") \/ Dir("dclose")
  <2>1. UNCHANGED <<source, dest, at, cmd, status>>
    BY <1>4 DEF Single, Dir, PathCall, DeviceCall, DirCall, Rpc, client, line, server, disks
  <2> QED
    BY <2>1 DEF FilesMove, Ending
<1>5. CASE Start
  <2>1. at = "start" /\ UNCHANGED <<source, dest, cmd, status>>
    BY <1>5 DEF Start, Goes, line, server, disks
  <2> QED
    BY <2>1 DEF FilesMove, Ending
<1>6. CASE Opened0 \/ Ended \/ Rewound \/ Opened1 \/ HaveRead \/ HaveWritten \/ Copied
  <2>1. at # "exit" /\ at' # "exit" /\ UNCHANGED <<source, dest, cmd>>
    BY <1>6 DEF Opened0, Ended, Rewound, Opened1, HaveRead, HaveWritten, Copied, Goes, line, server, disks
  <2> QED
    BY <2>1 DEF FilesMove, Ending
<1>7. CASE Close0 \/ Close1
  <2>1. CASE CloseCall
    BY <1>3, <2>1 DEF CopyCalls
  <2>2. CASE ~CloseCall
    <3>1. PICK side \in {0, 1} :
            /\ at = CloseAt(side) /\ status' \in {-1, status}
            /\ Goes(IF side = 0 THEN "close1" ELSE "exit")
      BY <1>7, <2>2, CloseSteps
    <3>2. at # "exit" /\ UNCHANGED <<source, dest, cmd>>
      BY <3>1 DEF Goes, line, server, disks, CloseAt
    <3> QED
      BY <3>1, <3>2 DEF FilesMove, Ending
  <2> QED
    BY <2>1, <2>2
<1>8. CASE SingleDone \/ DirOpened \/ DirRead \/ DirClosed
  <2>1. at \in {"single", "dopen", "dread", "dclose"} /\ UNCHANGED <<source, dest, cmd>>
    BY <1>8 DEF SingleDone, DirOpened, DirRead, DirClosed, Goes, line, server, disks
  <2>2. cmd \notin Copies
    BY <2>1 DEF Inv, PlaceInv, ListPlaces, Singles, Copies
  <2> QED
    BY <2>1, <2>2 DEF FilesMove, Ending
<1> QED
  BY <1>1, <1>2, <1>3, <1>4, <1>5, <1>6, <1>7, <1>8 DEF Next, Client, Copy, CopyCalls, List

\* fsclient_copyfrom, fsclient_copyto: as long as no file is of 2 * (IntMax + 1) bytes or more,
\* which lseek's result, an int, cannot tell from a shorter one, every copy is one of FileCopy:
\* the destination is the start of the source at every moment, and all of it when the copy
\* succeeds, whatever pieces the calls, the server and the network cut it into.
THEOREM CopiesAreFaithful ==
    ASSUME \A n \in Lengths : n < 2 * (IntMax + 1)
    PROVE  Spec => CopyIsFaithful
<1> DEFINE bar == IF at # "exit" \/ cmd \notin Copies THEN "running"
                  ELSE IF status = 0 THEN "copied" ELSE "failed"
<1>1. Init => Abstract!CopyInit
  <2> SUFFICES ASSUME Init PROVE Abstract!CopyInit
    OBVIOUS
  <2>1. Inv /\ at = "start" /\ dest = Old
    BY InitInv DEF Init
  <2>2. source \in {File(n) : n \in Lengths \cup {0}}
    BY <2>1 DEF Inv, CopyInv
  <2> QED
    BY <2>1, <2>2 DEF Abstract!CopyInit
<1>2. ASSUME Inv, [Next]_vars PROVE [Abstract!CopyNext]_(Abstract!copyVars)
  <2>1. CASE UNCHANGED vars
    <3>1. UNCHANGED <<source, dest, at, cmd, status>>
      BY <2>1 DEF vars, client, line, server, disks
    <3> QED
      BY <3>1 DEF Abstract!copyVars
  <2>2. CASE Next
    <3>1. FilesMove /\ Ending
      BY <1>2, <2>2, NextMoves
    <3>2. CASE bar' # bar
      <4>1. /\ at # "exit" /\ at' = "exit" /\ cmd' = cmd /\ cmd \in Copies
            /\ status' \in {-1, status} /\ UNCHANGED <<source, dest>>
        BY <3>1, <3>2 DEF Ending
      <4>2. CASE status' = 0
        <5>1. status = 0
          BY <4>1, <4>2
        <5>2. /\ Len(dest) = AsInt(Len(source)) /\ dest # Old /\ dest \in Seq(Nat) /\ source \in Seq(Nat)
              /\ Len(source) \in Lengths \cup {0}
              /\ \A i \in 1..Len(dest) : dest[i] = source[i]
          BY <1>2, <4>1, <5>1 DEF Inv, CopyInv, TypeOK
        <5>3. Len(source) \in 0..(2 * IntMax + 1) /\ Len(dest) \in Nat
          <6>1. Len(source) \in Nat /\ Len(dest) \in Nat
            BY <5>2
          <6>2. Len(source) < 2 * (IntMax + 1)
            BY <5>2, Bounds
          <6> QED
            BY <6>1, <6>2, Bounds
        <5>4. AsInt(Len(source)) = Len(source)
          <6>1. AsInt(Len(source)) >= 0
            BY <5>2, <5>3
          <6>2. Len(source) \in Int
            BY <5>3
          <6> QED
            BY <5>3, <6>1, <6>2, Ints
        <5>5. dest = source
          BY <5>2, <5>4, SeqEqual
        <5> QED
          BY <4>1, <4>2, <5>5 DEF Abstract!CopyNext, Abstract!Succeed
      <4>3. CASE status' # 0
        BY <4>1, <4>3 DEF Abstract!CopyNext, Abstract!Fail
      <4> QED
        BY <4>2, <4>3
    <3>3. CASE bar' = bar /\ dest' = dest
      BY <3>1, <3>3 DEF FilesMove, Abstract!copyVars
    <3>4. CASE bar' = bar /\ dest' # dest
      <4>1. source' = source /\ at \in {"open1", "write"} /\ Grows
        BY <3>1, <3>4 DEF FilesMove
      <4>2. bar = "running"
        BY <4>1
      <4>3. CASE dest = Old /\ dest' = <<>>
        BY <3>4, <4>1, <4>2, <4>3 DEF Abstract!CopyNext, Abstract!Truncate
      <4>4. CASE dest # Old /\ \E k \in 1..(Len(source) - Len(dest)) :
                                 dest' = dest \o SubSeq(source, Len(dest) + 1, Len(dest) + k)
        BY <3>4, <4>1, <4>2, <4>4 DEF Abstract!CopyNext, Abstract!Extend
      <4> QED
        BY <4>1, <4>3, <4>4 DEF Grows
    <3> QED
      BY <3>2, <3>3, <3>4
  <2> QED
    BY <1>2, <2>1, <2>2
<1> QED
  BY <1>1, <1>2, SpecInv, PTL DEF Spec, CopyIsFaithful, Abstract!CopySpec

----------------------------------------------------------------------------
(* The server does what the command stands for.                            *)

\* A step of the connection: the program stands still.
LEMMA ServedStill ==
    ASSUME ServedInv, UNCHANGED <<cmd, name, at, status, fd0, fd1, served>>,
           phase' \in {"send", "reply"} \/ to' # <<>> => call'.op \in OpsOf /\ SentName = "fits",
           Aligned' /\ phase' = "reply" /\ to' = <<>> /\ Told' /\ Result' >= 0 => Did(call'.op),
           Aligned' /\ phase' = "back" /\ Remote' /\ at # "read" /\ ret' >= 0 => Did(call'.op)
    PROVE  ServedInv'
<1>1. OpsOf' = OpsOf /\ SentName' = SentName /\ Needed' = Needed
  BY DEF OpsOf, SentName, Needed
<1>2. \A op : Did(op)' <=> Did(op)
  BY DEF Did
<1>3. \A side : (OnPs2(side)' <=> OnPs2(side)) /\ Fd(side)' = Fd(side)
  BY DEF OnPs2, Fd
<1>4. Did(call.op)' <=> Did(call'.op)
  BY DEF Did
<1> QED
  BY <1>1, <1>2, <1>3, <1>4 DEF ServedInv

LEMMA SendPieceServed ==
    ASSUME Inv, ServedInv, SendPiece
    PROVE  ServedInv'
<1>1. /\ phase = "send" /\ phase' \in {"send", "reply"}
      /\ UNCHANGED <<cmd, name, at, status, fd0, fd1, call, got, from, served>>
  BY DEF SendPiece, client, line, copying, server
<1>2. Aligned' => ~Told'
  <2>1. Aligned' = Aligned
    BY <1>1 DEF Aligned
  <2>2. Aligned => from = <<>> /\ got = <<>>
    BY <1>1 DEF Inv, AnswerInv, CallInv, Before
  <2>3. Aligned => Answer' = <<>>
    BY <1>1, <2>2 DEF Answer
  <2> QED
    BY <2>1, <2>3 DEF Told
<1>3. call.op \in OpsOf /\ SentName = "fits"
  BY <1>1 DEF ServedInv
<1> QED
  BY <1>1, <1>2, <1>3, ServedStill

LEMMA FailsServed ==
    ASSUME Inv, ServedInv, SendFails \/ ReceiveFails
    PROVE  ServedInv'
<1>1. /\ phase' = "back" /\ ret' = -1
      /\ UNCHANGED <<cmd, name, at, status, fd0, fd1, call, to, served>>
  BY DEF SendFails, ReceiveFails, Return, client, line, copying, server, wire
<1>2. to # <<>> => call.op \in OpsOf /\ SentName = "fits"
  BY DEF ServedInv
<1>3. ~(ret' >= 0)
  BY <1>1
<1> QED
  BY <1>1, <1>2, <1>3, ServedStill

LEMMA ReceivePieceServed ==
    ASSUME Inv, ServedInv, ReceivePiece
    PROVE  ServedInv'
<1>1. phase \in {"reply", "data"} /\ from # <<>>
  BY DEF ReceivePiece
<1>2. PICK k, cells :
        /\ Received(k, cells)
        /\ \/ /\ ~AllReceived(cells)
              /\ got' = cells /\ UNCHANGED <<phase, ret, need, buffer>>
           \/ /\ AllReceived(cells) /\ phase = "reply"
              /\ Responded(cells)
           \/ /\ AllReceived(cells) /\ phase = "data"
              /\ Return(need)
              /\ buffer' = [i \in DOMAIN cells |-> cells[i].v]
              /\ UNCHANGED <<got, need>>
  BY ReceivePieces
<1>3. /\ UNCHANGED <<cmd, name, at, status, fd0, fd1, call, to, served>>
      /\ UNCHANGED <<size, total, bytes, sent>>
  BY <1>2 DEF Received
<1>4. /\ phase \in {"send", "reply"} \/ to # <<>> => call.op \in OpsOf /\ SentName = "fits"
      /\ Aligned /\ phase = "reply" /\ to = <<>> /\ Told /\ Result >= 0 => Did(call.op)
  BY DEF ServedInv
<1>5. Aligned' = Aligned /\ (Aligned => to = <<>>) /\ call = [op |-> OpAt, n |-> CountAt]
  BY <1>1, <1>3, HasCome DEF Aligned
<1>6. CASE ~AllReceived(cells) /\ got' = cells /\ UNCHANGED <<phase, ret, need, buffer>>
  <2>1. Answer' = Answer
    BY <1>2, <1>6 DEF Received, Moves, Answer
  <2>2. Told' = Told /\ Result' = Result
    BY <2>1 DEF Told, Result
  <2>3. phase' # "back"
    BY <1>1, <1>6
  <2> QED
    BY <1>3, <1>4, <1>5, <1>6, <2>2, <2>3, ServedStill
<1>7. CASE AllReceived(cells) /\ phase = "reply" /\ Responded(cells)
  <2>1. PICK r \in ResultOf(cells) :
          IF call.op # "read" \/ r <= 0
            THEN Return(r) /\ UNCHANGED <<got, need, buffer>>
            ELSE IF ReadTooLong(r)
              THEN Return(-1) /\ UNCHANGED <<got, need, buffer>>
              ELSE /\ phase' = "data" /\ got' = <<>> /\ need' = r
                   /\ UNCHANGED <<ret, buffer>>
    BY <1>7 DEF Responded
  <2>2. phase' \in {"back", "data"} /\ (phase' = "back" => ret' \in {r, -1})
    BY <2>1 DEF Return
  <2>3. need \in {2, 3} /\ Len(cells) = need /\ cells \in Seq(Cells)
    BY <1>2, <1>7, Lengths2 DEF Inv, CallInv, AllReceived, Received, Moves
  <2>4. cells[2] = Answer[2] /\ Told
    <3>1. 2 \in 1..Len(cells)
      BY <2>3
    <3>2. cells \o from' = Answer /\ from' \in Seq(Cells)
      BY <1>2 DEF Received, Moves, Answer
    <3>3. Len(Answer) = Len(cells) + Len(from') /\ Len(from') \in Nat
      BY <2>3, <3>2
    <3>4. Len(Answer) >= 2
      BY <2>3, <3>3
    <3> QED
      BY <1>2, <3>1, <3>4 DEF Received, Told
  <2>5. Aligned => r = Result
    <3>1. Aligned => Answer[2].t = "result"
      BY <1>5, <1>7, <2>4 DEF Inv, AnswerInv
    <3> QED
      BY <2>1, <2>4, <3>1 DEF ResultOf, Result
  <2>6. Aligned /\ phase' = "back" /\ ret' >= 0 => Did(call.op)
    <3> HAVE Aligned /\ phase' = "back" /\ ret' >= 0
    <3>1. ret' # -1
      OBVIOUS
    <3>2. Result >= 0
      BY <2>2, <2>5, <3>1
    <3> QED
      BY <1>4, <1>5, <1>7, <2>4, <3>2
  <2>7. phase' \notin {"send", "reply"}
    BY <2>2
  <2> QED
    BY <1>3, <1>4, <1>5, <2>6, <2>7, ServedStill
<1>8. CASE AllReceived(cells) /\ phase = "data" /\ Return(need)
  <2>1. phase' = "back" /\ at = "read"
    BY <1>8 DEF Return, Inv, CallInv
  <2> QED
    BY <1>3, <1>4, <2>1, ServedStill
<1> QED
  BY <1>2, <1>6, <1>7, <1>8

LEMMA ClosesServed ==
    ASSUME Inv, ServedInv, Closes
    PROVE  ServedInv'
<1>1. /\ to' = <<>> /\ UNCHANGED <<cmd, name, at, status, fd0, fd1, phase, call, ret, got, served>>
  BY DEF Closes, client, line, copying, rpc, server
<1>2. PICK k \in 0..Len(from) : from' = SubSeq(from, 1, k)
  BY DEF Closes
<1>3. from \in Seq(Cells) /\ got \in Seq(Cells)
  BY DEF Inv, TypeOK
<1>4. Parts(got, from, k, from')
  BY <1>2, <1>3, CutShort
<1>5. Told' => Told /\ Result' = Result
  <2>1. Answer' = got \o from' /\ Len(from) \in Nat /\ Len(got) \in Nat
    BY <1>1, <1>3 DEF Answer
  <2>2. Len(Answer') <= Len(Answer) /\ Len(Answer') \in Nat /\ Len(Answer) \in Nat
    BY <1>4, <2>1 DEF Parts, Answer
  <2>3. \A i \in 1..Len(Answer') : Answer'[i] = Answer[i]
    BY <1>4, <2>1 DEF Parts, Answer
  <2>4. Told' => 2 \in 1..Len(Answer') /\ Len(Answer) >= 2
    BY <2>2 DEF Told
  <2> QED
    BY <2>3, <2>4 DEF Told, Result
<1>6. Aligned' = Aligned /\ Remote' = Remote
  BY <1>1 DEF Aligned, Remote, SideAt, OnPs2
<1>7. Aligned /\ phase = "reply" /\ to # <<>> => ~Told
  <2> HAVE Aligned /\ phase = "reply" /\ to # <<>>
  <2>1. from = <<>> /\ got = <<>>
    BY DEF Inv, AnswerInv, Before
  <2> QED
    BY <2>1, EmptyAnswer
<1>8. /\ phase \in {"send", "reply"} => call.op \in OpsOf /\ SentName = "fits"
      /\ Aligned /\ phase = "reply" /\ to = <<>> /\ Told /\ Result >= 0 => Did(call.op)
      /\ Aligned /\ phase = "back" /\ Remote /\ at # "read" /\ ret >= 0 => Did(call.op)
  BY DEF ServedInv
<1> QED
  BY <1>1, <1>5, <1>6, <1>7, <1>8, ServedStill

\* The operation of the command, on the pathname of the command, is what gets served.
LEMMA ServeServed ==
    ASSUME Plain, Inv, ServedInv, Serve
    PROVE  ServedInv'
<1>1. /\ to # <<>> /\ to' = <<>> /\ IsCommand(to)
      /\ UNCHANGED <<cmd, name, at, status, fd0, fd1, phase, call, ret>>
  BY ServeFacts DEF Serve, client, line, copying, rpc
<1>2. PICK r : Performs(r)
  BY ServeFacts
<1>3. call.op \in OpsOf /\ SentName = "fits"
  BY <1>1 DEF ServedInv
<1>4. ServedOp = call.op
  <2>1. cmd \in Singles => cmd \notin {"sync", "mount", "umount"}
    BY DEF Plain, Inv, PlaceInv, Singles, Copies
  <2> QED
    BY <1>3, <2>1 DEF ServedOp, OpsOf
<1>5. to[2].t = "fits"
  BY <1>1, <1>3 DEF IsCommand
<1>6. served' = served \cup {[op |-> call.op, name |-> "fits", ok |-> r >= 0]}
  BY <1>2, <1>4, <1>5 DEF Performs
<1>7. OpsOf' = OpsOf /\ SentName' = SentName /\ Needed' = Needed /\ Aligned' = Aligned /\ Remote' = Remote
  BY <1>1 DEF OpsOf, SentName, Needed, Aligned, Remote, SideAt, OnPs2
<1>8. \A op : Did(op) => Did(op)'
  BY <1>6 DEF Did
<1>9. \A side : (OnPs2(side)' <=> OnPs2(side)) /\ Fd(side)' = Fd(side)
  BY <1>1 DEF OnPs2, Fd
<1>10. r >= 0 => Did(call.op)'
  <2> HAVE r >= 0
  <2>1. served' = served \cup {[op |-> call.op, name |-> "fits", ok |-> TRUE]}
    BY <1>6
  <2> QED
    BY <1>1, <2>1 DEF Did
<1>11. Aligned /\ phase = "reply" /\ Result' >= 0 => Did(call.op)'
  <2> SUFFICES ASSUME Aligned, phase = "reply", Result' >= 0 PROVE r >= 0
    BY <1>10
  <2>1. Result' = AsInt(r) /\ link = "up" /\ r \in ServerResults(ServedOp, call.n)
    BY <1>2, ServerAnswers, ServeFacts DEF Performs
  <2>2. r \in Int /\ r >= -1
    BY <1>1, <2>1, ServerResultsAre
  <2>3. AsInt(-1) = -1
    <3>1. -1 \in -1..IntMax
      BY Bounds
    <3> QED
      BY <3>1, Ints
  <2>4. r # -1
    BY <2>1, <2>3
  <2> QED
    BY <2>2, <2>4
<1>12. \A s \in served' : s.op \in OpsOf /\ s.name = "fits"
  BY <1>3, <1>6 DEF ServedInv
<1>13. Aligned /\ phase = "back" /\ Remote /\ at # "read" /\ ret >= 0 => Did(call.op)'
  <2>1. Did(call.op) => Did(call.op)'
    BY <1>1, <1>8 DEF Did
  <2> QED
    BY <2>1 DEF ServedInv
<1>14. \A op : Did(op) => [op |-> op, name |-> "fits", ok |-> TRUE] \in served'
  BY <1>6 DEF Did
<1>15. /\ \A side \in {0, 1} : cmd \in Copies /\ OnPs2(side) /\ Fd(side) >= 0 => Did("open")
       /\ \A side \in {0, 1} : cmd \in Copies /\ OnPs2(side) /\ at \in ClosedAt(side) /\ status = 0 => Did("close")
       /\ at \in {"dread", "dclose"} => Did("dopen")
       /\ at = "exit" /\ status = 0 /\ cmd \notin Copies => \A op \in Needed : Did(op)
       /\ name \in CommandLines[cmd]
  BY DEF ServedInv
<1> QED
  BY <1>1, <1>3, <1>7, <1>8, <1>9, <1>11, <1>12, <1>13, <1>15 DEF ServedInv

LEMMA RpcServed ==
    ASSUME ServedInv, NEW op, NEW path, NEW n, NEW data, Rpc(op, path, n, data), UNCHANGED client,
           op \in OpsOf, SentName = "fits"
    PROVE  ServedInv'
<1>1. /\ phase' = "send" /\ call'.op = op /\ UNCHANGED <<cmd, name, at, status, fd0, fd1, served>>
  BY DEF Rpc, client, line, copying, server
<1> QED
  BY <1>1, ServedStill

\* The copies call the server about a pathname that fits: open makes sure of it.
LEMMA CopyCallsServed ==
    ASSUME Inv, ServedInv, CopyCalls
    PROVE  ServedInv'
<1>1. PICK data : CopyCall(data)
  BY CopyCallsAre
<1>2. /\ phase = "idle" /\ at \in CopyPlaces /\ UNCHANGED client
      /\ UNCHANGED <<cmd, name, at, status, fd0, fd1>>
  BY <1>1 DEF CopyCall, Calls, client, line, copying
<1>3. cmd \in Copies
  BY <1>2 DEF Inv, PlaceInv
<1>4. CASE OnPs2(SideAt) /\ OpenRefuses(OpAt)
  <2>1. to = <<>>
    BY <1>2, <1>4, Quiet DEF Remote
  <2>2. phase' = "back" /\ ret' = -1 /\ UNCHANGED <<served, to>>
    BY <1>1, <1>4 DEF CopyCall, Calls, FileCall, Return, server, wire
  <2>3. ~(ret' >= 0)
    BY <2>2
  <2> QED
    BY <1>2, <2>1, <2>2, <2>3, ServedStill
<1>5. CASE OnPs2(SideAt) /\ ~OpenRefuses(OpAt)
  <2>1. Rpc(OpAt, IF OpAt = "open" THEN SentName ELSE "fits", CountAt, data)
    BY <1>1, <1>5 DEF CopyCall, Calls, FileCall
  <2>2. OpAt \in OpsOf
    <3>1. CASE cmd = "copyfrom"
      <4>1. at \in {"open0", "end", "rewind", "read", "close0"}
        BY <1>2, <1>5, <3>1 DEF CopyPlaces, OnPs2, SideAt
      <4>2. OpAt \in {"open", "lseek", "read", "close"}
        BY <4>1 DEF OpAt
      <4>3. OpsOf = {"open", "lseek", "read", "close"}
        BY <3>1 DEF OpsOf, Singles
      <4> QED
        BY <4>2, <4>3
    <3>2. CASE cmd = "copyto"
      <4>1. at \in {"open1", "write", "close1"}
        BY <1>2, <1>5, <3>2 DEF CopyPlaces, OnPs2, SideAt
      <4>2. OpAt \in {"open", "write", "close"}
        BY <4>1 DEF OpAt
      <4>3. OpsOf = {"open", "write", "close"}
        BY <3>2 DEF OpsOf, Singles
      <4> QED
        BY <4>2, <4>3
    <3> QED
      BY <1>3, <3>1, <3>2 DEF Copies
  <2>3. SentName = "fits"
    <3>1. CASE OpAt = "open"
      BY <1>5, <3>1 DEF OpenRefuses, SentName
    <3>2. CASE OpAt # "open"
      <4>1. at \notin {"open0", "open1"}
        BY <3>2 DEF OpAt
      <4>2. at = "close0" => fd0 >= 0
        BY DEF CopyCalls, CloseCall, Open0, End, Rewind, Open1, Read, Write
      <4>3. at = "close1" => fd1 >= 0
        BY DEF CopyCalls, CloseCall, Open0, End, Rewind, Open1, Read, Write
      <4>4. /\ at \in {"end", "rewind", "read"} => fd0 >= 0
            /\ at = "write" => fd1 >= 0
        BY DEF Inv, PlaceInv
      <4>5. SideAt \in {0, 1} /\ Fd(SideAt) >= 0
        BY <1>2, <4>1, <4>2, <4>3, <4>4 DEF SideAt, Fd, CopyPlaces
      <4>6. Did("open")
        BY <1>3, <1>5, <4>5 DEF ServedInv
      <4> QED
        BY <4>6 DEF ServedInv, Did
    <3> QED
      BY <3>1, <3>2
  <2> QED
    BY <1>2, <2>1, <2>2, <2>3, RpcServed
<1>6. CASE ~OnPs2(SideAt)
  <2>1. phase' = "back" /\ call' = [op |-> OpAt, n |-> CountAt] /\ UNCHANGED <<served, to>>
    BY <1>1, <1>6 DEF CopyCall, Calls, SystemCall, Return, wire
  <2>2. ~Remote'
    BY <1>2, <1>6 DEF Remote, OnPs2, SideAt, CopyPlaces, ListPlaces
  <2>3. to # <<>> => call'.op \in OpsOf /\ SentName = "fits"
    <3> HAVE to # <<>>
    <3>1. Late
      BY <1>2 DEF Inv, ToInv
    <3>2. at = "close1" /\ cmd = "copyfrom"
      BY <1>2, <3>1 DEF Late, CopyPlaces
    <3>3. OpAt = "close"
      BY <3>2 DEF OpAt
    <3>4. "close" \in OpsOf
      BY <3>2 DEF OpsOf, Singles
    <3>5. SentName = "fits"
      BY DEF ServedInv
    <3> QED
      BY <2>1, <3>3, <3>4, <3>5
  <2> QED
    BY <1>2, <2>1, <2>2, <2>3, ServedStill
<1> QED
  BY <1>4, <1>5, <1>6

LEMMA OtherCallsServed ==
    ASSUME Plain, Inv, ServedInv, Single \/ Dir("dopen") \/ Dir("dread") \/ Dir("dclose")
    PROVE  ServedInv'
<1>1. UNCHANGED client /\ at \in ListPlaces \cup {"single"}
  BY DEF Single, Dir, ListPlaces
<1>2. cmd \notin Copies /\ (at \in ListPlaces => cmd = "dir") /\ (at = "single" => cmd \in Singles)
  BY <1>1 DEF Inv, PlaceInv, Copies, Singles
<1>3. SentName = "fits"
  <2>1. cmd \in DOMAIN CommandLines /\ name \in CommandLines[cmd]
    BY DEF Inv, PlaceInv, ServedInv
  <2>2. name = "fits"
    BY <1>2, <2>1 DEF Plain
  <2> QED
    BY <2>2 DEF SentName
<1>4. CASE Single
  <2>1. PICK path : Rpc(cmd, path, 0, <<>>)
    BY <1>4 DEF Single, PathCall, DeviceCall
  <2>2. cmd \in OpsOf
    BY <1>2, <1>4 DEF OpsOf, Single, Singles
  <2> QED
    BY <1>1, <1>3, <2>1, <2>2, RpcServed
<1>5. ASSUME NEW label \in ListPlaces, Dir(label) PROVE ServedInv'
  <2>1. PICK path : Rpc(label, path, 0, <<>>)
    BY <1>5 DEF Dir, DirCall
  <2>2. cmd = "dir"
    BY <1>2, <1>5 DEF Dir
  <2>3. OpsOf = ListPlaces
    BY <2>2 DEF OpsOf, ListPlaces, Singles
  <2> QED
    BY <1>1, <1>3, <2>1, <2>3, RpcServed
<1> QED
  BY <1>4, <1>5 DEF ListPlaces

\* A step of the program: what it has learnt has to be so.
LEMMA StepsServed ==
    ASSUME ServedInv, Steps,
           \A side \in {0, 1} : cmd \in Copies /\ OnPs2(side) /\ Fd(side)' >= 0 => Did("open"),
           \A side \in {0, 1} : cmd \in Copies /\ OnPs2(side) /\ at' \in ClosedAt(side) /\ status' = 0
                                  => Did("close"),
           at' \in {"dread", "dclose"} => Did("dopen"),
           at' = "exit" /\ status' = 0 /\ cmd \notin Copies => \A op \in Needed : Did(op)
    PROVE  ServedInv'
<1>1. phase' = "idle" /\ UNCHANGED <<cmd, name, call, to, served>>
  BY DEF Steps
<1>2. OpsOf' = OpsOf /\ SentName' = SentName /\ Needed' = Needed
  BY <1>1 DEF OpsOf, SentName, Needed
<1>3. \A op : Did(op)' <=> Did(op)
  BY <1>1 DEF Did
<1>4. \A side : OnPs2(side)' <=> OnPs2(side)
  BY <1>1 DEF OnPs2
<1>5. Did("open")' = Did("open") /\ Did("close")' = Did("close") /\ Did("dopen")' = Did("dopen")
  BY <1>1 DEF Did
<1> QED
  BY <1>1, <1>2, <1>3, <1>4, <1>5 DEF ServedInv

\* A call that returned without an error was performed.
LEMMA WasDone ==
    ASSUME Inv, ServedInv, phase = "back", Aligned, Remote, at # "read", ~Fails
    PROVE  Did(OpAt)
<1>1. call.op = OpAt
  BY DEF Inv, CallInv
<1>2. ret >= 0
  BY DEF Inv, TypeOK, Fails
<1> QED
  BY <1>1, <1>2 DEF ServedInv

LEMMA StartServed ==
    ASSUME Inv, ServedInv, Start
    PROVE  ServedInv'
<1>1. at = "start" /\ phase = "idle" /\ UNCHANGED <<status, fd0, fd1>>
  BY DEF Start, copying, Inv, PlaceInv, CallInv
<1>2. Steps /\ at' \notin {"dread", "dclose"}
  BY <1>1 DEF Start, Goes, Steps, line, wire, server, disks, rpc
<1>3. fd0 = -1 /\ fd1 = -1 /\ status = -1
  BY <1>1 DEF Inv, PlaceInv, TypeOK
<1>4. \A side : ~(Fd(side)' >= 0)
  BY <1>1, <1>3 DEF Fd
<1> QED
  BY <1>1, <1>2, <1>3, <1>4, StepsServed

\* An open descriptor is one the server gave out.
LEMMA OpenedServed ==
    ASSUME Inv, ServedInv, Opened0 \/ Opened1
    PROVE  ServedInv'
<1>1. PICK side \in {0, 1} :
        /\ at = OpenAt(side) /\ phase = "back" /\ Fd(side)' = ret /\ Fd(1 - side)' = Fd(1 - side)
        /\ Steps /\ at' \in {"close0", "end", "read"}
  <2>1. CASE Opened0
    <3>1. at = "open0" /\ phase = "back" /\ fd0' = ret /\ fd1' = fd1
      BY <2>1 DEF Opened0
    <3>2. Steps /\ at' \in {"close0", "end", "read"}
      BY <2>1, <3>1, GoesSteps DEF Opened0
    <3>3. OpenAt(0) = "open0" /\ Fd(0)' = fd0' /\ Fd(1 - 0)' = fd1' /\ Fd(1 - 0) = fd1
      BY DEF OpenAt, Fd
    <3> QED
      BY <3>1, <3>2, <3>3
  <2>2. CASE Opened1
    <3>1. at = "open1" /\ phase = "back" /\ fd1' = ret /\ fd0' = fd0
      BY <2>2 DEF Opened1
    <3>2. Steps /\ at' \in {"close0", "end", "read"}
      BY <2>2, <3>1, GoesSteps DEF Opened1
    <3>3. OpenAt(1) = "open1" /\ Fd(1)' = fd1' /\ Fd(1 - 1)' = fd0' /\ Fd(1 - 1) = fd0
      BY DEF OpenAt, Fd
    <3> QED
      BY <3>1, <3>2, <3>3
  <2> QED
    BY <2>1, <2>2
<1>2. OpAt = "open" /\ at \in {"open0", "open1"} /\ SideAt = side
  BY <1>1 DEF OpAt, OpenAt, SideAt
<1>3. ASSUME NEW s \in {0, 1}, cmd \in Copies, OnPs2(s), Fd(s)' >= 0 PROVE Did("open")
  <2>1. CASE s = side
    <3>1. Remote /\ Aligned
      BY <1>2, <1>3, <2>1 DEF Remote, Aligned, CopyPlaces
    <3>2. ~Fails
      <4>1. ret >= 0 /\ ret \in Int
        BY <1>1, <1>3, <2>1 DEF Inv, TypeOK
      <4> QED
        BY <4>1 DEF Fails
    <3> QED
      BY <1>1, <1>2, <3>1, <3>2, WasDone
  <2>2. CASE s # side
    <3>1. s = 1 - side
      BY <2>2
    <3>2. Fd(s) >= 0
      BY <1>1, <1>3, <3>1
    <3> QED
      BY <1>3, <3>2 DEF ServedInv
  <2> QED
    BY <2>1, <2>2
<1>4. \A s \in {0, 1} : at' \notin ClosedAt(s)
  BY <1>1 DEF ClosedAt
<1>5. at' \notin {"dread", "dclose", "exit"}
  BY <1>1
<1> QED
  BY <1>1, <1>3, <1>4, <1>5, StepsServed

LEMMA CopyingServed ==
    ASSUME Inv, ServedInv, Ended \/ Rewound \/ HaveRead \/ HaveWritten \/ Copied
    PROVE  ServedInv'
<1>1. /\ phase \in {"idle", "back"} /\ UNCHANGED <<fd0, fd1>>
      /\ \E label \in {"close0", "rewind", "open1", "read", "write"} : Goes(label)
  BY DEF Ended, Rewound, HaveRead, HaveWritten, Copied, copying
<1>2. Steps /\ at' \in {"close0", "rewind", "open1", "read", "write"}
  BY <1>1, GoesSteps
<1>3. \A side : Fd(side)' = Fd(side)
  BY <1>1 DEF Fd
<1>4. \A side \in {0, 1} : cmd \in Copies /\ OnPs2(side) /\ Fd(side)' >= 0 => Did("open")
  BY <1>3 DEF ServedInv
<1>5. \A side : at' \notin ClosedAt(side)
  BY <1>2 DEF ClosedAt
<1>6. at' \notin {"dread", "dclose", "exit"}
  BY <1>2
<1> QED
  BY <1>2, <1>4, <1>5, <1>6, StepsServed

\* A copy that still succeeds has closed its file on the server.
LEMMA ClosedServed ==
    ASSUME Inv, ServedInv, Close0 \/ Close1
    PROVE  ServedInv'
<1>1. CASE CloseCall
  BY <1>1, CopyCallsServed DEF CopyCalls
<1>2. CASE ~CloseCall
  <2>1. PICK side \in {0, 1} :
          /\ at = CloseAt(side) /\ (phase = "back" \/ (phase = "idle" /\ Fd(side) < 0))
          /\ status' = (IF phase = "back" /\ Fails THEN -1 ELSE status)
          /\ Goes(IF side = 0 THEN "close1" ELSE "exit") /\ UNCHANGED <<copying, files>>
    BY <1>2, CloseSteps
  <2>2. Steps /\ at' = (IF side = 0 THEN "close1" ELSE "exit") /\ UNCHANGED <<fd0, fd1>>
    BY <2>1, GoesSteps DEF copying
  <2>3. \A s \in {0, 1} : cmd \in Copies /\ OnPs2(s) /\ Fd(s)' >= 0 => Did("open")
    <3>1. \A s : Fd(s)' = Fd(s)
      BY <2>2 DEF Fd
    <3> QED
      BY <3>1 DEF ServedInv
  <2>4. cmd \in Copies /\ at \in {"close0", "close1"} /\ OpAt = "close" /\ SideAt = side
    BY <2>1 DEF CloseAt, OpAt, SideAt, Inv, PlaceInv, CopyPlaces
  <2>5. ASSUME NEW s \in {0, 1}, OnPs2(s), at' \in ClosedAt(s), status' = 0 PROVE Did("close")
    <3>1. status = 0 /\ (phase = "back" => ~Fails)
      BY <2>1, <2>5
    <3>2. phase = "back"
      <4>1. fd0 = 0 /\ fd1 = 1
        BY <2>4, <3>1 DEF Inv, PlaceInv
      <4>2. ~(Fd(side) < 0)
        BY <4>1 DEF Fd
      <4> QED
        BY <2>1, <4>2
    <3>3. CASE s = side
      <4>1. Remote /\ Aligned
        BY <2>4, <2>5, <3>1, <3>3 DEF Remote, Aligned, CopyPlaces
      <4> QED
        BY <2>4, <3>1, <3>2, <4>1, WasDone
    <3>4. CASE s # side
      <4>1. s = 0 /\ side = 1
        BY <2>2, <2>5, <3>4 DEF ClosedAt
      <4>2. at \in ClosedAt(s)
        BY <2>1, <4>1 DEF ClosedAt, CloseAt
      <4> QED
        BY <2>4, <2>5, <3>1, <4>2 DEF ServedInv
    <3> QED
      BY <3>3, <3>4
  <2>6. at' \notin {"dread", "dclose"}
    BY <2>2
  <2> QED
    BY <2>2, <2>3, <2>4, <2>5, <2>6, StepsServed
<1> QED
  BY <1>1, <1>2

\* The commands without files of their own have one call, or, for dir, three.
LEMMA OthersServed ==
    ASSUME Inv, ServedInv, SingleDone \/ DirOpened \/ DirRead \/ DirClosed
    PROVE  ServedInv'
<1>1. /\ at \in ListPlaces \cup {"single"} /\ phase = "back" /\ UNCHANGED <<fd0, fd1>>
      /\ \E label \in {"exit", "dread", "dclose"} : Goes(label)
  BY DEF SingleDone, DirOpened, DirRead, DirClosed, copying, ListPlaces
<1>2. Steps /\ at' \in {"exit", "dread", "dclose"}
  BY <1>1, GoesSteps
<1>3. cmd \notin Copies /\ (at \in ListPlaces => cmd = "dir") /\ (at = "single" => cmd \in Singles)
  BY <1>1 DEF Inv, PlaceInv, Copies, Singles
<1>4. Remote /\ Aligned /\ at # "read"
  BY <1>1 DEF Remote, Aligned, ListPlaces
<1>5. ~Fails => Did(OpAt)
  BY <1>1, <1>4, WasDone
<1>6. /\ at = "single" => OpAt = cmd
      /\ at \in ListPlaces => OpAt = at
  BY DEF OpAt, ListPlaces
<1>7. at' \in {"dread", "dclose"} => Did("dopen")
  <2> HAVE at' \in {"dread", "dclose"}
  <2>1. CASE DirOpened
    <3>1. at = "dopen" /\ ~Fails
      BY <2>1, <1>2 DEF DirOpened, Goes
    <3> QED
      BY <1>5, <1>6, <3>1 DEF ListPlaces
  <2>2. CASE DirRead
    BY <2>2 DEF DirRead, ServedInv
  <2>3. CASE SingleDone \/ DirClosed
    BY <2>3 DEF SingleDone, DirClosed, Goes
  <2> QED
    BY <2>1, <2>2, <2>3
<1>8. ASSUME at' = "exit", status' = 0 PROVE \A op \in Needed : Did(op)
  <2>1. CASE SingleDone
    <3>1. at = "single" /\ ~Fails
      BY <1>8, <2>1 DEF SingleDone
    <3>2. cmd \in Singles /\ Did(cmd)
      BY <1>3, <1>5, <1>6, <3>1
    <3>3. OpsOf = {cmd}
      BY <3>2 DEF OpsOf, Singles
    <3> QED
      BY <3>2, <3>3 DEF Needed
  <2>2. CASE DirOpened \/ DirRead
    <3>1. status' = -1
      BY <1>1, <2>2 DEF DirOpened, DirRead, Inv, PlaceInv, TypeOK
    <3> QED
      BY <1>8, <3>1
  <2>3. CASE DirClosed
    <3>1. at = "dclose" /\ ~Fails
      BY <1>8, <2>3 DEF DirClosed, DirStatus
    <3>2. Did("dclose") /\ cmd = "dir"
      BY <1>3, <1>5, <1>6, <3>1 DEF ListPlaces
    <3>3. Did("dopen")
      BY <3>1 DEF ServedInv
    <3>4. OpsOf = {"dopen", "dread", "dclose"}
      BY <3>2 DEF OpsOf, Singles
    <3>5. Needed = {"dopen", "dclose"}
      BY <3>4 DEF Needed
    <3> QED
      BY <3>2, <3>3, <3>5
  <2> QED
    BY <2>1, <2>2, <2>3
<1> QED
  BY <1>2, <1>3, <1>7, <1>8, StepsServed

LEMMA InitServed == Init => ServedInv
<1> SUFFICES ASSUME Init PROVE ServedInv
  OBVIOUS
<1>1. /\ served = {} /\ name \in CommandLines[cmd] /\ phase = "idle" /\ to = <<>>
      /\ fd0 = -1 /\ fd1 = -1 /\ status = -1 /\ at = "start"
  BY DEF Init
<1>2. \A side : ~(Fd(side) >= 0)
  BY <1>1 DEF Fd
<1> QED
  BY <1>1, <1>2 DEF ServedInv

LEMMA NextServed ==
    ASSUME Plain, Inv, ServedInv, [Next]_vars
    PROVE  ServedInv'
<1>1. CASE Network \/ Serve \/ Closes
  BY <1>1, SendPieceServed, FailsServed, ReceivePieceServed, ServeServed, ClosesServed DEF Network
<1>2. CASE Copy
  BY <1>2, CopyCallsServed, OpenedServed, CopyingServed, ClosedServed DEF Copy, CopyCalls
<1>3. CASE Single \/ SingleDone \/ List
  BY <1>3, OtherCallsServed, OthersServed DEF List
<1>4. CASE Start
  BY <1>4, StartServed
<1>5. CASE UNCHANGED vars
  <2>1. /\ UNCHANGED <<cmd, name, at, status, fd0, fd1, served>>
        /\ UNCHANGED <<phase, call, ret, got, to, from>>
    BY <1>5 DEF vars, client, line, copying, rpc, wire, server
  <2>2. Aligned' = Aligned /\ Remote' = Remote /\ Told' = Told /\ Result' = Result
    BY <2>1 DEF Aligned, Remote, SideAt, OnPs2, Told, Result, Answer
  <2>3. /\ phase \in {"send", "reply"} \/ to # <<>> => call.op \in OpsOf /\ SentName = "fits"
        /\ Aligned /\ phase = "reply" /\ to = <<>> /\ Told /\ Result >= 0 => Did(call.op)
        /\ Aligned /\ phase = "back" /\ Remote /\ at # "read" /\ ret >= 0 => Did(call.op)
    BY DEF ServedInv
  <2> QED
    BY <2>1, <2>2, <2>3, ServedStill
<1> QED
  BY <1>1, <1>2, <1>3, <1>4, <1>5 DEF Next, Client, Exited

\* The server performs the operations of the command, on the pathname that was given, and
\* nothing else; and exit status 0 is only reached when the server opened and closed, or did
\* what the command asks for, without an error.  It needs what Plain says: sync, mount and
\* umount are sent with the numbers of read, write and lseek (ps2netfs.h), and the commands
\* other than the copies send the first 255 characters of a pathname that is longer.
THEOREM CommandsAreServed ==
    ASSUME Plain
    PROVE  Spec => []ServedAsAsked
<1>1. Inv /\ ServedInv => ServedAsAsked
  <2> SUFFICES ASSUME Inv, ServedInv PROVE ServedAsAsked
    OBVIOUS
  <2>1. \A s \in served : s.op \in OpsOf /\ s.name = "fits"
    BY DEF ServedInv
  <2>2. ASSUME at = "exit", status = 0, cmd \in Copies PROVE \A op \in Needed : Did(op)
    <3> DEFINE side == IF cmd = "copyfrom" THEN 0 ELSE 1
    <3>1. side \in {0, 1} /\ OnPs2(side) /\ at \in ClosedAt(side)
      BY <2>2 DEF OnPs2, ClosedAt
    <3>2. fd0 = 0 /\ fd1 = 1
      BY <2>2 DEF Inv, PlaceInv
    <3>3. Fd(side) >= 0
      BY <3>2 DEF Fd
    <3>4. Did("open") /\ Did("close")
      BY <2>2, <3>1, <3>3 DEF ServedInv
    <3>5. Needed \subseteq {"open", "close"}
      <4>1. OpsOf \subseteq {"open", "close", "lseek", "read", "write"}
        BY <2>2 DEF OpsOf, Copies, Singles
      <4> QED
        BY <4>1 DEF Needed
    <3> QED
      BY <3>4, <3>5
  <2>3. at = "exit" /\ status = 0 => \A op \in Needed : Did(op)
    BY <2>2 DEF ServedInv
  <2> QED
    BY <2>1, <2>3 DEF ServedAsAsked, Did
<1>2. Inv /\ ServedInv /\ [Next]_vars => ServedInv'
  BY NextServed
<1> QED
  BY <1>1, <1>2, InitServed, SpecInv, PTL DEF Spec
=============================================================================
