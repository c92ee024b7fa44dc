-------------------------- MODULE Ps2ClientProofs --------------------------
(***************************************************************************)
(* Proofs about the session, for every command, option, timeout, number of *)
(* descriptors, datagrams and requests.                                    *)
(***************************************************************************)
EXTENDS Ps2Client, TLAPS

\* A request of the queue, or the one the request thread is serving.
InHand == req \in {"serve", "reply"}

\* Handshake clocks: every dumpreg but the last stands for Resend ticks of hs.
FloodInv ==
    /\ main \in Connecting => sends = 0
    /\ main \in Handshaking /\ sends > 0 =>
         hs >= Limit \/ (sends - 1) * Resend + since <= hs
    /\ NoFlood

\* The loss of the connection, from the wire to the exit status.
LossInv ==
    /\ lost \/ req = "break" => conn \in {"closed", "garbled", "unread"}
    /\ \A i \in 1..Len(request_q) :
         /\ request_q[i].op = "bad" => conn = "garbled"
         /\ request_q[i].op = "data" => conn \in {"closed", "garbled", "unread"}
    /\ InHand \/ request_q # <<>> => conn # "none"
    /\ main \in {"connect_console", "connect_request"} => conn = "none"
    /\ main = "drain" => lost
    /\ main \notin Leaving => status = EXIT_OK
    /\ status = EXIT_CONNLOST /\ ~marker_seen => lost

\* Who may close which descriptor: every descriptor that is held, about to be
\* closed or being handed over is open, and it is so in one place only.
Closing(r) == r.op = "close" /\ r.fd # -1
HandingOver == req = "reply" /\ request.op \in {"open", "open_ping"} /\ request.fd # -1
ServingClose == req = "serve" /\ Closing(request)
OwnInv ==
    /\ held \subseteq fds
    /\ \A i \in 1..Len(request_q) :
         Closing(request_q[i]) => request_q[i].fd \in fds \ held
    /\ \A i, j \in 1..Len(request_q) :
         i # j /\ Closing(request_q[i]) /\ Closing(request_q[j])
           => request_q[i].fd # request_q[j].fd
    /\ HandingOver \/ ServingClose =>
         /\ request.fd \in fds \ held
         /\ \A i \in 1..Len(request_q) : Closing(request_q[i]) => request_q[i].fd # request.fd
    /\ dump = "opened" =>
         /\ dump_fd \in fds \ held
         /\ \A i \in 1..Len(request_q) : Closing(request_q[i]) => request_q[i].fd # dump_fd
         /\ HandingOver \/ ServingClose => request.fd # dump_fd

\* One dump at a time: its requests follow each other.
DumpInv ==
    /\ \A i \in 1..Len(request_q) : request_q[i].by = "dump" =>
         /\ dump \in {"opening", "closing"}
         /\ request_q[i].op = "close" => dumped
         /\ \A j \in 1..Len(request_q) : request_q[j].by = "dump" => i = j
         /\ ~(InHand /\ request.by = "dump")
    /\ InHand /\ request.by = "dump" =>
         /\ dump \in {"opening", "closing"}
         /\ request.op = "close" => dumped
    /\ \A i \in 1..Len(request_q) : request_q[i].op = "open_ping" => request_q[i].by = "dump"
    /\ InHand /\ request.op = "open_ping" => request.by = "dump"

\* The handshake's descriptor is not one a program can close.
PingOwned ==
    ping_fd # -1 =>
      /\ ping_fd \in fds \ held
      /\ \A i \in 1..Len(request_q) :
           request_q[i].op = "close" /\ request_q[i].by = "program" => request_q[i].fd # ping_fd
      /\ InHand /\ request.by = "program"
           /\ (request.op = "close" \/ (request.op = "open" /\ req = "reply"))
              => request.fd # ping_fd

\* What the handshake's answer stands for, and where main has got with it.
PingTold ==
    /\ ping_answered => dumped
    /\ WantsRequest /\ main \in {"command"} \cup Looping => ping_answered
    /\ cmd = "ping" => main \notin {"command"} \cup Looping
    /\ cmd = "ping" /\ main \in Leaving /\ status = EXIT_OK => ping_answered

PingInv == PingOwned /\ PingTold

\* The statuses told on the line of the marker at i, the first of them, and whether that
\* line goes on.
ToldAt(s, i) == {k \in i..Len(s) : HasStatus(s[k]) /\ SameLine(s, i, k)}
Least(S, k) == k \in S /\ \A j \in S : k <= j
StatusIs(s, i, n) == IF ToldAt(s, i) = {} THEN n = 0
                     ELSE \E k \in ToldAt(s, i) : Least(ToldAt(s, i), k) /\ n = s[k].n
Unfinished(s, i) == \A k \in i..Len(s) : ~s[k].nl

\* The line being scanned is that of the first marker of the stream s, or there is none in it.
LineInv(s, l) ==
    IF l.found
      THEN \E i \in MarkerAt(s) :
             /\ Unfinished(s, i) /\ StatusIs(s, i, l.status)
             /\ l.told <=> ToldAt(s, i) # {}
      ELSE l = EmptyLine /\ \A j \in DOMAIN s : ~HasMarker(s[j])

\* What is known of the marker is what the stream scanned says, until main has decided.
StoryInv ==
    /\ ~marker => ~marker_seen
    /\ marker /\ main \notin Leaving =>
         IF marker_seen
           THEN \E i \in MarkerAt(scanned) :
                  ~Unfinished(scanned, i) /\ StatusIs(scanned, i, marker_status)
           ELSE LineInv(scanned, line)
----------------------------------------------------------------------------
USE DEF mainVars, params, clocks, sockets, threadVars, conVars, reqVars, sharedVars, flags,
        scanVars, ps2Vars, dumpVars, hostVars

\* A step of the session is a step of one thread, of the environment or of time.
LEMMA NextSplit ==
    ASSUME [Next]_vars
    PROVE  \/ ConnectConsole \/ ConnectRequest \/ ConnectCommand \/ StartThreads
           \/ HandshakePoll \/ HandshakeCheck \/ SendCommand \/ EnterMainloop
           \/ Look \/ Decide \/ IdleOut \/ DrainOut
           \/ DisconnectCancel \/ DisconnectClose \/ Return
           \/ WaitConsole \/ ReceiveConsole \/ ReceiveConsoleFails \/ ScanConsole
           \/ StampConsole \/ CancelConsole
           \/ WaitRequest \/ ReceiveRequest \/ ReceiveFails \/ ReceiveUnread
           \/ PerformOpen \/ PerformClose \/ PerformOther \/ WriteWithoutMemory
           \/ Respond \/ StampRequest \/ SetLost \/ CancelRequest
           \/ ConsoleArrives \/ DumpStarts \/ DumpEnds \/ ProgramAsks
           \/ Ps2Closes \/ Ps2Garbles \/ Tick \/ UNCHANGED vars
BY DEF Next, MainStep, ConsoleStep, RequestStep, Environment, Exited

\* The records the steps build have their types.
LEMMA PacketTypes == NoPacket \in Packets
BY DEF NoPacket, Packets

\* So have the requests.
LEMMA RequestTypes ==
    /\ NoRequest \in Requests /\ UnreadData \in Requests
    /\ \A op \in Ops, fd \in Fds \cup {-1}, by \in {"dump", "program"} :
         [op |-> op, fd |-> fd, by |-> by] \in Requests
BY DEF NoRequest, UnreadData, Requests, Ops

\* A request a step appends is a request.
LEMMA AsksType ==
    ASSUME NEW op \in Ops, NEW fd \in Fds \cup {-1}, NEW by \in {"dump", "program"},
           TypeHost, Asks(op, fd, by)
    PROVE  request_q' \in Seq(Requests)
<1> DEFINE r == [op |-> op, fd |-> fd, by |-> by]
<1>1. r \in Requests
  BY RequestTypes
<1>2. request_q' = Append(request_q, r) /\ request_q \in Seq(Requests)
  BY DEF Asks, TypeHost
<1> HIDE DEF r
<1> QED
  BY <1>1, <1>2

\* What a piece of console text makes of a line is a line.
LEMMA LineTypes ==
    /\ EmptyLine \in Lines
    /\ \A l \in Lines, p \in Packets : AddText(l, p) \in Lines /\ AddText(l, p).status \in Int
<1>1. EmptyLine \in Lines
  BY DEF EmptyLine, Lines
<1>2. ASSUME NEW l \in Lines, NEW p \in Packets
      PROVE  AddText(l, p) \in Lines /\ AddText(l, p).status \in Int
  <2>1. HasStatus(p) => p.n \in Int
    BY ConstantsAssumption DEF Packets, HasStatus
  <2>2. l.found \in BOOLEAN /\ l.told \in BOOLEAN /\ l.status \in Int
    BY DEF Lines
  <2>3. HasMarker(p) \in BOOLEAN /\ HasStatus(p) \in BOOLEAN
    BY DEF HasMarker, HasStatus
  <2> QED BY <2>1, <2>2, <2>3 DEF AddText, Lines
<1> QED
  BY <1>1, <1>2

\* The initial states have the types.
LEMMA TypeInit == Init => TypeOK
<1> SUFFICES ASSUME Init PROVE TypeOK
  OBVIOUS
<1> USE ConstantsAssumption DEF Init
<1>1. TypeMain
  BY DEF TypeMain, MainPC, Connecting, EXIT_OK
<1>2. TypeFlags
  BY DEF TypeFlags
<1>3. TypeClocks
  BY DEF TypeClocks
<1>4. TypeThreads
  BY PacketTypes, RequestTypes DEF TypeThreads
<1>5. TypeScan
  BY LineTypes DEF TypeScan
<1>6. TypeHost
  BY DEF TypeHost
<1>7. TypePs2
  BY DEF TypePs2, Fds
<1> QED
  BY <1>1, <1>2, <1>3, <1>4, <1>5, <1>6, <1>7 DEF TypeOK

\* The main thread's program counters and the exit statuses.
LEMMA MainTypes ==
    /\ {"connect_console", "connect_request", "connect_command", "threads", "handshake",
        "hs_check", "command", "mainloop", "look", "decide", "idle_out", "drain",
        "disconnect", "close", "return", "exited"} \subseteq MainPC
    /\ EXIT_OK \in 0..255 /\ EXIT_NOCONNECT \in 0..255 /\ EXIT_PORTBUSY \in 0..255
    /\ EXIT_CONNLOST \in 0..255 /\ EXIT_TIMEOUT \in 0..255 /\ EXIT_ABORT \in 0..255
    /\ \A n \in Int : ExitByte(n) \in 0..255
BY DEF MainPC, Connecting, Handshaking, Looping, Leaving, EXIT_OK, EXIT_NOCONNECT,
       EXIT_PORTBUSY, EXIT_CONNLOST, EXIT_TIMEOUT, EXIT_ABORT, ExitByte

\* What unread data leaves of the queue: q holds data, and requests of request_q at most once.
Remains(q) ==
    \E f \in [1..Len(q) -> 0..Len(request_q)] :
      /\ \A i \in 1..Len(q) : q[i] = IF f[i] = 0 THEN UnreadData ELSE request_q[f[i]]
      /\ \A i, j \in 1..Len(q) : f[i] = f[j] /\ f[i] # 0 => i = j

\* A write's data is left, and then taken for a header, perhaps with what follows.
LEMMA UnreadQueue ==
    ASSUME TypeHost, ReceiveUnread \/ WriteWithoutMemory
    PROVE  /\ request_q' \in Seq(Requests) /\ Remains(request_q')
           /\ ~InHand' /\ UNCHANGED <<request, ping_fd, fds, held, dumpVars>>
<1>1. request_q \in Seq(Requests) /\ UnreadData \in Requests
  BY RequestTypes DEF TypeHost
<1>2. ~InHand' /\ UNCHANGED <<request, ping_fd, fds, held, dumpVars>>
  BY DEF ReceiveUnread, WriteWithoutMemory, InHand
<1>3. CASE WriteWithoutMemory
  <2> DEFINE f == [i \in 1..(Len(request_q) + 1) |-> i - 1]
  <2>1. request_q' = <<UnreadData>> \o request_q
    BY <1>3 DEF WriteWithoutMemory
  <2>2. /\ request_q' \in Seq(Requests) /\ Len(request_q') = Len(request_q) + 1
        /\ Len(request_q) \in Nat
        /\ \A i \in 1..Len(request_q') :
             request_q'[i] = IF i = 1 THEN UnreadData ELSE request_q[i - 1]
    BY <1>1, <2>1
  <2>3. f \in [1..Len(request_q') -> 0..Len(request_q)]
    BY <2>2
  <2>4. \A i \in 1..Len(request_q') : i \in Int /\ f[i] = i - 1
    BY <2>2
  <2> HIDE DEF f
  <2>5. \A i \in 1..Len(request_q') :
          request_q'[i] = IF f[i] = 0 THEN UnreadData ELSE request_q[f[i]]
    BY <2>2, <2>4
  <2>6. \A i, j \in 1..Len(request_q') : f[i] = f[j] /\ f[i] # 0 => i = j
    BY <2>4
  <2> QED
    BY <1>2, <2>2, <2>3, <2>5, <2>6 DEF Remains
<1>4. CASE ReceiveUnread /\ request_q' = Tail(request_q)
  <2> DEFINE f == [i \in 1..(Len(request_q) - 1) |-> i + 1]
  <2>1. request_q # <<>>
    BY <1>4 DEF ReceiveUnread
  <2>2. /\ request_q' \in Seq(Requests) /\ Len(request_q') = Len(request_q) - 1
        /\ Len(request_q) \in Nat
        /\ \A i \in 1..Len(request_q') : request_q'[i] = request_q[i + 1]
    BY <1>1, <1>4, <2>1
  <2>3. f \in [1..Len(request_q') -> 0..Len(request_q)]
    BY <2>2
  <2>4. \A i \in 1..Len(request_q') : i \in Nat /\ f[i] = i + 1
    BY <2>2
  <2> HIDE DEF f
  <2>5. \A i \in 1..Len(request_q') :
          request_q'[i] = IF f[i] = 0 THEN UnreadData ELSE request_q[f[i]]
    BY <2>2, <2>4
  <2>6. \A i, j \in 1..Len(request_q') : f[i] = f[j] /\ f[i] # 0 => i = j
    BY <2>4
  <2> QED
    BY <1>2, <2>2, <2>3, <2>5, <2>6 DEF Remains
<1>5. CASE /\ ReceiveUnread /\ Len(request_q) > 1
           /\ request_q' = <<Head(request_q)>> \o Tail(Tail(request_q))
  <2> DEFINE f == [i \in 1..(Len(request_q) - 1) |-> IF i = 1 THEN 1 ELSE i + 1]
             u == Tail(request_q)
             t == Tail(u)
  <2>1. /\ t \in Seq(Requests) /\ Len(request_q) \in Nat /\ Len(t) = Len(request_q) - 2
        /\ \A i \in 1..Len(t) : t[i] = request_q[i + 2]
        /\ Head(request_q) = request_q[1] /\ request_q[1] \in Requests
    <3>1. /\ u \in Seq(Requests) /\ Len(request_q) \in Nat /\ Len(u) = Len(request_q) - 1
          /\ \A i \in 1..Len(u) : u[i] = request_q[i + 1]
          /\ Head(request_q) = request_q[1] /\ request_q[1] \in Requests
      BY <1>1, <1>5
    <3> HIDE DEF u
    <3>2. u # <<>>
      BY <1>5, <3>1
    <3>3. /\ t \in Seq(Requests) /\ Len(t) = Len(u) - 1
          /\ \A i \in 1..Len(t) : t[i] = u[i + 1]
      BY <3>1, <3>2
    <3>4. ASSUME NEW i \in 1..Len(t) PROVE t[i] = request_q[i + 2]
      <4>1. i + 1 \in 1..Len(u) /\ (i + 1) + 1 = i + 2
        BY <3>1, <3>3
      <4> HIDE DEF t
      <4> QED
        BY <3>1, <3>3, <4>1
    <3> QED
      BY <3>1, <3>3, <3>4
  <2>2. request_q' = <<request_q[1]>> \o t
    BY <1>5, <2>1
  <2> HIDE DEF t
  <2>3. /\ request_q' \in Seq(Requests) /\ Len(request_q') = Len(request_q) - 1
        /\ \A i \in 1..Len(request_q') :
             request_q'[i] = IF i = 1 THEN request_q[1] ELSE t[i - 1]
    BY <2>1, <2>2
  <2>4. \A i \in 1..Len(request_q') :
          request_q'[i] = IF i = 1 THEN request_q[1] ELSE request_q[i + 1]
    BY <2>1, <2>3
  <2>5. f \in [1..Len(request_q') -> 0..Len(request_q)]
    BY <1>5, <2>1, <2>3
  <2>6. \A i \in 1..Len(request_q') : i \in Nat /\ f[i] = IF i = 1 THEN 1 ELSE i + 1
    BY <2>1, <2>3
  <2> HIDE DEF f
  <2>7. \A i \in 1..Len(request_q') :
          request_q'[i] = IF f[i] = 0 THEN UnreadData ELSE request_q[f[i]]
    BY <2>4, <2>6
  <2>8. \A i, j \in 1..Len(request_q') : f[i] = f[j] /\ f[i] # 0 => i = j
    BY <2>6
  <2> QED
    BY <1>2, <2>3, <2>5, <2>7, <2>8 DEF Remains
<1> QED
  BY <1>3, <1>4, <1>5 DEF ReceiveUnread

\* Every step keeps every variable within its type.
LEMMA TypeStep == TypeOK /\ [Next]_vars => TypeOK'
<1> SUFFICES ASSUME TypeMain, TypeFlags, TypeClocks, TypeThreads, TypeScan, TypeHost, TypePs2,
                    [Next]_vars
             PROVE  TypeOK'
  BY DEF TypeOK
<1> USE ConstantsAssumption
<1>1. CASE ConnectConsole
  <2>1. TypeMain'
    BY <1>1, MainTypes DEF ConnectConsole, ReturnEarly, TypeMain
  <2>2. TypeFlags'
    BY <1>1 DEF ConnectConsole, ReturnEarly, TypeFlags
  <2>3. TypeClocks' /\ TypeThreads' /\ TypeScan' /\ TypeHost' /\ TypePs2'
    BY <1>1 DEF ConnectConsole, ReturnEarly, TypeClocks, TypeThreads, TypeScan, TypeHost, TypePs2
  <2> QED BY <2>1, <2>2, <2>3 DEF TypeOK
<1>2. CASE ConnectRequest
  <2>1. TypeMain'
    BY <1>2, MainTypes DEF ConnectRequest, ReturnEarly, TypeMain
  <2>2. TypeFlags'
    BY <1>2 DEF ConnectRequest, ReturnEarly, TypeFlags
  <2>3. TypeHost'
    BY <1>2 DEF ConnectRequest, ReturnEarly, TypeThreads, TypePs2, TypeHost, Fds
  <2>4. TypeClocks' /\ TypeThreads' /\ TypeScan' /\ TypePs2'
    BY <1>2 DEF ConnectRequest, ReturnEarly, TypeClocks, TypeThreads, TypeScan, TypePs2
  <2> QED BY <2>1, <2>2, <2>3, <2>4 DEF TypeOK
<1>3. CASE ConnectCommand
  <2>1. TypeMain'
    BY <1>3, MainTypes DEF ConnectCommand, ReturnEarly, TypeMain
  <2>2. TypeFlags'
    BY <1>3 DEF ConnectCommand, ReturnEarly, TypeFlags
  <2>3. TypeClocks' /\ TypeThreads' /\ TypeScan' /\ TypeHost' /\ TypePs2'
    BY <1>3 DEF ConnectCommand, ReturnEarly, TypeClocks, TypeThreads, TypeScan, TypeHost, TypePs2
  <2> QED BY <2>1, <2>2, <2>3 DEF TypeOK
<1>4. CASE StartThreads
  <2>1. TypeMain'
    BY <1>4, MainTypes DEF StartThreads, TypeMain
  <2>2. TypeClocks'
    BY <1>4 DEF StartThreads, TypeClocks, Older
  <2>3. TypeThreads'
    BY <1>4 DEF StartThreads, TypeHost, TypeThreads, Requests, Ops, Fds
  <2>4. TypeFlags' /\ TypeScan' /\ TypeHost' /\ TypePs2'
    BY <1>4 DEF StartThreads, TypeFlags, TypeScan, TypeHost, TypePs2
  <2> QED BY <2>1, <2>2, <2>3, <2>4 DEF TypeOK
<1>5. CASE HandshakePoll
  <2>1. TypeMain'
    BY <1>5, MainTypes DEF HandshakePoll, TypeMain
  <2>2. TypeClocks'
    BY <1>5 DEF HandshakePoll, TypeClocks, Older
  <2>3. TypeFlags' /\ TypeThreads' /\ TypeScan' /\ TypeHost' /\ TypePs2'
    BY <1>5 DEF HandshakePoll, TypeFlags, TypeThreads, TypeScan, TypeHost, TypePs2
  <2> QED BY <2>1, <2>2, <2>3 DEF TypeOK
<1>6. CASE HandshakeCheck
  <2>1. TypeMain'
    BY <1>6, MainTypes DEF HandshakeCheck, TypeMain
  <2>2. TypeClocks'
    BY <1>6 DEF HandshakeCheck, TypeClocks, Older
  <2>3. TypePs2'
    BY <1>6 DEF HandshakeCheck, TypeThreads, TypePs2, Requests, Fds
  <2>4. TypeFlags' /\ TypeThreads' /\ TypeScan' /\ TypeHost'
    BY <1>6 DEF HandshakeCheck, TypeFlags, TypeThreads, TypeScan, TypeHost
  <2> QED BY <2>1, <2>2, <2>3, <2>4 DEF TypeOK
<1>7. CASE SendCommand
  <2>1. TypeMain'
    BY <1>7, MainTypes DEF SendCommand, TypeMain
  <2>2. TypeFlags' /\ TypeClocks' /\ TypeThreads' /\ TypeScan' /\ TypeHost' /\ TypePs2'
    BY <1>7 DEF SendCommand, TypeFlags, TypeClocks, TypeThreads, TypeScan, TypeHost, TypePs2
  <2> QED BY <2>1, <2>2 DEF TypeOK
<1>8. CASE EnterMainloop
  <2>1. TypeMain'
    BY <1>8, MainTypes DEF EnterMainloop, TypeMain
  <2>2. TypeFlags'
    BY <1>8 DEF EnterMainloop, TypeFlags
  <2>3. TypeClocks'
    BY <1>8 DEF EnterMainloop, TypeClocks, Older
  <2>4. TypeThreads' /\ TypeScan' /\ TypeHost' /\ TypePs2'
    BY <1>8 DEF EnterMainloop, TypeThreads, TypeScan, TypeHost, TypePs2
  <2> QED BY <2>1, <2>2, <2>3, <2>4 DEF TypeOK
<1>9. CASE Look
  <2>1. TypeMain'
    BY <1>9, MainTypes DEF Look, TypeScan, TypeMain
  <2>2. TypeClocks'
    BY <1>9 DEF Look, TypeClocks, Older
  <2>3. TypeFlags' /\ TypeThreads' /\ TypeScan' /\ TypeHost' /\ TypePs2'
    BY <1>9 DEF Look, TypeFlags, TypeThreads, TypeScan, TypeHost, TypePs2
  <2> QED BY <2>1, <2>2, <2>3 DEF TypeOK
<1>10. CASE Decide
  <2>1. TypeMain'
    BY <1>10, MainTypes DEF Decide, TypeMain
  <2>2. TypeClocks'
    BY <1>10 DEF Decide, TypeClocks, Older
  <2>3. TypeFlags' /\ TypeThreads' /\ TypeScan' /\ TypeHost' /\ TypePs2'
    BY <1>10 DEF Decide, TypeFlags, TypeThreads, TypeScan, TypeHost, TypePs2
  <2> QED BY <2>1, <2>2, <2>3 DEF TypeOK
<1>11. CASE IdleOut
  <2>1. TypeMain'
    <3>1. marker_status' \in Int
      BY <1>11 DEF IdleOut, CheckPartialLine, CheckLine, TypeScan, Lines
    <3> QED
      BY <1>11, <3>1, MainTypes DEF IdleOut, TypeMain
  <2>2. TypeFlags'
    BY <1>11 DEF IdleOut, CheckPartialLine, CheckLine, TypeFlags
  <2>3. TypeScan'
    BY <1>11 DEF IdleOut, CheckPartialLine, CheckLine, TypeScan, Lines
  <2>4. TypeClocks' /\ TypeThreads' /\ TypeHost' /\ TypePs2'
    BY <1>11 DEF IdleOut, CheckPartialLine, CheckLine, TypeClocks, TypeThreads, TypeHost, TypePs2
  <2> QED BY <2>1, <2>2, <2>3, <2>4 DEF TypeOK
<1>12. CASE DrainOut
  <2>1. TypeMain'
    <3>1. marker_status' \in Int
      BY <1>12 DEF DrainOut, CheckPartialLine, CheckLine, TypeScan, Lines
    <3> QED
      BY <1>12, <3>1, MainTypes DEF DrainOut, TypeMain
  <2>2. TypeFlags'
    BY <1>12 DEF DrainOut, CheckPartialLine, CheckLine, TypeFlags
  <2>3. TypeScan'
    BY <1>12 DEF DrainOut, CheckPartialLine, CheckLine, TypeScan, Lines
  <2>4. TypeClocks' /\ TypeThreads' /\ TypeHost' /\ TypePs2'
    BY <1>12 DEF DrainOut, CheckPartialLine, CheckLine, TypeClocks, TypeThreads, TypeHost, TypePs2
  <2> QED BY <2>1, <2>2, <2>3, <2>4 DEF TypeOK
<1>13. CASE DisconnectCancel
  <2>1. TypeMain'
    BY <1>13, MainTypes DEF DisconnectCancel, TypeMain
  <2>2. TypeFlags'
    BY <1>13 DEF DisconnectCancel, TypeFlags
  <2>3. TypeClocks' /\ TypeThreads' /\ TypeScan' /\ TypeHost' /\ TypePs2'
    BY <1>13 DEF DisconnectCancel, TypeClocks, TypeThreads, TypeScan, TypeHost, TypePs2
  <2> QED BY <2>1, <2>2, <2>3 DEF TypeOK
<1>14. CASE DisconnectClose
  <2>1. TypeMain'
    BY <1>14, MainTypes DEF DisconnectClose, TypeMain
  <2>2. TypeFlags'
    BY <1>14 DEF DisconnectClose, TypeFlags
  <2>3. TypeClocks' /\ TypeThreads' /\ TypeScan' /\ TypeHost' /\ TypePs2'
    BY <1>14 DEF DisconnectClose, TypeClocks, TypeThreads, TypeScan, TypeHost, TypePs2
  <2> QED BY <2>1, <2>2, <2>3 DEF TypeOK
<1>15. CASE Return
  <2>1. TypeMain'
    BY <1>15, MainTypes DEF Return, TypeMain
  <2>2. TypeFlags' /\ TypeClocks' /\ TypeThreads' /\ TypeScan' /\ TypeHost' /\ TypePs2'
    BY <1>15 DEF Return, TypeFlags, TypeClocks, TypeThreads, TypeScan, TypeHost, TypePs2
  <2> QED BY <2>1, <2>2 DEF TypeOK
<1>16. CASE ReceiveConsole
  <2>1. TypeThreads'
    BY <1>16 DEF ReceiveConsole, TypeHost, TypeThreads, Requests, Ops, Fds
  <2>2. TypeHost'
    BY <1>16 DEF ReceiveConsole, TypeThreads, TypePs2, TypeHost, Fds
  <2>3. TypeMain' /\ TypeFlags' /\ TypeClocks' /\ TypeScan' /\ TypePs2'
    BY <1>16 DEF ReceiveConsole, TypeMain, TypeFlags, TypeClocks, TypeScan, TypePs2
  <2> QED BY <2>1, <2>2, <2>3 DEF TypeOK
<1>17. CASE ScanConsole
  <2>1. TypeFlags'
    BY <1>17 DEF ScanConsole, CheckLine, TypeFlags
  <2>2. TypeThreads'
    BY <1>17 DEF ScanConsole, CheckLine, TypeHost, TypeThreads, Requests, Ops, Fds
  <2>3. TypeScan'
    <3>1. CASE ~marker
      BY <1>17, <3>1 DEF ScanConsole, TypeScan
    <3>2. CASE marker
      <4> DEFINE l == AddText(line, packet)
      <4>1. l \in Lines /\ l.status \in Int /\ EmptyLine \in Lines
        BY LineTypes DEF TypeThreads, TypeScan
      <4>2. /\ scanned' = Append(scanned, packet)
            /\ IF packet.nl THEN CheckLine(l) /\ line' = EmptyLine
               ELSE line' = l /\ UNCHANGED <<marker_seen, marker_status>>
        BY <1>17, <3>2 DEF ScanConsole
      <4> HIDE DEF l
      <4>3. line' \in Lines /\ marker_status' \in Int
        BY <4>1, <4>2 DEF CheckLine, TypeScan
      <4>4. scanned' \in Seq(Packets)
        BY <4>2 DEF TypeThreads, TypeScan
      <4> QED
        BY <4>3, <4>4 DEF TypeScan
    <3> QED
      BY <3>1, <3>2 DEF TypeFlags
  <2>4. TypeMain' /\ TypeClocks' /\ TypeHost' /\ TypePs2'
    BY <1>17 DEF ScanConsole, CheckLine, TypeMain, TypeClocks, TypeHost, TypePs2
  <2> QED BY <2>1, <2>2, <2>3, <2>4 DEF TypeOK
<1>18. CASE StampConsole
  <2>1. TypeClocks'
    BY <1>18 DEF StampConsole, TypeClocks, Older
  <2>2. TypeThreads'
    BY <1>18, PacketTypes DEF StampConsole, TypeHost, TypeThreads, Requests, Ops, Fds
  <2>3. TypeMain' /\ TypeFlags' /\ TypeScan' /\ TypeHost' /\ TypePs2'
    BY <1>18 DEF StampConsole, TypeMain, TypeFlags, TypeScan, TypeHost, TypePs2
  <2> QED BY <2>1, <2>2, <2>3 DEF TypeOK
<1>19. CASE CancelConsole
  <2>1. TypeThreads'
    BY <1>19 DEF CancelConsole, TypeHost, TypeThreads, Requests, Ops, Fds
  <2>2. TypeMain' /\ TypeFlags' /\ TypeClocks' /\ TypeScan' /\ TypeHost' /\ TypePs2'
    BY <1>19 DEF CancelConsole, TypeMain, TypeFlags, TypeClocks, TypeScan, TypeHost, TypePs2
  <2> QED BY <2>1, <2>2 DEF TypeOK
<1>20. CASE ReceiveRequest
  <2>1. TypeThreads'
    BY <1>20 DEF ReceiveRequest, TypeHost, TypeThreads
  <2>2. TypeHost'
    BY <1>20 DEF ReceiveRequest, TypeThreads, TypePs2, TypeHost, Fds
  <2>3. TypeMain' /\ TypeFlags' /\ TypeClocks' /\ TypeScan' /\ TypePs2'
    BY <1>20 DEF ReceiveRequest, TypeMain, TypeFlags, TypeClocks, TypeScan, TypePs2
  <2> QED BY <2>1, <2>2, <2>3 DEF TypeOK
<1>21. CASE ReceiveFails
  <2>1. TypeThreads'
    BY <1>21 DEF ReceiveFails, TypeHost, TypeThreads, Requests, Ops, Fds
  <2>2. TypeMain' /\ TypeFlags' /\ TypeClocks' /\ TypeScan' /\ TypeHost' /\ TypePs2'
    BY <1>21 DEF ReceiveFails, TypeMain, TypeFlags, TypeClocks, TypeScan, TypeHost, TypePs2
  <2> QED BY <2>1, <2>2 DEF TypeOK
<1>22. CASE PerformOpen
  <2>1. TypeThreads'
    BY <1>22 DEF PerformOpen, TypeHost, TypeThreads, Requests, Ops, Fds
  <2>2. TypeHost'
    BY <1>22 DEF PerformOpen, TypeThreads, TypePs2, TypeHost, Fds
  <2>3. TypeMain' /\ TypeFlags' /\ TypeClocks' /\ TypeScan' /\ TypePs2'
    BY <1>22 DEF PerformOpen, TypeMain, TypeFlags, TypeClocks, TypeScan, TypePs2
  <2> QED BY <2>1, <2>2, <2>3 DEF TypeOK
<1>23. CASE PerformClose
  <2>1. TypeFlags'
    BY <1>23 DEF PerformClose, TypeFlags
  <2>2. TypeThreads'
    BY <1>23 DEF PerformClose, TypeHost, TypeThreads, Requests, Ops, Fds
  <2>3. TypeHost'
    BY <1>23 DEF PerformClose, TypeThreads, TypePs2, TypeHost, Fds
  <2>4. TypeMain' /\ TypeClocks' /\ TypeScan' /\ TypePs2'
    BY <1>23 DEF PerformClose, TypeMain, TypeClocks, TypeScan, TypePs2
  <2> QED BY <2>1, <2>2, <2>3, <2>4 DEF TypeOK
<1>24. CASE PerformOther
  <2>1. TypeThreads'
    BY <1>24 DEF PerformOther, TypeHost, TypeThreads, Requests, Ops, Fds
  <2>2. TypeMain' /\ TypeFlags' /\ TypeClocks' /\ TypeScan' /\ TypeHost' /\ TypePs2'
    BY <1>24 DEF PerformOther, TypeMain, TypeFlags, TypeClocks, TypeScan, TypeHost, TypePs2
  <2> QED BY <2>1, <2>2 DEF TypeOK
<1>25. CASE Respond
  <2>1. TypeThreads'
    BY <1>25 DEF Respond, TypeHost, TypeThreads, Requests, Ops, Fds
  <2>2. TypePs2'
    BY <1>25 DEF Respond, TypeThreads, TypePs2, Requests, Fds
  <2>3. TypeMain' /\ TypeFlags' /\ TypeClocks' /\ TypeScan' /\ TypeHost'
    BY <1>25 DEF Respond, TypeMain, TypeFlags, TypeClocks, TypeScan, TypeHost
  <2> QED BY <2>1, <2>2, <2>3 DEF TypeOK
<1>26. CASE StampRequest
  <2>1. TypeClocks'
    BY <1>26 DEF StampRequest, TypeClocks, Older
  <2>2. TypeThreads'
    BY <1>26, RequestTypes DEF StampRequest, TypeHost, TypeThreads, Requests, Ops, Fds
  <2>3. TypeMain' /\ TypeFlags' /\ TypeScan' /\ TypeHost' /\ TypePs2'
    BY <1>26 DEF StampRequest, TypeMain, TypeFlags, TypeScan, TypeHost, TypePs2
  <2> QED BY <2>1, <2>2, <2>3 DEF TypeOK
<1>27. CASE SetLost
  <2>1. TypeFlags'
    BY <1>27 DEF SetLost, TypeFlags
  <2>2. TypeThreads'
    BY <1>27 DEF SetLost, TypeHost, TypeThreads, Requests, Ops, Fds
  <2>3. TypeMain' /\ TypeClocks' /\ TypeScan' /\ TypeHost' /\ TypePs2'
    BY <1>27 DEF SetLost, TypeMain, TypeClocks, TypeScan, TypeHost, TypePs2
  <2> QED BY <2>1, <2>2, <2>3 DEF TypeOK
<1>28. CASE CancelRequest
  <2>1. TypeThreads'
    BY <1>28 DEF CancelRequest, TypeHost, TypeThreads, Requests, Ops, Fds
  <2>2. TypeMain' /\ TypeFlags' /\ TypeClocks' /\ TypeScan' /\ TypeHost' /\ TypePs2'
    BY <1>28 DEF CancelRequest, TypeMain, TypeFlags, TypeClocks, TypeScan, TypeHost, TypePs2
  <2> QED BY <2>1, <2>2 DEF TypeOK
<1>29. CASE ConsoleArrives
  <2>1. TypeHost'
    <3>1. PICK p \in Packets : console_q' = Append(console_q, p)
      BY <1>29, PacketTypes DEF ConsoleArrives
    <3> QED
      BY <1>29, <3>1 DEF ConsoleArrives, TypeHost
  <2>2. TypePs2'
    BY <1>29 DEF ConsoleArrives, Room, Counted, TypePs2
  <2>3. TypeMain' /\ TypeFlags' /\ TypeClocks' /\ TypeThreads' /\ TypeScan'
    BY <1>29 DEF ConsoleArrives, TypeMain, TypeFlags, TypeClocks, TypeThreads, TypeScan
  <2> QED BY <2>1, <2>2, <2>3 DEF TypeOK
<1>30. CASE DumpStarts
  <2>1. TypeHost'
    BY <1>30, AsksType DEF DumpStarts, Ops, TypePs2, TypeHost
  <2>2. TypePs2'
    BY <1>30 DEF DumpStarts, Asks, TypeThreads, TypePs2, Requests, Fds
  <2>3. TypeMain' /\ TypeFlags' /\ TypeClocks' /\ TypeThreads' /\ TypeScan'
    BY <1>30 DEF DumpStarts, Asks, TypeMain, TypeFlags, TypeClocks, TypeThreads, TypeScan
  <2> QED BY <2>1, <2>2, <2>3 DEF TypeOK
<1>31. CASE DumpEnds
  <2>1. TypeFlags'
    BY <1>31 DEF DumpEnds, Asks, TypeFlags
  <2>2. TypeHost'
    BY <1>31, AsksType DEF DumpEnds, Ops, TypePs2, TypeHost
  <2>3. TypePs2'
    BY <1>31 DEF DumpEnds, Asks, TypeThreads, TypePs2, Requests, Fds
  <2>4. TypeMain' /\ TypeClocks' /\ TypeThreads' /\ TypeScan'
    BY <1>31 DEF DumpEnds, Asks, TypeMain, TypeClocks, TypeThreads, TypeScan
  <2> QED BY <2>1, <2>2, <2>3, <2>4 DEF TypeOK
<1>32. CASE ProgramAsks
  <2>1. TypeHost'
    <3>1. ASSUME NEW op \in {"open", "other", "unknown"}, Asks(op, -1, "program")
          PROVE  request_q' \in Seq(Requests)
      BY <3>1, AsksType DEF Ops
    <3>2. ASSUME NEW fd \in held \cup {-1}, Asks("close", fd, "program")
          PROVE  request_q' \in Seq(Requests)
      BY <3>2, AsksType DEF Ops, TypePs2
    <3> QED BY <1>32, <3>1, <3>2 DEF ProgramAsks, TypeHost
  <2>2. TypePs2'
    BY <1>32 DEF ProgramAsks, Room, Counted, TypePs2
  <2>3. TypeMain' /\ TypeFlags' /\ TypeClocks' /\ TypeThreads' /\ TypeScan'
    BY <1>32 DEF ProgramAsks, Asks, TypeMain, TypeFlags, TypeClocks, TypeThreads, TypeScan
  <2> QED BY <2>1, <2>2, <2>3 DEF TypeOK
<1>33. CASE Ps2Closes
  <2>1. TypeHost'
    BY <1>33 DEF Ps2Closes, TypeThreads, TypePs2, TypeHost, Fds
  <2>2. TypeMain' /\ TypeFlags' /\ TypeClocks' /\ TypeThreads' /\ TypeScan' /\ TypePs2'
    BY <1>33 DEF Ps2Closes, TypeMain, TypeFlags, TypeClocks, TypeThreads, TypeScan, TypePs2
  <2> QED BY <2>1, <2>2 DEF TypeOK
<1>34. CASE Ps2Garbles
  <2>1. TypeHost'
    BY <1>34, AsksType DEF Ps2Garbles, Ops, TypePs2, TypeHost
  <2>2. TypeMain' /\ TypeFlags' /\ TypeClocks' /\ TypeThreads' /\ TypeScan' /\ TypePs2'
    BY <1>34 DEF Ps2Garbles, Asks, TypeMain, TypeFlags, TypeClocks, TypeThreads, TypeScan, TypePs2
  <2> QED BY <2>1, <2>2 DEF TypeOK
<1>35. CASE Tick
  <2>1. TypeClocks'
    BY <1>35 DEF Tick, TypeClocks, Older
  <2>2. TypeMain' /\ TypeFlags' /\ TypeThreads' /\ TypeScan' /\ TypeHost' /\ TypePs2'
    BY <1>35 DEF Tick, TypeMain, TypeFlags, TypeThreads, TypeScan, TypeHost, TypePs2
  <2> QED BY <2>1, <2>2 DEF TypeOK
<1>37. CASE WaitConsole
  <2>1. TypeMain'
    BY <1>37, MainTypes DEF WaitConsole, WaitsOnClosed, TypeMain
  <2>2. TypeThreads'
    BY <1>37 DEF WaitConsole, TypeThreads
  <2>3. TypeFlags' /\ TypeClocks' /\ TypeScan' /\ TypeHost' /\ TypePs2'
    BY <1>37 DEF WaitConsole, TypeFlags, TypeClocks, TypeScan, TypeHost, TypePs2
  <2> QED BY <2>1, <2>2, <2>3 DEF TypeOK
<1>38. CASE WaitRequest
  <2>1. TypeMain'
    BY <1>38, MainTypes DEF WaitRequest, WaitsOnClosed, TypeMain
  <2>2. TypeThreads'
    BY <1>38 DEF WaitRequest, TypeThreads
  <2>3. TypeFlags' /\ TypeClocks' /\ TypeScan' /\ TypeHost' /\ TypePs2'
    BY <1>38 DEF WaitRequest, TypeFlags, TypeClocks, TypeScan, TypeHost, TypePs2
  <2> QED BY <2>1, <2>2, <2>3 DEF TypeOK
<1>39. CASE ReceiveConsoleFails
  <2>1. TypeThreads'
    BY <1>39 DEF ReceiveConsoleFails, TypeThreads
  <2>2. TypeMain' /\ TypeFlags' /\ TypeClocks' /\ TypeScan' /\ TypeHost' /\ TypePs2'
    BY <1>39 DEF ReceiveConsoleFails, TypeMain, TypeFlags, TypeClocks, TypeScan, TypeHost, TypePs2
  <2> QED BY <2>1, <2>2 DEF TypeOK
<1>40. CASE ReceiveUnread \/ WriteWithoutMemory
  <2>1. TypeThreads'
    BY <1>40 DEF ReceiveUnread, WriteWithoutMemory, TypeThreads
  <2>2. TypeHost'
    <3>1. /\ UNCHANGED <<console_q, fds>>
          /\ conn' \in {"none", "up", "unread", "closed", "garbled"}
      BY <1>40 DEF ReceiveUnread, WriteWithoutMemory, TypeHost
    <3> QED
      BY <1>40, <3>1, UnreadQueue DEF TypeHost
  <2>3. UNCHANGED <<mainVars, sharedVars, ps2Vars>>
    BY <1>40 DEF ReceiveUnread, WriteWithoutMemory
  <2>4. TypeMain' /\ TypeFlags' /\ TypeClocks' /\ TypeScan' /\ TypePs2'
    BY <2>3 DEF TypeMain, TypeFlags, TypeClocks, TypeScan, TypePs2
  <2> QED BY <2>1, <2>2, <2>4 DEF TypeOK
<1>36. CASE UNCHANGED vars
  BY <1>36 DEF vars, TypeOK, TypeMain, TypeFlags, TypeClocks, TypeThreads, TypeScan,
               TypeHost, TypePs2
<1> QED
  BY NextSplit, <1>1, <1>2, <1>3, <1>4, <1>5, <1>6, <1>7, <1>8, <1>9, <1>10, <1>11, <1>12,
     <1>13, <1>14, <1>15, <1>16, <1>17, <1>18, <1>19, <1>20, <1>21, <1>22, <1>23, <1>24, <1>25,
     <1>26, <1>27, <1>28, <1>29, <1>30, <1>31, <1>32, <1>33, <1>34, <1>35, <1>36, <1>37, <1>38,
     <1>39, <1>40

\* Type correctness: the session never leaves the types of its variables.
THEOREM TypeCorrect == Spec => []TypeOK
<1>1. Init => TypeOK
  BY TypeInit
<1>2. TypeOK /\ [Next]_vars => TypeOK'
  BY TypeStep
<1> QED
  BY <1>1, <1>2, PTL DEF Spec

----------------------------------------------------------------------------
(* The handshake does not flood the ps2.                                   *)

\* No dumpreg is sent before the handshake.
LEMMA FloodInit == Init => FloodInv
BY DEF Init, FloodInv, NoFlood, Connecting, Handshaking

\* Every step keeps the dumpregs behind the handshake's clock.
LEMMA FloodStep == TypeOK /\ FloodInv /\ [Next]_vars => FloodInv'
<1> SUFFICES ASSUME TypeMain, TypeClocks, FloodInv, [Next]_vars PROVE FloodInv'
  BY DEF TypeOK
<1> USE ConstantsAssumption DEF TypeMain, TypeClocks
<1> USE DEF FloodInv, NoFlood, Connecting, Handshaking, Looping, Leaving
<1>1. CASE ConnectConsole
  BY <1>1 DEF ConnectConsole, ReturnEarly, Limit
<1>2. CASE ConnectRequest
  BY <1>2 DEF ConnectRequest, ReturnEarly, Limit
<1>3. CASE ConnectCommand
  BY <1>3 DEF ConnectCommand, ReturnEarly, Limit
<1>4. CASE StartThreads
  BY <1>4 DEF StartThreads, Limit
<1>5. CASE HandshakePoll
  BY <1>5 DEF HandshakePoll, Limit
<1>6. CASE HandshakeCheck
  <2> DEFINE p == (sends - 1) * Resend
  <2>1. sends \in Nat /\ Resend \in Nat /\ p \in Int /\ (sends + 1 - 1) * Resend = p + Resend
    OBVIOUS
  <2>2. Limit' = Limit /\ Limit \in Int
    BY <1>6 DEF HandshakeCheck, Limit
  <2>3. CASE GivesUp
    BY <1>6, <2>2, <2>3 DEF HandshakeCheck, GivesUp
  <2>4. CASE ~GivesUp /\ ~DumpregDue
    BY <1>6, <2>2, <2>4 DEF HandshakeCheck
  <2>5. CASE ~GivesUp /\ DumpregDue /\ sends = 0
    BY <1>6, <2>2, <2>5 DEF HandshakeCheck, GivesUp
  <2>6. CASE ~GivesUp /\ DumpregDue /\ sends > 0
    <3>1. p + since <= hs /\ hs < Limit /\ since >= Resend
      BY <1>6, <2>2, <2>6 DEF HandshakeCheck, GivesUp, DumpregDue
    <3>2. sends' = sends + 1 /\ since' = 0 /\ hs' = hs /\ main' = "handshake"
      BY <1>6, <2>6 DEF HandshakeCheck
    <3> HIDE DEF p
    <3>3. p + Resend <= hs
      BY <2>1, <3>1
    <3>4. (sends' - 1) * Resend = p + Resend
      BY <2>1, <3>2
    <3> QED
      BY <2>1, <2>2, <3>1, <3>2, <3>3, <3>4
  <2> QED BY <2>3, <2>4, <2>5, <2>6, <2>1
<1>7. CASE SendCommand \/ EnterMainloop \/ Look \/ Decide \/ IdleOut \/ DrainOut
           \/ DisconnectCancel \/ DisconnectClose \/ Return
  BY <1>7 DEF SendCommand, EnterMainloop, Look, Decide, IdleOut, DrainOut, DisconnectCancel,
              DisconnectClose, Return, Limit
<1>8. CASE ReceiveConsole \/ ReceiveConsoleFails \/ ScanConsole \/ StampConsole \/ CancelConsole
  BY <1>8 DEF ReceiveConsole, ReceiveConsoleFails, ScanConsole, StampConsole, CancelConsole, Limit
<1>9. CASE ReceiveRequest \/ ReceiveFails \/ ReceiveUnread \/ PerformOpen \/ PerformClose
           \/ PerformOther \/ WriteWithoutMemory \/ Respond \/ StampRequest \/ SetLost
           \/ CancelRequest
  BY <1>9 DEF ReceiveRequest, ReceiveFails, ReceiveUnread, PerformOpen, PerformClose,
              PerformOther, WriteWithoutMemory, Respond, StampRequest, SetLost, CancelRequest,
              Limit
<1>12. CASE WaitConsole \/ WaitRequest
  BY <1>12 DEF WaitConsole, WaitRequest, WaitsOnClosed, Limit
<1>10. CASE ConsoleArrives \/ DumpStarts \/ DumpEnds \/ ProgramAsks \/ Ps2Closes \/ Ps2Garbles
            \/ UNCHANGED vars
  BY <1>10 DEF ConsoleArrives, DumpStarts, DumpEnds, ProgramAsks, Ps2Closes, Ps2Garbles, vars,
               Limit
<1>11. CASE Tick
  <2> DEFINE p == (sends - 1) * Resend
  <2>1. p \in Int /\ sends' = sends /\ main' = main
    BY <1>11 DEF Tick
  <2>2. Limit' = Limit /\ Limit \in Int /\ Limit <= Horizon
    BY <1>11 DEF Tick, Limit
  <2>3. main \in Handshaking /\ sends > 0 =>
          /\ hs' = Older(hs) /\ since' = Older(since)
          /\ hs >= Limit \/ p + since <= hs
    BY <1>11 DEF Tick
  <2> HIDE DEF p
  <2>4. main \in Handshaking /\ sends > 0 => hs' >= Limit \/ p + since' <= hs'
    BY <2>1, <2>2, <2>3 DEF Older
  <2> QED
    BY <2>1, <2>2, <2>4 DEF p
<1> QED
  BY NextSplit, <1>1, <1>2, <1>3, <1>4, <1>5, <1>6, <1>7, <1>8, <1>9, <1>10, <1>11, <1>12

----------------------------------------------------------------------------
(* The loss of the connection.                                             *)

\* What is left of a queue once its head is taken.
LEMMA TailElements ==
    ASSUME NEW S, NEW q \in Seq(S), q # <<>>
    PROVE  /\ Head(q) = q[1] /\ Head(q) \in S /\ Len(q) \in Nat /\ Len(q) > 0
           /\ Len(Tail(q)) = Len(q) - 1
           /\ \A i \in 1..Len(Tail(q)) : Tail(q)[i] = q[i + 1]
OBVIOUS

\* What a queue holds once an element is appended.
LEMMA AppendElements ==
    ASSUME NEW S, NEW q \in Seq(S), NEW r
    PROVE  /\ Len(Append(q, r)) = Len(q) + 1 /\ Len(q) \in Nat
           /\ Append(q, r)[Len(q) + 1] = r
           /\ \A i \in 1..Len(q) : Append(q, r)[i] = q[i]
OBVIOUS

\* Nothing is lost at first.
LEMMA LossInit == Init => LossInv
BY DEF Init, LossInv, InHand, EXIT_OK, EXIT_CONNLOST

\* Every step keeps the loss true to the connection.
LEMMA LossStep == TypeOK /\ LossInv /\ [Next]_vars => LossInv'
<1> SUFFICES ASSUME TypeMain, TypeThreads, TypeHost, LossInv, [Next]_vars PROVE LossInv'
  BY DEF TypeOK
<1> USE DEF TypeHost, LossInv, InHand, Leaving, EXIT_OK, EXIT_NOCONNECT, EXIT_PORTBUSY,
            EXIT_CONNLOST, EXIT_TIMEOUT, EXIT_ABORT, Up
<1>1. CASE ConnectConsole
  BY <1>1 DEF ConnectConsole, ReturnEarly
<1>2. CASE ConnectRequest
  BY <1>2 DEF ConnectRequest, ReturnEarly
<1>3. CASE ConnectCommand
  BY <1>3 DEF ConnectCommand, ReturnEarly
<1>4. CASE StartThreads
  BY <1>4 DEF StartThreads
<1>5. CASE HandshakePoll
  BY <1>5 DEF HandshakePoll
<1>6. CASE HandshakeCheck
  BY <1>6 DEF HandshakeCheck
<1>7. CASE SendCommand
  BY <1>7 DEF SendCommand
<1>8. CASE EnterMainloop
  BY <1>8 DEF EnterMainloop
<1>9. CASE Look
  BY <1>9 DEF Look
<1>10. CASE Decide
  BY <1>10 DEF Decide
<1>11. CASE IdleOut
  BY <1>11 DEF IdleOut, CheckPartialLine, CheckLine
<1>12. CASE DrainOut
  BY <1>12 DEF DrainOut, CheckPartialLine, CheckLine
<1>13. CASE DisconnectCancel \/ DisconnectClose \/ Return
  BY <1>13 DEF DisconnectCancel, DisconnectClose, Return
<1>14. CASE ReceiveConsole \/ ReceiveConsoleFails \/ StampConsole \/ CancelConsole
  BY <1>14 DEF ReceiveConsole, ReceiveConsoleFails, StampConsole, CancelConsole
<1>15. CASE ScanConsole
  BY <1>15 DEF ScanConsole, CheckLine
<1>16. CASE ReceiveRequest
  <2>1. Head(request_q) = request_q[1] /\ Len(Tail(request_q)) = Len(request_q) - 1
        /\ Len(request_q) \in Nat /\ Len(request_q) > 0
        /\ \A i \in 1..Len(Tail(request_q)) : Tail(request_q)[i] = request_q[i + 1]
    BY <1>16, TailElements DEF ReceiveRequest
  <2> QED BY <1>16, <2>1 DEF ReceiveRequest, LossInv
<1>17. CASE SetLost \/ CancelRequest \/ ReceiveFails
  BY <1>17 DEF SetLost, CancelRequest, ReceiveFails
<1>18. CASE PerformOpen \/ PerformClose \/ PerformOther \/ Respond \/ StampRequest
  BY <1>18 DEF PerformOpen, PerformClose, PerformOther, Respond, StampRequest
<1>19. CASE ConsoleArrives \/ Ps2Closes \/ Tick \/ UNCHANGED vars
  BY <1>19 DEF ConsoleArrives, Ps2Closes, Tick, vars
<1>20. CASE DumpStarts
  BY <1>20, AppendElements DEF DumpStarts, Asks, LossInv
<1>21. CASE DumpEnds
  BY <1>21, AppendElements DEF DumpEnds, Asks, LossInv
<1>22. CASE ProgramAsks
  <2>1. PICK r : r.op \notin {"bad", "data"} /\ request_q' = Append(request_q, r)
    BY <1>22 DEF ProgramAsks, Asks
  <2> QED BY <1>22, <2>1, AppendElements DEF ProgramAsks, LossInv
<1>23. CASE Ps2Garbles
  BY <1>23, AppendElements DEF Ps2Garbles, Asks, LossInv
<1>24. CASE WaitConsole \/ WaitRequest
  BY <1>24 DEF WaitConsole, WaitRequest, WaitsOnClosed
<1>25. CASE ReceiveUnread \/ WriteWithoutMemory
  <2>1. PICK f \in [1..Len(request_q') -> 0..Len(request_q)] :
          \A i \in 1..Len(request_q') :
            request_q'[i] = IF f[i] = 0 THEN UnreadData ELSE request_q[f[i]]
    BY <1>25, UnreadQueue DEF Remains
  <2>2. /\ conn' \in {"closed", "garbled", "unread"}
        /\ conn = "garbled" => conn' = "garbled"
        /\ conn # "none"
        /\ UNCHANGED <<main, status, lost, marker_seen>>
        /\ ~InHand'
    <3>1. CASE ReceiveUnread
      <4>1. request_q # <<>> /\ request_q[1].op = "data" /\ 1 \in 1..Len(request_q)
        BY <3>1, TailElements DEF ReceiveUnread
      <4> QED
        BY <3>1, <4>1, UnreadQueue DEF ReceiveUnread, WriteWithoutMemory
    <3>2. CASE WriteWithoutMemory
      BY <3>2, UnreadQueue DEF WriteWithoutMemory
    <3> QED
      BY <1>25, <3>1, <3>2
  <2>3. ASSUME NEW i \in 1..Len(request_q')
        PROVE  /\ request_q'[i].op = "bad" => conn' = "garbled"
               /\ request_q'[i].op = "data" => conn' \in {"closed", "garbled", "unread"}
    <3>1. CASE f[i] # 0
      BY <2>1, <2>2, <3>1
    <3>2. CASE f[i] = 0
      BY <2>1, <2>2, <3>2 DEF UnreadData
    <3> QED
      BY <3>1, <3>2
  <2> QED
    BY <2>2, <2>3
<1> QED
  BY NextSplit, <1>1, <1>2, <1>3, <1>4, <1>5, <1>6, <1>7, <1>8, <1>9, <1>10, <1>11, <1>12,
     <1>13, <1>14, <1>15, <1>16, <1>17, <1>18, <1>19, <1>20, <1>21, <1>22, <1>23, <1>24, <1>25

----------------------------------------------------------------------------
(* Descriptors have one owner, so nobody closes the handshake's file for   *)
(* ps2link.                                                                *)

\* Without descriptors of an earlier connection, every descriptor has an owner at first.
LEMMA OwnInit == Init /\ StaleFds = {} => OwnInv
BY DEF Init, OwnInv, HandingOver, ServingClose

\* What the descriptors' owners depend on.
ownVars == <<held, fds, request_q, req, request, dump, dump_fd>>

\* Ownership depends on ownVars only.
LEMMA OwnUnchanged == OwnInv /\ UNCHANGED ownVars => OwnInv'
BY DEF ownVars, OwnInv, HandingOver, ServingClose, Closing

\* Every step hands a descriptor over to one owner.
LEMMA OwnStep == TypeOK /\ DumpInv /\ OwnInv /\ [Next]_vars => OwnInv'
<1> SUFFICES ASSUME TypeThreads, TypeHost, TypePs2, DumpInv, OwnInv, [Next]_vars PROVE OwnInv'
  BY DEF TypeOK
<1> USE DEF TypeHost, TypePs2
<1>1. CASE StartThreads
  BY <1>1 DEF StartThreads, OwnInv, HandingOver, ServingClose, Closing
<1>2. CASE ReceiveRequest
  <2>1. Head(request_q) = request_q[1] /\ Len(Tail(request_q)) = Len(request_q) - 1
        /\ Len(request_q) \in Nat /\ Len(request_q) > 0
        /\ \A i \in 1..Len(Tail(request_q)) : Tail(request_q)[i] = request_q[i + 1]
    BY <1>2, TailElements DEF ReceiveRequest
  <2>2. ~HandingOver'
    BY <1>2 DEF ReceiveRequest, HandingOver
  <2>3. ServingClose' => Closing(request_q[1]) /\ request' = request_q[1]
    BY <1>2, <2>1 DEF ReceiveRequest, ServingClose, Closing
  <2> QED
    BY <1>2, <2>1, <2>2, <2>3 DEF ReceiveRequest, OwnInv
<1>3. CASE WaitRequest \/ ReceiveFails \/ CancelRequest \/ SetLost \/ PerformOther
  BY <1>3 DEF WaitRequest, ReceiveFails, CancelRequest, SetLost, PerformOther, OwnInv,
              HandingOver, ServingClose, Closing
<1>4. CASE PerformOpen
  <2>1. PICK fd \in Fds \cup {-1} :
          /\ Opens(fd) /\ fds' = fds \cup ({fd} \ {-1}) /\ request' = [request EXCEPT !.fd = fd]
    BY <1>4 DEF PerformOpen
  <2>2. request'.fd = fd
    BY <2>1 DEF TypeThreads, Requests
  <2>3. ~ServingClose' /\ (HandingOver' => fd # -1)
    BY <1>4, <2>2 DEF PerformOpen, ServingClose, HandingOver
  <2>4. fd # -1 => fd \notin fds /\ fds' = fds \cup {fd}
    BY <2>1 DEF Opens
  <2>5. fds \subseteq fds'
    BY <2>1
  <2>6. UNCHANGED <<held, request_q, dump, dump_fd>>
    BY <1>4 DEF PerformOpen
  <2> QED
    BY <2>2, <2>3, <2>4, <2>5, <2>6 DEF OwnInv, Closing
<1>5. CASE PerformClose
  <2>1. ~HandingOver' /\ ~ServingClose'
    BY <1>5 DEF PerformClose, HandingOver, ServingClose
  <2>2. UNCHANGED <<held, request_q, dump, dump_fd>> /\ fds' = fds \ {request.fd}
    BY <1>5 DEF PerformClose
  <2>3. CASE request.fd = -1
    <3>1. fds' = fds
      BY <2>2, <2>3 DEF Fds
    <3> QED
      BY <2>1, <2>2, <3>1 DEF OwnInv, Closing
  <2>4. CASE request.fd # -1
    <3>1. ServingClose
      BY <1>5, <2>4 DEF PerformClose, ServingClose, Closing
    <3> QED
      BY <2>1, <2>2, <3>1 DEF OwnInv, Closing
  <2> QED BY <2>3, <2>4
<1>6. CASE Respond
  <2>1. ~HandingOver' /\ ~ServingClose'
    BY <1>6 DEF Respond, HandingOver, ServingClose
  <2>2. UNCHANGED <<fds, request_q, request>> /\ req = "reply"
    BY <1>6 DEF Respond
  <2>3. CASE held' = held /\ dump' = dump /\ dump_fd' = dump_fd
    BY <2>1, <2>2, <2>3 DEF OwnInv, Closing
  <2>4. CASE conn \in Up /\ request.by = "dump"
    <3>1. held' = held
      BY <1>6, <2>4 DEF Respond
    <3>2. dump' = "opened" => HandingOver /\ dump_fd' = request.fd
      BY <1>6, <2>4 DEF Respond, HandingOver
    <3> QED
      BY <2>1, <2>2, <3>1, <3>2 DEF OwnInv, Closing
  <2>5. CASE conn \in Up /\ request.by = "program" /\ request.op = "open" /\ request.fd # -1
    <3>1. HandingOver
      BY <2>2, <2>5 DEF HandingOver
    <3>2. held' = held \cup {request.fd} /\ dump' = dump /\ dump_fd' = dump_fd
      BY <1>6, <2>5 DEF Respond
    <3> QED
      BY <2>1, <2>2, <3>1, <3>2 DEF OwnInv, Closing
  <2> QED
    BY <1>6, <2>3, <2>4, <2>5 DEF Respond
<1>7. CASE StampRequest
  BY <1>7 DEF StampRequest, OwnInv, HandingOver, ServingClose, Closing
<1>8. CASE DumpStarts \/ Ps2Garbles
  <2>1. PICK r : ~Closing(r) /\ request_q' = Append(request_q, r)
    BY <1>8 DEF DumpStarts, Ps2Garbles, Asks, Closing
  <2>2. /\ UNCHANGED <<held, fds, req, request>>
        /\ dump' = "opened" => dump = "opened" /\ dump_fd' = dump_fd
    BY <1>8 DEF DumpStarts, Ps2Garbles
  <2>3. HandingOver' = HandingOver /\ ServingClose' = ServingClose
    BY <2>2 DEF HandingOver, ServingClose, Closing
  <2>4. \A i \in 1..Len(request_q') : Closing(request_q'[i]) =>
          i \in 1..Len(request_q) /\ request_q'[i] = request_q[i]
    BY <2>1, AppendElements
  <2> QED
    BY <2>2, <2>3, <2>4 DEF OwnInv
<1>9. CASE DumpEnds
  <2>1. PICK r : r.fd = dump_fd /\ request_q' = Append(request_q, r)
    BY <1>9 DEF DumpEnds, Asks
  <2>2. UNCHANGED <<held, fds, req, request>> /\ dump = "opened" /\ dump' = "closing"
    BY <1>9 DEF DumpEnds
  <2>3. \A i \in 1..Len(request_q') :
          \/ i \in 1..Len(request_q) /\ request_q'[i] = request_q[i]
          \/ i = Len(request_q) + 1 /\ request_q'[i] = r
    BY <2>1, AppendElements
  <2>4. HandingOver' = HandingOver /\ ServingClose' = ServingClose
    BY <2>2 DEF HandingOver, ServingClose
  <2>5. /\ dump_fd \in fds \ held
        /\ \A i \in 1..Len(request_q) : Closing(request_q[i]) => request_q[i].fd # dump_fd
        /\ HandingOver \/ ServingClose => request.fd # dump_fd
    BY <2>2 DEF OwnInv
  <2>6. \A i \in 1..Len(request_q') :
          Closing(request_q'[i]) => request_q'[i].fd \in fds \ held
    BY <2>1, <2>3, <2>5 DEF OwnInv
  <2>7. ASSUME NEW i \in 1..Len(request_q'), NEW j \in 1..Len(request_q'), i # j,
               Closing(request_q'[i]), Closing(request_q'[j])
        PROVE  request_q'[i].fd # request_q'[j].fd
    BY <2>1, <2>3, <2>5, <2>7 DEF OwnInv
  <2>8. HandingOver \/ ServingClose =>
          /\ request.fd \in fds \ held
          /\ \A i \in 1..Len(request_q') :
               Closing(request_q'[i]) => request_q'[i].fd # request.fd
    BY <2>1, <2>3, <2>5 DEF OwnInv
  <2>9. held \subseteq fds
    BY DEF OwnInv
  <2> QED
    BY <2>2, <2>4, <2>6, <2>7, <2>8, <2>9 DEF OwnInv
<1>10. CASE ProgramAsks
  <2>1. UNCHANGED <<fds, req, request, dump, dump_fd>>
    BY <1>10 DEF ProgramAsks
  <2>2. PICK r : /\ request_q' = Append(request_q, r)
                 /\ \/ ~Closing(r) /\ held' \subseteq held
                    \/ r.fd \in held /\ held' = held \ {r.fd}
    <3>1. ASSUME NEW op \in {"open", "other", "unknown"}, Asks(op, -1, "program"), held' = held
          PROVE  \E r : /\ request_q' = Append(request_q, r)
                        /\ ~Closing(r) /\ held' \subseteq held
      BY <3>1 DEF Asks, Closing
    <3>2. ASSUME NEW fd \in held \cup {-1}, Asks("close", fd, "program"), held' = held \ {fd}
          PROVE  \E r : /\ request_q' = Append(request_q, r)
                        /\ \/ ~Closing(r) /\ held' \subseteq held
                           \/ r.fd \in held /\ held' = held \ {r.fd}
      BY <3>2 DEF Asks, Closing
    <3> QED BY <1>10, <3>1, <3>2 DEF ProgramAsks
  <2>3. \A i \in 1..Len(request_q') :
          \/ i \in 1..Len(request_q) /\ request_q'[i] = request_q[i]
          \/ i = Len(request_q) + 1 /\ request_q'[i] = r
    BY <2>2, AppendElements
  <2>4. HandingOver' = HandingOver /\ ServingClose' = ServingClose
    BY <2>1 DEF HandingOver, ServingClose
  <2>5. /\ held' \subseteq held /\ held \subseteq fds
        /\ Closing(r) => r.fd \in held \ held'
    BY <2>2 DEF OwnInv
  <2>6. \A i \in 1..Len(request_q') :
          Closing(request_q'[i]) => request_q'[i].fd \in fds \ held'
    BY <2>3, <2>5 DEF OwnInv
  <2>7. ASSUME NEW i \in 1..Len(request_q'), NEW j \in 1..Len(request_q'), i # j,
               Closing(request_q'[i]), Closing(request_q'[j])
        PROVE  request_q'[i].fd # request_q'[j].fd
    BY <2>3, <2>5, <2>7 DEF OwnInv
  <2>8. HandingOver \/ ServingClose =>
          /\ request.fd \in fds \ held'
          /\ \A i \in 1..Len(request_q') :
               Closing(request_q'[i]) => request_q'[i].fd # request.fd
    BY <2>3, <2>5 DEF OwnInv
  <2>9. dump = "opened" =>
          /\ dump_fd \in fds \ held'
          /\ \A i \in 1..Len(request_q') :
               Closing(request_q'[i]) => request_q'[i].fd # dump_fd
          /\ HandingOver \/ ServingClose => request.fd # dump_fd
    BY <2>3, <2>5 DEF OwnInv
  <2> QED
    BY <2>1, <2>4, <2>5, <2>6, <2>7, <2>8, <2>9 DEF OwnInv
<1>14. CASE ReceiveUnread \/ WriteWithoutMemory
  <2>1. PICK f \in [1..Len(request_q') -> 0..Len(request_q)] :
          /\ \A i \in 1..Len(request_q') :
               request_q'[i] = IF f[i] = 0 THEN UnreadData ELSE request_q[f[i]]
          /\ \A i, j \in 1..Len(request_q') : f[i] = f[j] /\ f[i] # 0 => i = j
    BY <1>14, UnreadQueue DEF Remains
  <2>2. ~HandingOver' /\ ~ServingClose' /\ UNCHANGED <<held, fds, dump, dump_fd>>
    BY <1>14, UnreadQueue DEF InHand, HandingOver, ServingClose
  <2>3. \A i \in 1..Len(request_q') :
          Closing(request_q'[i]) => /\ f[i] \in 1..Len(request_q)
                                    /\ request_q'[i] = request_q[f[i]]
    BY <2>1 DEF UnreadData, Closing
  <2>4. ASSUME NEW i \in 1..Len(request_q'), NEW j \in 1..Len(request_q'), i # j,
               Closing(request_q'[i])
        PROVE  f[i] # f[j]
    <3>1. f[i] # 0
      BY <2>3, <2>4
    <3>2. f[i] = f[j] /\ f[i] # 0 => i = j
      BY <2>1
    <3> QED
      BY <2>4, <3>1, <3>2
  <2>5. \A i \in 1..Len(request_q') : Closing(request_q'[i]) => request_q'[i].fd \in fds \ held
    BY <2>3 DEF OwnInv
  <2>6. ASSUME NEW i \in 1..Len(request_q'), NEW j \in 1..Len(request_q'), i # j,
               Closing(request_q'[i]), Closing(request_q'[j])
        PROVE  request_q'[i].fd # request_q'[j].fd
    <3>1. /\ f[i] \in 1..Len(request_q) /\ f[j] \in 1..Len(request_q) /\ f[i] # f[j]
          /\ request_q'[i] = request_q[f[i]] /\ request_q'[j] = request_q[f[j]]
      BY <2>3, <2>4, <2>6
    <3>2. Closing(request_q[f[i]]) /\ Closing(request_q[f[j]])
      BY <2>6, <3>1
    <3>3. \A a, b \in 1..Len(request_q) :
            a # b /\ Closing(request_q[a]) /\ Closing(request_q[b])
              => request_q[a].fd # request_q[b].fd
      BY DEF OwnInv
    <3> QED
      BY <3>1, <3>2, <3>3
  <2>7. dump = "opened" =>
          /\ dump_fd \in fds \ held
          /\ \A i \in 1..Len(request_q') : Closing(request_q'[i]) => request_q'[i].fd # dump_fd
    BY <2>3 DEF OwnInv
  <2>8. held \subseteq fds
    BY DEF OwnInv
  <2> QED
    BY <2>2, <2>5, <2>6, <2>7, <2>8 DEF OwnInv
<1>11. CASE UNCHANGED ownVars
  BY <1>11, OwnUnchanged
<1>12. ConnectConsole \/ ConnectRequest \/ ConnectCommand \/ HandshakePoll \/ HandshakeCheck
       \/ SendCommand \/ EnterMainloop \/ Look \/ Decide \/ IdleOut \/ DrainOut
       \/ DisconnectCancel \/ DisconnectClose \/ Return => UNCHANGED ownVars
  BY DEF ownVars, ConnectConsole, ConnectRequest, ConnectCommand, HandshakePoll, HandshakeCheck,
         SendCommand, EnterMainloop, Look, Decide, IdleOut, DrainOut, DisconnectCancel,
         DisconnectClose, Return
<1>13. WaitConsole \/ ReceiveConsole \/ ReceiveConsoleFails \/ ScanConsole \/ StampConsole
       \/ CancelConsole \/ ConsoleArrives \/ Ps2Closes \/ Tick \/ UNCHANGED vars
         => UNCHANGED ownVars
  BY DEF ownVars, WaitConsole, ReceiveConsole, ReceiveConsoleFails, ScanConsole, StampConsole,
         CancelConsole, ConsoleArrives, Ps2Closes, Tick, vars
<1> QED
  BY NextSplit, <1>1, <1>2, <1>3, <1>4, <1>5, <1>6, <1>7, <1>8, <1>9, <1>10, <1>11, <1>12, <1>13,
     <1>14
----------------------------------------------------------------------------
(* One dump at a time.                                                     *)

\* There is no dump at first.
LEMMA DumpInit == Init => DumpInv
BY DEF Init, DumpInv, InHand

\* What the order of the dump's requests depends on.
orderVars == <<request_q, req, request, dump, dumped>>

\* The order of the dump depends on orderVars only.
LEMMA DumpUnchanged == DumpInv /\ UNCHANGED orderVars => DumpInv'
BY DEF orderVars, DumpInv, InHand

\* Every step keeps the dump's requests in their order.
LEMMA DumpStep == TypeOK /\ DumpInv /\ [Next]_vars => DumpInv'
<1> SUFFICES ASSUME TypeThreads, TypeHost, DumpInv, [Next]_vars PROVE DumpInv'
  BY DEF TypeOK
<1> USE DEF TypeHost
<1>1. CASE StartThreads \/ WaitRequest \/ ReceiveFails \/ CancelRequest \/ SetLost \/ StampRequest
  BY <1>1 DEF StartThreads, WaitRequest, ReceiveFails, CancelRequest, SetLost, StampRequest,
              DumpInv, InHand
<1>2. CASE ReceiveRequest
  <2>1. /\ Len(Tail(request_q)) = Len(request_q) - 1 /\ Len(request_q) \in Nat
        /\ Len(request_q) > 0 /\ Head(request_q) = request_q[1]
        /\ \A i \in 1..Len(Tail(request_q)) : Tail(request_q)[i] = request_q[i + 1]
    BY <1>2, TailElements DEF ReceiveRequest
  <2>2. request' = request_q[1] /\ request_q' = Tail(request_q) /\ UNCHANGED <<dump, dumped>>
        /\ ~InHand
    BY <1>2, <2>1 DEF ReceiveRequest, InHand
  <2>3. \A i \in 1..Len(request_q') : /\ i + 1 \in 1..Len(request_q) /\ i + 1 # 1
                                       /\ request_q'[i] = request_q[i + 1]
    BY <2>1, <2>2
  <2>4. 1 \in 1..Len(request_q)
    BY <2>1
  <2>5. ASSUME NEW i \in 1..Len(request_q'), request_q'[i].by = "dump"
        PROVE  /\ dump' \in {"opening", "closing"}
               /\ request_q'[i].op = "close" => dumped'
               /\ \A j \in 1..Len(request_q') : request_q'[j].by = "dump" => i = j
               /\ ~(InHand' /\ request'.by = "dump")
    <3>1. i + 1 \in 1..Len(request_q) /\ i + 1 # 1 /\ request_q[i + 1].by = "dump"
          /\ request_q'[i] = request_q[i + 1]
      BY <2>3, <2>5
    <3>2. /\ dump \in {"opening", "closing"}
          /\ request_q[i + 1].op = "close" => dumped
          /\ \A j \in 1..Len(request_q) : request_q[j].by = "dump" => i + 1 = j
      BY <3>1 DEF DumpInv
    <3>3. request_q[1].by # "dump"
      BY <2>4, <3>1, <3>2
    <3>4. ASSUME NEW j \in 1..Len(request_q'), request_q'[j].by = "dump" PROVE i = j
      <4>1. i + 1 = j + 1
        BY <2>3, <3>2, <3>4
      <4> QED
        BY <4>1
    <3> QED
      BY <2>2, <3>1, <3>2, <3>3, <3>4
  <2>6. request_q[1].by = "dump" => /\ dump \in {"opening", "closing"}
                                    /\ request_q[1].op = "close" => dumped
    BY <2>4 DEF DumpInv
  <2>7. /\ \A i \in 1..Len(request_q') :
             request_q'[i].op = "open_ping" => request_q'[i].by = "dump"
        /\ request_q[1].op = "open_ping" => request_q[1].by = "dump"
    BY <2>3, <2>4 DEF DumpInv
  <2> QED
    BY <2>2, <2>5, <2>6, <2>7 DEF DumpInv
<1>3. CASE PerformOther \/ PerformClose
  <2>1. InHand /\ UNCHANGED <<request, request_q, dump, dumped>>
    BY <1>3 DEF PerformOther, PerformClose, InHand
  <2> QED
    BY <2>1 DEF DumpInv
<1>4. CASE PerformOpen
  <2>1. PICK fd : request' = [request EXCEPT !.fd = fd]
    BY <1>4 DEF PerformOpen
  <2>2. request'.op = request.op /\ request'.by = request.by
    BY <2>1 DEF TypeThreads, Requests
  <2>3. InHand /\ InHand' /\ UNCHANGED <<request_q, dump, dumped>>
    BY <1>4 DEF PerformOpen, InHand
  <2> QED
    BY <2>2, <2>3 DEF DumpInv
<1>5. CASE Respond
  <2>1. ~InHand' /\ InHand /\ UNCHANGED <<request, request_q, dumped>>
    BY <1>5 DEF Respond, InHand
  <2>2. dump' = dump \/ request.by = "dump"
    BY <1>5 DEF Respond
  <2> QED
    BY <2>1, <2>2 DEF DumpInv
<1>6. CASE DumpStarts
  <2>1. PICK r : r.op = "open_ping" /\ r.by = "dump" /\ request_q' = Append(request_q, r)
    BY <1>6 DEF DumpStarts, Asks
  <2>2. UNCHANGED <<req, request, dumped>> /\ dump = "idle" /\ dump' = "opening"
    BY <1>6 DEF DumpStarts
  <2> QED
    BY <2>1, <2>2, AppendElements DEF DumpInv, InHand
<1>7. CASE DumpEnds
  <2>1. PICK r : r.op = "close" /\ r.by = "dump" /\ request_q' = Append(request_q, r)
    BY <1>7 DEF DumpEnds, Asks
  <2>2. UNCHANGED <<req, request>> /\ dump = "opened" /\ dump' = "closing" /\ dumped'
    BY <1>7 DEF DumpEnds
  <2> QED
    BY <2>1, <2>2, AppendElements DEF DumpInv, InHand
<1>8. CASE ProgramAsks \/ Ps2Garbles
  <2>1. PICK r : r.op # "open_ping" /\ r.by = "program" /\ request_q' = Append(request_q, r)
    BY <1>8 DEF ProgramAsks, Ps2Garbles, Asks
  <2>2. UNCHANGED <<req, request, dump, dumped>>
    BY <1>8 DEF ProgramAsks, Ps2Garbles
  <2> QED
    BY <2>1, <2>2, AppendElements DEF DumpInv, InHand
<1>12. CASE ReceiveUnread \/ WriteWithoutMemory
  <2>1. PICK f \in [1..Len(request_q') -> 0..Len(request_q)] :
          /\ \A i \in 1..Len(request_q') :
               request_q'[i] = IF f[i] = 0 THEN UnreadData ELSE request_q[f[i]]
          /\ \A i, j \in 1..Len(request_q') : f[i] = f[j] /\ f[i] # 0 => i = j
    BY <1>12, UnreadQueue DEF Remains
  <2>2. ~InHand' /\ UNCHANGED <<dump, dumped>>
    BY <1>12, UnreadQueue
  <2>3. \A i \in 1..Len(request_q') :
          request_q'[i].by = "dump" \/ request_q'[i].op = "open_ping" =>
            f[i] \in 1..Len(request_q) /\ f[i] # 0 /\ request_q'[i] = request_q[f[i]]
    BY <2>1 DEF UnreadData
  <2>4. ASSUME NEW i \in 1..Len(request_q'), request_q'[i].by = "dump"
        PROVE  /\ dump \in {"opening", "closing"}
               /\ request_q'[i].op = "close" => dumped
               /\ \A j \in 1..Len(request_q') : request_q'[j].by = "dump" => i = j
    <3>1. /\ dump \in {"opening", "closing"}
          /\ request_q'[i].op = "close" => dumped
          /\ \A k \in 1..Len(request_q) : request_q[k].by = "dump" => f[i] = k
      BY <2>3, <2>4 DEF DumpInv
    <3>2. ASSUME NEW j \in 1..Len(request_q'), request_q'[j].by = "dump" PROVE i = j
      <4>1. f[j] = f[i] /\ f[i] # 0
        BY <2>3, <2>4, <3>1, <3>2
      <4> QED
        BY <2>1, <4>1
    <3> QED
      BY <3>1, <3>2
  <2>5. \A i \in 1..Len(request_q') : request_q'[i].op = "open_ping" => request_q'[i].by = "dump"
    BY <2>3 DEF DumpInv
  <2> QED
    BY <2>2, <2>4, <2>5 DEF DumpInv
<1>9. CASE UNCHANGED orderVars
  BY <1>9, DumpUnchanged
<1>10. ConnectConsole \/ ConnectRequest \/ ConnectCommand \/ HandshakePoll \/ HandshakeCheck
       \/ SendCommand \/ EnterMainloop \/ Look \/ Decide \/ IdleOut \/ DrainOut
       \/ DisconnectCancel \/ DisconnectClose \/ Return => UNCHANGED orderVars
  BY DEF orderVars, ConnectConsole, ConnectRequest, ConnectCommand, HandshakePoll,
         HandshakeCheck, SendCommand, EnterMainloop, Look, Decide, IdleOut, DrainOut,
         DisconnectCancel, DisconnectClose, Return
<1>11. WaitConsole \/ ReceiveConsole \/ ReceiveConsoleFails \/ ScanConsole \/ StampConsole
       \/ CancelConsole \/ ConsoleArrives \/ Ps2Closes \/ Tick \/ UNCHANGED vars
         => UNCHANGED orderVars
  BY DEF orderVars, WaitConsole, ReceiveConsole, ReceiveConsoleFails, ScanConsole, StampConsole,
         CancelConsole, ConsoleArrives, Ps2Closes, Tick, vars
<1> QED
  BY NextSplit, <1>1, <1>2, <1>3, <1>4, <1>5, <1>6, <1>7, <1>8, <1>9, <1>10, <1>11, <1>12
----------------------------------------------------------------------------
(* The handshake's descriptor.                                             *)

\* There is no handshake file at first.
LEMMA PingInit == Init => PingInv
BY DEF Init, PingInv, PingOwned, PingTold, Looping, Leaving

\* No step lets a program on the ps2 get hold of the handshake's descriptor.
LEMMA PingOwnedStep ==
    TypeOK /\ DumpInv /\ OwnInv /\ PingOwned /\ [Next]_vars => PingOwned'
<1> SUFFICES ASSUME TypeThreads, TypeHost, TypePs2, DumpInv, OwnInv, PingOwned, [Next]_vars
             PROVE  PingOwned'
  BY DEF TypeOK
<1> USE DEF TypeHost, TypePs2
<1>1. CASE StartThreads \/ WaitRequest \/ ReceiveFails \/ CancelRequest \/ SetLost \/ StampRequest
           \/ PerformOther
  BY <1>1 DEF StartThreads, WaitRequest, ReceiveFails, CancelRequest, SetLost, StampRequest, PerformOther,
              PingOwned, InHand
<1>2. CASE ReceiveRequest
  <2>1. /\ Len(Tail(request_q)) = Len(request_q) - 1 /\ Len(request_q) \in Nat
        /\ Len(request_q) > 0 /\ Head(request_q) = request_q[1]
        /\ \A i \in 1..Len(Tail(request_q)) : Tail(request_q)[i] = request_q[i + 1]
    BY <1>2, TailElements DEF ReceiveRequest
  <2>2. request' = request_q[1] /\ request_q' = Tail(request_q) /\ req' # "reply"
        /\ UNCHANGED <<ping_fd, held, fds>>
    BY <1>2, <2>1 DEF ReceiveRequest
  <2> QED
    BY <2>1, <2>2 DEF PingOwned
<1>3. CASE PerformOpen
  <2>1. PICK fd \in Fds \cup {-1} :
          /\ Opens(fd) /\ fds' = fds \cup ({fd} \ {-1}) /\ request' = [request EXCEPT !.fd = fd]
          /\ ping_fd' = (IF request.op = "open_ping" THEN fd ELSE ping_fd)
    BY <1>3 DEF PerformOpen
  <2>2. request'.fd = fd /\ request'.op = request.op /\ request'.by = request.by
    BY <2>1 DEF TypeThreads, Requests
  <2>3. fd # -1 => fd \notin fds /\ fd \in fds'
    BY <2>1 DEF Opens
  <2>4. fds \subseteq fds'
    BY <2>1
  <2>5. UNCHANGED <<held, request_q>> /\ request.op \in {"open", "open_ping"} /\ InHand
    BY <1>3 DEF PerformOpen, InHand
  <2>6. CASE request.op = "open_ping"
    <3>1. request.by = "dump" /\ ping_fd' = fd
      BY <2>1, <2>5, <2>6 DEF DumpInv
    <3> QED
      BY <2>2, <2>3, <2>5, <3>1 DEF PingOwned, OwnInv, Closing
  <2>7. CASE request.op = "open"
    BY <2>1, <2>2, <2>3, <2>4, <2>5, <2>7 DEF PingOwned
  <2> QED
    BY <2>5, <2>6, <2>7
<1>4. CASE PerformClose
  <2>1. /\ InHand /\ UNCHANGED <<request, request_q, held>> /\ fds' = fds \ {request.fd}
        /\ ping_fd' = -1 \/ (ping_fd' = ping_fd /\ ~PingComplete(request.fd))
    BY <1>4 DEF PerformClose, InHand, PingComplete
  <2>2. ping_fd # -1 => ping_fd >= 0
    BY DEF TypeThreads, Fds
  <2> QED
    BY <1>4, <2>1, <2>2 DEF PerformClose, PingOwned, PingComplete
<1>5. CASE Respond
  <2>1. ~InHand' /\ InHand /\ req = "reply" /\ UNCHANGED <<ping_fd, fds, request_q>>
    BY <1>5 DEF Respond, InHand
  <2>2. \/ held' = held
        \/ /\ request.by = "program" /\ request.op = "open"
           /\ held' = held \cup ({request.fd} \ {-1})
    BY <1>5 DEF Respond
  <2> QED
    BY <2>1, <2>2 DEF PingOwned
<1>6. CASE DumpStarts \/ DumpEnds
  <2>1. PICK r : r.by = "dump" /\ request_q' = Append(request_q, r)
    BY <1>6 DEF DumpStarts, DumpEnds, Asks
  <2>2. UNCHANGED <<ping_fd, fds, held, req, request>>
    BY <1>6 DEF DumpStarts, DumpEnds
  <2> QED
    BY <2>1, <2>2, AppendElements DEF PingOwned, InHand
<1>7. CASE ProgramAsks \/ Ps2Garbles
  <2>1. PICK r : /\ request_q' = Append(request_q, r)
                 /\ r.op # "close" \/ r.fd \in held \cup {-1}
    <3>1. ASSUME NEW op \in {"open", "other", "unknown", "bad"}, Asks(op, -1, "program")
          PROVE  \E r : request_q' = Append(request_q, r) /\ r.op # "close"
      BY <3>1 DEF Asks
    <3>2. ASSUME NEW fd \in held \cup {-1}, Asks("close", fd, "program")
          PROVE  \E r : request_q' = Append(request_q, r) /\ r.fd \in held \cup {-1}
      BY <3>2 DEF Asks
    <3> QED
      BY <1>7, <3>1, <3>2 DEF ProgramAsks, Ps2Garbles
  <2>2. UNCHANGED <<ping_fd, fds, req, request>> /\ held' \subseteq held
    BY <1>7 DEF ProgramAsks, Ps2Garbles
  <2> QED
    BY <2>1, <2>2, AppendElements DEF PingOwned, InHand
<1>8. ConnectConsole \/ ConnectRequest \/ ConnectCommand \/ HandshakePoll \/ HandshakeCheck
      \/ SendCommand \/ EnterMainloop \/ Look \/ Decide \/ IdleOut \/ DrainOut
      \/ DisconnectCancel \/ DisconnectClose \/ Return => UNCHANGED <<ownVars, ping_fd>>
  BY DEF ownVars, ConnectConsole, ConnectRequest, ConnectCommand, HandshakePoll,
         HandshakeCheck, SendCommand, EnterMainloop, Look, Decide, IdleOut, DrainOut,
         DisconnectCancel, DisconnectClose, Return
<1>9. WaitConsole \/ ReceiveConsole \/ ReceiveConsoleFails \/ ScanConsole \/ StampConsole
      \/ CancelConsole \/ ConsoleArrives \/ Ps2Closes \/ Tick \/ UNCHANGED vars
        => UNCHANGED <<ownVars, ping_fd>>
  BY DEF ownVars, WaitConsole, ReceiveConsole, ReceiveConsoleFails, ScanConsole, StampConsole,
         CancelConsole, ConsoleArrives, Ps2Closes, Tick, vars
<1>11. CASE ReceiveUnread \/ WriteWithoutMemory
  <2>1. PICK f \in [1..Len(request_q') -> 0..Len(request_q)] :
          \A i \in 1..Len(request_q') :
            request_q'[i] = IF f[i] = 0 THEN UnreadData ELSE request_q[f[i]]
    BY <1>11, UnreadQueue DEF Remains
  <2>2. ~InHand' /\ UNCHANGED <<ping_fd, fds, held>>
    BY <1>11, UnreadQueue
  <2>3. \A i \in 1..Len(request_q') : request_q'[i].op = "close" =>
          f[i] \in 1..Len(request_q) /\ request_q'[i] = request_q[f[i]]
    BY <2>1 DEF UnreadData
  <2> QED
    BY <2>2, <2>3 DEF PingOwned
<1>10. CASE UNCHANGED <<ownVars, ping_fd>>
  BY <1>10 DEF ownVars, PingOwned, InHand
<1> QED
  BY NextSplit, <1>1, <1>2, <1>3, <1>4, <1>5, <1>6, <1>7, <1>8, <1>9, <1>10, <1>11

\* What the handshake's answer lets the main thread do.
LEMMA PingToldStep ==
    TypeOK /\ DumpInv /\ PingInv /\ [Next]_vars => PingTold'
<1> SUFFICES ASSUME TypeThreads, TypeMain, TypeFlags, DumpInv, PingOwned, PingTold, [Next]_vars
             PROVE  PingTold'
  BY DEF TypeOK, PingInv
<1> USE DEF PingTold, WantsRequest, Looping, Leaving
<1>1. CASE ConnectConsole
  BY <1>1 DEF ConnectConsole, ReturnEarly, EXIT_OK, EXIT_PORTBUSY
<1>2. CASE ConnectRequest
  BY <1>2 DEF ConnectRequest, ReturnEarly, EXIT_OK, EXIT_NOCONNECT
<1>3. CASE ConnectCommand
  BY <1>3 DEF ConnectCommand, ReturnEarly, EXIT_OK, EXIT_NOCONNECT
<1>4. CASE StartThreads
  BY <1>4 DEF StartThreads, NEEDS_HOST
<1>5. CASE HandshakePoll
  BY <1>5 DEF HandshakePoll
<1>6. CASE HandshakeCheck
  BY <1>6 DEF HandshakeCheck, EXIT_OK, EXIT_NOCONNECT
<1>7. CASE SendCommand \/ EnterMainloop
  BY <1>7 DEF SendCommand, EnterMainloop
<1>8. CASE Look \/ Decide \/ IdleOut \/ DrainOut
  BY <1>8 DEF Look, Decide, IdleOut, DrainOut
<1>9. CASE DisconnectCancel \/ DisconnectClose \/ Return
  BY <1>9 DEF DisconnectCancel, DisconnectClose, Return
<1>10. CASE PerformClose
  <2>1. UNCHANGED <<cmd, main, status, dumped>>
    BY <1>10 DEF PerformClose
  <2>2. CASE PingComplete(request.fd)
    <3>1. ping_answered'
      BY <1>10, <2>2 DEF PerformClose
    <3>2. InHand /\ request.op = "close" /\ ping_fd # -1 /\ request.fd = ping_fd
      BY <1>10, <2>2 DEF PerformClose, PingComplete, InHand
    <3>3. request.by = "dump"
      <4>1. request.by \in {"dump", "program"}
        BY DEF TypeThreads, Requests
      <4>2. request.by # "program"
        BY <3>2 DEF PingOwned
      <4> QED
        BY <4>1, <4>2
    <3>4. dumped
      BY <3>2, <3>3 DEF DumpInv
    <3> QED
      BY <2>1, <3>1, <3>4
  <2>3. CASE ~PingComplete(request.fd)
    BY <1>10, <2>1, <2>3 DEF PerformClose
  <2> QED
    BY <2>2, <2>3
<1>11. CASE DumpEnds
  BY <1>11 DEF DumpEnds
<1>12. CASE ReceiveRequest \/ ReceiveFails \/ ReceiveUnread \/ PerformOpen \/ PerformOther
            \/ WriteWithoutMemory \/ Respond \/ StampRequest \/ SetLost \/ CancelRequest
  BY <1>12 DEF ReceiveRequest, ReceiveFails, ReceiveUnread, PerformOpen, PerformOther,
               WriteWithoutMemory, Respond, StampRequest, SetLost, CancelRequest
<1>13. CASE ReceiveConsole \/ ReceiveConsoleFails \/ ScanConsole \/ StampConsole \/ CancelConsole
  BY <1>13 DEF ReceiveConsole, ReceiveConsoleFails, ScanConsole, StampConsole, CancelConsole
<1>15. CASE WaitConsole \/ WaitRequest
  BY <1>15 DEF WaitConsole, WaitRequest, WaitsOnClosed, EXIT_OK, EXIT_ABORT
<1>14. CASE ConsoleArrives \/ DumpStarts \/ ProgramAsks \/ Ps2Closes \/ Ps2Garbles \/ Tick
            \/ UNCHANGED vars
  BY <1>14 DEF ConsoleArrives, DumpStarts, ProgramAsks, Ps2Closes, Ps2Garbles, Tick, vars
<1> QED
  BY NextSplit, <1>1, <1>2, <1>3, <1>4, <1>5, <1>6, <1>7, <1>8, <1>9, <1>10, <1>11, <1>12,
     <1>13, <1>14, <1>15
----------------------------------------------------------------------------
(* The theorems.                                                           *)

\* ps2link_handshake repeats its command slowly: whatever the limit of the
\* handshake and the interval between two commands are, no more are sent than
\* intervals begin before the limit.
THEOREM HandshakeIsSlow == Spec => []NoFlood
<1>1. FloodInv => NoFlood
  BY DEF FloodInv
<1> QED
  BY <1>1, FloodInit, FloodStep, TypeCorrect, PTL DEF Spec

\* ps2link_thread_request reports a loss, and main exits with CONNLOST, only
\* when the ps2 closed the connection or sent what is not a request, or when the data of
\* a write was left unread.
THEOREM LossIsReported == Spec => []LostIsReal
<1>1. LossInv => LostIsReal
  BY DEF LossInv, LostIsReal
<1> QED
  BY <1>1, LossInit, LossStep, TypeCorrect, PTL DEF Spec

\* ps2link_handshake and ps2link_request_close: when no program on the ps2 kept
\* a descriptor from an earlier connection, the command is sent, and a ping
\* succeeds, only after ps2link completed a register dump on this connection.
THEOREM HandshakeIsSound == StaleFds = {} => (Spec => []CommandAfterDump)
<1> SUFFICES ASSUME StaleFds = {} PROVE Spec => []CommandAfterDump
  OBVIOUS
<1> DEFINE Inv == DumpInv /\ OwnInv /\ PingInv
<1>1. Init => Inv
  BY DumpInit, OwnInit, PingInit
<1>2. TypeOK /\ Inv /\ [Next]_vars => Inv'
  BY DumpStep, OwnStep, PingOwnedStep, PingToldStep DEF PingInv
<1>3. Inv => CommandAfterDump
  BY DEF PingInv, PingTold, CommandAfterDump
<1> HIDE DEF Inv
<1> QED
  BY <1>1, <1>2, <1>3, TypeCorrect, PTL DEF Spec

----------------------------------------------------------------------------
(* The exit status is that of the console stream.                          *)

\* StatusAfter is the number at the least place.
LEMMA StatusIsAfter ==
    ASSUME NEW s \in Seq(Packets), NEW i \in 1..Len(s), NEW n, StatusIs(s, i, n)
    PROVE  StatusAfter(s, i) = n
<1>1. CASE ToldAt(s, i) = {}
  BY <1>1 DEF StatusIs, StatusAfter, ToldAt
<1>2. CASE ToldAt(s, i) # {}
  <2>1. PICK k \in ToldAt(s, i) : Least(ToldAt(s, i), k) /\ n = s[k].n
    BY <1>2 DEF StatusIs
  <2> DEFINE T == ToldAt(s, i)
             c == CHOOSE k0 \in T : \A j \in T : k0 <= j
  <2>2. T \subseteq Int
    BY DEF ToldAt
  <2>3. c \in T /\ \A j \in T : c <= j
    BY <2>1 DEF Least
  <2>4. c = k
    <3>1. c <= k /\ k <= c
      BY <2>1, <2>3 DEF Least
    <3>2. c \in Int /\ k \in Int
      BY <2>1, <2>2, <2>3
    <3> HIDE DEF c
    <3> QED
      BY <3>1, <3>2
  <2> QED
    BY <1>2, <2>1, <2>4 DEF StatusAfter, ToldAt
<1> QED
  BY <1>1, <1>2

\* A datagram more: a marker before it stays the first, and it tells a status when the line of
\* the marker is unfinished.
LEMMA OneMore ==
    ASSUME NEW s \in Seq(Packets), NEW p \in Packets, NEW i \in MarkerAt(s)
    PROVE  LET t == Append(s, p)
           IN  /\ i \in MarkerAt(t)
               /\ Unfinished(t, i) <=> (Unfinished(s, i) /\ ~p.nl)
               /\ ToldAt(t, i) = ToldAt(s, i) \cup (IF HasStatus(p) /\ Unfinished(s, i)
                                                      THEN {Len(s) + 1} ELSE {})
<1> DEFINE t == Append(s, p)
           m == Len(s)
<1>1. /\ m \in Nat /\ Len(t) = m + 1 /\ t[m + 1] = p /\ DOMAIN t = 1..(m + 1) /\ DOMAIN s = 1..m
      /\ \A j \in 1..m : t[j] = s[j]
  OBVIOUS
<1>2. i \in 1..m /\ HasMarker(s[i]) /\ \A j \in 1..(i - 1) : ~HasMarker(s[j])
  BY <1>1 DEF MarkerAt
<1> HIDE DEF t, m
<1>3. i \in MarkerAt(t)
  <2>1. i \in DOMAIN t /\ HasMarker(t[i])
    BY <1>1, <1>2
  <2>2. \A j \in 1..(i - 1) : ~HasMarker(t[j])
    BY <1>1, <1>2
  <2> QED
    BY <2>1, <2>2 DEF MarkerAt
<1>4. Unfinished(t, i) <=> (Unfinished(s, i) /\ ~p.nl)
  BY <1>1, <1>2 DEF Unfinished, m
<1>5. \A k \in i..m : SameLine(t, i, k) <=> SameLine(s, i, k)
  BY <1>1, <1>2 DEF SameLine
<1>6. SameLine(t, i, m + 1) <=> Unfinished(s, i)
  BY <1>1, <1>2 DEF SameLine, Unfinished, m
<1>7. \A k : k \in ToldAt(t, i) <=> \/ k \in ToldAt(s, i)
                                    \/ k = m + 1 /\ HasStatus(p) /\ Unfinished(s, i)
  <2> TAKE k
  <2>1. k \in i..Len(t) <=> k \in i..m \/ k = m + 1
    BY <1>1, <1>2
  <2>2. k \in i..m => t[k] = s[k] /\ k # m + 1
    BY <1>1, <1>2
  <2> QED
    BY <1>1, <1>5, <1>6, <2>1, <2>2 DEF ToldAt, m
<1> QED
  BY <1>3, <1>4, <1>7 DEF t, m

\* The status stays what was told first, or becomes what is told now.
LEMMA StatusGrows ==
    ASSUME NEW s \in Seq(Packets), NEW p \in Packets, NEW i \in MarkerAt(s), NEW n,
           StatusIs(s, i, n)
    PROVE  StatusIs(Append(s, p), i,
                    IF ToldAt(s, i) = {} /\ HasStatus(p) /\ Unfinished(s, i) THEN p.n ELSE n)
<1> DEFINE t == Append(s, p)
           m == Len(s)
<1>1. /\ m \in Nat /\ t[m + 1] = p /\ (\A j \in 1..m : t[j] = s[j]) /\ i \in 1..m
  BY DEF MarkerAt
<1>2. ToldAt(t, i) = ToldAt(s, i) \cup (IF HasStatus(p) /\ Unfinished(s, i) THEN {m + 1} ELSE {})
  BY OneMore
<1>3. ToldAt(s, i) \subseteq i..m
  BY DEF ToldAt
<1> HIDE DEF t, m
<1>4. CASE ToldAt(s, i) = {}
  <2>1. CASE HasStatus(p) /\ Unfinished(s, i)
    <3>1. ToldAt(t, i) = {m + 1}
      BY <1>2, <1>4, <2>1
    <3>2. Least(ToldAt(t, i), m + 1)
      BY <1>1, <3>1 DEF Least
    <3> QED
      BY <1>1, <1>4, <2>1, <3>1, <3>2 DEF StatusIs, t
  <2>2. CASE ~(HasStatus(p) /\ Unfinished(s, i))
    <3>1. ToldAt(t, i) = {} /\ n = 0
      BY <1>2, <1>4, <2>2 DEF StatusIs
    <3> QED
      BY <2>2, <3>1 DEF StatusIs, t
  <2> QED
    BY <2>1, <2>2
<1>5. CASE ToldAt(s, i) # {}
  <2>1. PICK k \in ToldAt(s, i) : Least(ToldAt(s, i), k) /\ n = s[k].n
    BY <1>5 DEF StatusIs
  <2>2. k \in 1..m /\ k <= m + 1
    BY <1>1, <1>3, <2>1
  <2>3. k \in ToldAt(t, i) /\ Least(ToldAt(t, i), k) /\ n = t[k].n
    BY <1>1, <1>2, <2>1, <2>2 DEF Least
  <2> QED
    BY <1>5, <2>3 DEF StatusIs, t
<1> QED
  BY <1>4, <1>5

\* ps2link_scan_console on the text of a datagram, whether or not the line ends in it.
LEMMA LineGrows ==
    ASSUME NEW s \in Seq(Packets), NEW p \in Packets, NEW l0 \in Lines, LineInv(s, l0)
    PROVE  LET t == Append(s, p)
               l == AddText(l0, p)
           IN  IF l.found
                 THEN \E i \in MarkerAt(t) :
                        /\ Unfinished(t, i) <=> ~p.nl
                        /\ StatusIs(t, i, l.status)
                        /\ l.told <=> ToldAt(t, i) # {}
                 ELSE l = EmptyLine /\ \A j \in DOMAIN t : ~HasMarker(t[j])
<1> DEFINE t == Append(s, p)
           l == AddText(l0, p)
           m == Len(s)
<1>1. /\ m \in Nat /\ Len(t) = m + 1 /\ t[m + 1] = p /\ DOMAIN t = 1..(m + 1) /\ DOMAIN s = 1..m
      /\ \A j \in 1..m : t[j] = s[j]
  OBVIOUS
<1>2. HasMarker(p) \in BOOLEAN /\ HasStatus(p) \in BOOLEAN /\ l0.found \in BOOLEAN /\ l0.told \in BOOLEAN
  BY DEF HasMarker, HasStatus, Lines
<1>3. /\ l.found <=> (l0.found \/ HasMarker(p))
      /\ l.told <=> (l0.told \/ (l.found /\ ~l0.told /\ HasStatus(p)))
      /\ l.status = (IF l.found /\ ~l0.told /\ HasStatus(p) THEN p.n ELSE l0.status)
  BY <1>2 DEF AddText
<1>4. CASE l0.found
  <2>1. PICK i \in MarkerAt(s) :
          /\ Unfinished(s, i) /\ StatusIs(s, i, l0.status) /\ (l0.told <=> ToldAt(s, i) # {})
    BY <1>4 DEF LineInv
  <2>2. /\ i \in MarkerAt(t) /\ (Unfinished(t, i) <=> ~p.nl)
        /\ ToldAt(t, i) = ToldAt(s, i) \cup (IF HasStatus(p) THEN {m + 1} ELSE {})
    BY <2>1, OneMore
  <2>3. StatusIs(t, i, l.status)
    <3>1. l.status = (IF ToldAt(s, i) = {} /\ HasStatus(p) /\ Unfinished(s, i) THEN p.n ELSE l0.status)
      BY <1>3, <1>4, <2>1
    <3> HIDE DEF l
    <3> QED
      BY <2>1, <3>1, StatusGrows
  <2>4. l.told <=> ToldAt(t, i) # {}
    <3> HIDE DEF l, t
    <3> QED
      BY <1>3, <1>4, <2>1, <2>2
  <2> QED
    BY <1>3, <1>4, <2>2, <2>3, <2>4
<1>5. CASE ~l0.found /\ HasMarker(p)
  <2>1. l0.told = FALSE /\ l0.status = 0 /\ \A j \in 1..m : ~HasMarker(s[j])
    BY <1>1, <1>5 DEF LineInv, EmptyLine
  <2> HIDE DEF t, l, m
  <2>2. m + 1 \in MarkerAt(t)
    BY <1>1, <1>5, <2>1 DEF MarkerAt
  <2>3. Unfinished(t, m + 1) <=> ~p.nl
    BY <1>1 DEF Unfinished
  <2>4. SameLine(t, m + 1, m + 1)
    BY <1>1 DEF SameLine
  <2>5. ToldAt(t, m + 1) = (IF HasStatus(p) THEN {m + 1} ELSE {})
    <3>1. \A k : k \in (m + 1)..Len(t) <=> k = m + 1
      BY <1>1
    <3> QED
      BY <1>1, <2>4, <3>1 DEF ToldAt
  <2>6. StatusIs(t, m + 1, l.status)
    <3>1. CASE HasStatus(p)
      <4>1. l.status = p.n
        BY <1>3, <1>5, <2>1, <3>1
      <4>2. Least(ToldAt(t, m + 1), m + 1)
        BY <1>1, <2>5, <3>1 DEF Least
      <4> QED
        BY <1>1, <2>5, <3>1, <4>1, <4>2 DEF StatusIs
    <3>2. CASE ~HasStatus(p)
      BY <1>3, <2>1, <2>5, <3>2 DEF StatusIs
    <3> QED
      BY <3>1, <3>2
  <2>7. l.told <=> ToldAt(t, m + 1) # {}
    BY <1>3, <1>5, <2>1, <2>5
  <2> QED
    BY <1>3, <1>5, <2>2, <2>3, <2>6, <2>7 DEF t, l
<1>6. CASE ~l0.found /\ ~HasMarker(p)
  <2>1. l0 = EmptyLine /\ \A j \in 1..m : ~HasMarker(s[j])
    BY <1>1, <1>6 DEF LineInv
  <2>2. ~l.found /\ l = EmptyLine
    BY <1>2, <1>6, <2>1 DEF AddText, EmptyLine
  <2>3. \A j \in DOMAIN t : ~HasMarker(t[j])
    <3> HIDE DEF t
    <3> QED
      BY <1>1, <1>6, <2>1
  <2> QED
    BY <2>2, <2>3
<1> QED
  BY <1>2, <1>4, <1>5, <1>6

\* Nothing is scanned at first.
LEMMA StoryInit == Init => StoryInv
BY DEF Init, StoryInv, LineInv, EmptyLine

\* The datagram in hand is scanned.
LEMMA ScanStory ==
    ASSUME TypeOK, StoryInv, ScanConsole
    PROVE  StoryInv'
<1>1. /\ marker => scanned' = Append(scanned, packet)
      /\ UNCHANGED <<marker, main>>
      /\ scanned \in Seq(Packets) /\ packet \in Packets /\ line \in Lines
  BY DEF ScanConsole, TypeOK, TypeScan, TypeThreads
<1>2. CASE ~marker
  BY <1>1, <1>2 DEF ScanConsole, StoryInv
<1>3. CASE marker /\ main \in Leaving
  BY <1>1, <1>3 DEF StoryInv
<1>4. CASE marker /\ main \notin Leaving /\ marker_seen
  <2>1. PICK i \in MarkerAt(scanned) :
          ~Unfinished(scanned, i) /\ StatusIs(scanned, i, marker_status)
    BY <1>4 DEF StoryInv
  <2>2. marker_seen' = marker_seen /\ marker_status' = marker_status
    BY <1>4 DEF ScanConsole, CheckLine
  <2>3. i \in MarkerAt(scanned') /\ ~Unfinished(scanned', i)
    BY <1>1, <1>4, <2>1, OneMore
  <2>4. StatusIs(scanned', i, marker_status)
    BY <1>1, <1>4, <2>1, StatusGrows
  <2> QED
    BY <1>1, <1>4, <2>2, <2>3, <2>4 DEF StoryInv
<1>5. CASE marker /\ main \notin Leaving /\ ~marker_seen
  <2> DEFINE l == AddText(line, packet)
  <2>1. LineInv(scanned, line)
    BY <1>5 DEF StoryInv
  <2>2. IF l.found
          THEN \E i \in MarkerAt(scanned') :
                 /\ Unfinished(scanned', i) <=> ~packet.nl
                 /\ StatusIs(scanned', i, l.status)
                 /\ l.told <=> ToldAt(scanned', i) # {}
          ELSE l = EmptyLine /\ \A j \in DOMAIN scanned' : ~HasMarker(scanned'[j])
    BY <1>1, <1>5, <2>1, LineGrows
  <2>3. IF packet.nl THEN CheckLine(l) /\ line' = EmptyLine
        ELSE line' = l /\ UNCHANGED <<marker_seen, marker_status>>
    BY <1>5 DEF ScanConsole
  <2> HIDE DEF l
  <2>4. CASE packet.nl /\ l.found
    <3>1. marker_seen' = TRUE /\ marker_status' = l.status
      BY <1>5, <2>3, <2>4 DEF CheckLine
    <3> QED
      BY <1>1, <1>5, <2>2, <2>4, <3>1 DEF StoryInv
  <2>5. CASE packet.nl /\ ~l.found
    <3>1. marker_seen' = marker_seen /\ line' = EmptyLine
      BY <1>5, <2>3, <2>5 DEF CheckLine
    <3>2. LineInv(scanned', line')
      BY <2>2, <2>5, <3>1 DEF LineInv, EmptyLine
    <3> QED
      BY <1>1, <1>5, <3>1, <3>2 DEF StoryInv
  <2>6. CASE ~packet.nl
    <3>1. marker_seen' = marker_seen /\ line' = l
      BY <2>3, <2>6
    <3>2. LineInv(scanned', line')
      BY <2>2, <2>6, <3>1 DEF LineInv
    <3> QED
      BY <1>1, <1>5, <3>1, <3>2 DEF StoryInv
  <2> QED
    BY <2>4, <2>5, <2>6
<1> QED
  BY <1>2, <1>3, <1>4, <1>5

\* Only the console thread changes what is known of the stream, until main decides.
LEMMA StoryStep == TypeOK /\ StoryInv /\ [Next]_vars => StoryInv'
<1> SUFFICES ASSUME TypeOK, StoryInv, [Next]_vars PROVE StoryInv'
  OBVIOUS
<1>1. ASSUME UNCHANGED <<marker, scanVars>>, main \in Leaving => main' \in Leaving PROVE StoryInv'
  BY <1>1 DEF StoryInv
<1>2. CASE ConnectConsole \/ ConnectRequest \/ ConnectCommand \/ StartThreads
           \/ HandshakePoll \/ HandshakeCheck \/ SendCommand \/ EnterMainloop \/ Look \/ Decide
           \/ DisconnectCancel \/ DisconnectClose \/ Return
  <2>1. UNCHANGED <<marker, scanVars>> /\ (main \in Leaving => main' \in Leaving)
    BY <1>2 DEF ConnectConsole, ConnectRequest, ConnectCommand, StartThreads, HandshakePoll,
                HandshakeCheck, SendCommand, EnterMainloop, Look, Decide, DisconnectCancel,
                DisconnectClose, Return, Leaving, ReturnEarly
  <2> QED
    BY <1>1, <2>1
<1>3. CASE IdleOut \/ DrainOut
  <2>1. main' \in Leaving /\ marker' = marker
    BY <1>3 DEF IdleOut, DrainOut, Leaving
  <2>2. ~marker => UNCHANGED marker_seen
    BY <1>3 DEF IdleOut, DrainOut, CheckPartialLine
  <2> QED
    BY <2>1, <2>2 DEF StoryInv
<1>4. CASE ScanConsole
  BY <1>4, ScanStory
<1>5. CASE ReceiveConsole \/ ReceiveConsoleFails \/ StampConsole \/ CancelConsole
           \/ ReceiveRequest \/ ReceiveFails \/ ReceiveUnread \/ PerformOpen \/ PerformClose
           \/ PerformOther \/ WriteWithoutMemory \/ Respond \/ StampRequest \/ SetLost
           \/ CancelRequest
  <2>1. UNCHANGED <<marker, main, scanVars>>
    BY <1>5 DEF ReceiveConsole, ReceiveConsoleFails, StampConsole, CancelConsole,
                ReceiveRequest, ReceiveFails, ReceiveUnread, PerformOpen, PerformClose,
                PerformOther, WriteWithoutMemory, Respond, StampRequest, SetLost, CancelRequest
  <2> QED
    BY <1>1, <2>1
<1>7. CASE WaitConsole \/ WaitRequest
  <2>1. UNCHANGED <<marker, scanVars>> /\ (main \in Leaving => main' \in Leaving)
    BY <1>7 DEF WaitConsole, WaitRequest, WaitsOnClosed, Leaving
  <2> QED
    BY <1>1, <2>1
<1>6. CASE ConsoleArrives \/ DumpStarts \/ DumpEnds \/ ProgramAsks \/ Ps2Closes
           \/ Ps2Garbles \/ Tick \/ UNCHANGED vars
  <2>1. UNCHANGED <<marker, main, scanVars>>
    BY <1>6 DEF ConsoleArrives, DumpStarts, DumpEnds, ProgramAsks, Ps2Closes, Ps2Garbles,
                Tick, vars
  <2> QED
    BY <1>1, <2>1
<1> QED
  BY NextSplit, <1>2, <1>3, <1>4, <1>5, <1>6, <1>7

\* The stream says which status a marker has.
LEMMA StoryTells ==
    ASSUME TypeOK, NEW i \in MarkerAt(scanned), NEW n, StatusIs(scanned, i, n)
    PROVE  StatusAfter(scanned, i) = n
<1>1. scanned \in Seq(Packets)
  BY DEF TypeOK, TypeScan
<1>2. i \in 1..Len(scanned)
  BY <1>1 DEF MarkerAt
<1> QED
  BY <1>1, <1>2, StatusIsAfter

\* ps2link_mainloop: for any number of datagrams, cut and ordered in any way, and whenever the
\* threads run, main exits with the status of the first marker in the console stream that was
\* scanned when it decides; without a marker with CONNLOST, TIMEOUT or OK.
THEOREM ExitIsTheStory == Spec => ExitTellsTheStory
<1> DEFINE Tells ==
      (main \in {"look", "idle_out", "drain"} /\ main' = "disconnect") =>
         IF marker /\ MarkerAt(scanned) # {}
           THEN \E i \in MarkerAt(scanned) : status' = StatusAfter(scanned, i) % 256
           ELSE status' = (IF lost /\ main = "drain" THEN EXIT_CONNLOST
                           ELSE IF marker THEN EXIT_TIMEOUT ELSE EXIT_OK)
<1>1. TypeOK /\ LossInv /\ StoryInv /\ [Next]_vars => Tells
  <2> SUFFICES ASSUME TypeOK, LossInv, StoryInv, [Next]_vars,
                      main \in {"look", "idle_out", "drain"}, main' = "disconnect"
               PROVE  IF marker /\ MarkerAt(scanned) # {}
                        THEN \E i \in MarkerAt(scanned) : status' = StatusAfter(scanned, i) % 256
                        ELSE status' = (IF lost /\ main = "drain" THEN EXIT_CONNLOST
                                        ELSE IF marker THEN EXIT_TIMEOUT ELSE EXIT_OK)
    OBVIOUS
  <2>1. Look \/ IdleOut \/ DrainOut
    BY NextSplit DEF ConnectConsole, ConnectRequest, ConnectCommand, StartThreads, HandshakePoll,
       HandshakeCheck, SendCommand, EnterMainloop, Decide, DisconnectCancel, DisconnectClose,
       Return, WaitConsole, WaitsOnClosed, ReceiveConsole, ReceiveConsoleFails, ScanConsole,
       StampConsole, CancelConsole, WaitRequest, ReceiveRequest, ReceiveFails, ReceiveUnread,
       PerformOpen, PerformClose, PerformOther, WriteWithoutMemory, Respond, StampRequest,
       SetLost, CancelRequest, ConsoleArrives, DumpStarts, DumpEnds, ProgramAsks, Ps2Closes, Ps2Garbles,
       Tick, vars
  <2>2. main \notin Leaving /\ (main = "drain" => lost)
    BY DEF Leaving, LossInv
  <2>3. main = "look" => marker_seen
    BY <2>1 DEF Look, IdleOut, DrainOut
  <2>4. main \in {"idle_out", "drain"} => CheckPartialLine
    BY <2>1 DEF Look, IdleOut, DrainOut
  <2>5. status' = (IF main = "look" THEN marker_status % 256
                   ELSE IF marker_seen' THEN marker_status' % 256
                   ELSE IF main = "drain" THEN EXIT_CONNLOST
                   ELSE IF marker THEN EXIT_TIMEOUT ELSE EXIT_OK)
    BY <2>1 DEF Look, IdleOut, DrainOut, ExitByte
  <2>6. CASE marker_seen
    <3>1. marker /\ status' = marker_status % 256
      BY <2>4, <2>5, <2>6 DEF StoryInv, CheckPartialLine, CheckLine
    <3>2. PICK i \in MarkerAt(scanned) : StatusIs(scanned, i, marker_status)
      BY <2>2, <2>6, <3>1 DEF StoryInv
    <3>3. StatusAfter(scanned, i) = marker_status
      BY <3>2, StoryTells
    <3> QED
      BY <3>1, <3>2, <3>3
  <2>7. CASE ~marker_seen /\ ~marker
    <3>1. ~marker_seen'
      BY <2>3, <2>4, <2>7 DEF CheckPartialLine
    <3> QED
      BY <2>2, <2>3, <2>5, <2>7, <3>1
  <2>8. CASE ~marker_seen /\ marker
    <3>1. LineInv(scanned, line) /\ CheckLine(line) /\ main # "look"
      BY <2>2, <2>3, <2>4, <2>8 DEF StoryInv, CheckPartialLine
    <3>2. CASE line.found
      <4>1. marker_seen' /\ marker_status' = line.status
        BY <2>8, <3>1, <3>2 DEF CheckLine
      <4>2. PICK i \in MarkerAt(scanned) : StatusIs(scanned, i, line.status)
        BY <3>1, <3>2 DEF LineInv
      <4>3. StatusAfter(scanned, i) = line.status
        BY <4>2, StoryTells
      <4>4. status' = line.status % 256
        BY <2>5, <3>1, <4>1
      <4> QED
        BY <2>8, <4>2, <4>3, <4>4
    <3>3. CASE ~line.found
      <4>1. MarkerAt(scanned) = {}
        BY <3>1, <3>3 DEF LineInv, MarkerAt
      <4>2. ~marker_seen'
        BY <2>8, <3>1, <3>3 DEF CheckLine
      <4> QED
        BY <2>2, <2>5, <2>8, <3>1, <4>1, <4>2
    <3> QED
      BY <3>2, <3>3
  <2> QED
    BY <2>6, <2>7, <2>8
<1>2. ExitTellsTheStory <=> [][Tells]_vars
  BY DEF ExitTellsTheStory
<1> HIDE DEF Tells
<1> QED
  BY <1>1, <1>2, StoryInit, StoryStep, LossInit, LossStep, TypeCorrect, PTL DEF Spec
=============================================================================
