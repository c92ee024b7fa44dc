----------------------------- MODULE Ps2Client -----------------------------
(***************************************************************************)
(* One run of ps2client (src/ps2client.c, src/ps2link.c): the main thread  *)
(* connects, shakes hands with ps2link, sends one command and waits; the   *)
(* console thread receives the console datagrams and looks for the -e      *)
(* marker; the request thread serves ps2link's host: requests.  The ps2    *)
(* and the network are the environment.                                    *)
(*                                                                         *)
(* Steps are the code's critical sections and blocking calls: what a       *)
(* thread does while it holds ps2link_lock is one step (no blocking call   *)
(* is made under the lock), and so is what it does between two calls that  *)
(* can block or that other threads can observe.                            *)
(*                                                                         *)
(* Time.  time_ms() is only ever subtracted from itself, so the model      *)
(* keeps ages (time_ms() - x), which saturate at Horizon, a bound no       *)
(* comparison in the code can see past.  A poll's sleep_ms(5) or           *)
(* sleep_ms(20) is the freedom of the other threads to run in between.     *)
(***************************************************************************)
EXTENDS Integers, Sequences

CONSTANTS
    Commands,          \* commands the user may give
    Markers,           \* whether -e is given: a subset of BOOLEAN
    Timeouts,          \* values of -t, in ticks; -1 when it is not given
    HandshakeTimeout,  \* HANDSHAKE_TIMEOUT_MS, in ticks
    PingTimeout,       \* default limit of the ping command, in ticks
    Resend,            \* the 1000 ms between two handshake commands, in ticks
    Drain,             \* the 500 ms left for the last console output, in ticks
    Horizon,           \* the age at which clocks stop counting
    Statuses,          \* numbers a program prints after "status="
    MaxFd,             \* file descriptors 1..MaxFd serve ps2link's files
    StaleFds,          \* descriptors a program on the ps2 kept from an earlier connection
    MaxOutputs,        \* bound: console datagrams that reach the host
    MaxRequests,       \* bound: requests of programs on the ps2
    Endless            \* TRUE: without -e these bound only what waits to be read

\* The command table (ps2client.c); resetcheck never reaches this code.
NO_WAIT == {"reset", "poweroff", "scrdump", "netdump", "startvu", "stopvu", "iopexcep"}
NEEDS_HOST == {"execiop", "execee", "dumpmem", "dumpreg", "gsexec", "writemem", "ping"}
CommandTable == NO_WAIT \cup NEEDS_HOST \cup {"listen", "console"}

ASSUME ConstantsAssumption ==
    /\ Commands \subseteq CommandTable /\ Markers \subseteq BOOLEAN
    /\ Timeouts \subseteq Int
    /\ Statuses \subseteq Int
    /\ HandshakeTimeout \in Nat /\ PingTimeout \in Nat /\ Drain \in Nat
    /\ Resend \in Nat \ {0}
    /\ MaxFd \in Nat /\ MaxOutputs \in Nat /\ MaxRequests \in Nat /\ Endless \in BOOLEAN
    /\ StaleFds \subseteq 1..MaxFd
    /\ Horizon \in Nat
    /\ HandshakeTimeout <= Horizon /\ PingTimeout <= Horizon /\ Resend <= Horizon
    /\ \A t \in Timeouts : t <= Horizon

\* Exit statuses (ps2link.h).
EXIT_OK == 0
EXIT_NOCONNECT == 69
EXIT_CONNLOST == 74
EXIT_PORTBUSY == 75
EXIT_TIMEOUT == 124
\* Killed by abort, as a shell tells it.
EXIT_ABORT == 134

VARIABLES
    cmd, timeout, marker,                \* command line: marker = TRUE iff -e was given
    main, status,                        \* main thread: program counter, exit status
    hs, since, sends,                    \* handshake: age of start, age of the last dumpreg, dumpregs sent
    snap, drain,                         \* mainloop: age of the activity read, rest of the 500 ms
    console_socket, request_socket, command_socket,   \* open or not
    cancelled,                           \* pthread_cancel called on the threads
    con, packet,                         \* console thread: program counter, datagram in hand
    req, request, ping_fd,               \* request thread: program counter, request in hand
    idle, lost, ping_answered,           \* shared: age of ps2link_activity and the flags
    marker_seen, marker_status, line,    \* shared: the marker and the line being scanned
    console_q, request_q, conn, fds,     \* host: socket buffers, TCP connection, open files
    dumps, dump, dump_fd, dumped, held,  \* ps2: dumpregs in flight, the dump, the programs' files
    outputs, requests,                   \* environment budgets used
    scanned                              \* history: the datagrams scanned for the marker

params == <<cmd, timeout, marker>>
clocks == <<hs, since, snap, drain>>
sockets == <<console_socket, request_socket, command_socket>>
mainVars == <<params, main, status, clocks, sends, sockets, cancelled>>
conVars == <<con, packet>>
reqVars == <<req, request, ping_fd>>
threadVars == <<conVars, reqVars>>
flags == <<lost, ping_answered>>
scanVars == <<marker_seen, marker_status, line, scanned>>
sharedVars == <<idle, flags, scanVars>>
dumpVars == <<dumps, dump, dump_fd, dumped>>
ps2Vars == <<dumpVars, held, outputs, requests>>
hostVars == <<console_q, request_q, conn, fds>>
vars == <<mainVars, threadVars, sharedVars, ps2Vars, hostVars>>

Fds == 1..MaxFd

\* What one datagram of console output adds to the current line: nothing that
\* counts, the marker, "status=n", or the marker and then "status=n" ("end");
\* then a newline or not.
Packets == [kind : {"none", "mark"}, n : {0}, nl : BOOLEAN]
             \cup [kind : {"status", "end"}, n : Statuses, nl : BOOLEAN]
HasMarker(p) == p.kind \in {"mark", "end"}
HasStatus(p) == p.kind \in {"status", "end"}
Ops == {"open_ping", "open", "close", "other", "unknown", "bad", "data"}
Requests == [op : Ops, fd : Fds \cup {-1}, by : {"dump", "program"}]
Lines == [found : BOOLEAN, told : BOOLEAN, status : Int]
EmptyLine == [found |-> FALSE, told |-> FALSE, status |-> 0]
NoPacket == [kind |-> "none", n |-> 0, nl |-> FALSE]
NoRequest == [op |-> "other", fd |-> -1, by |-> "program"]
UnreadData == [op |-> "data", fd |-> -1, by |-> "program"]

\* What the command connects to (main, ps2client.c).
WantsCommand == cmd # "console"
WantsRequest == cmd \in NEEDS_HOST \cup {"listen"}
WantsConsole == cmd \notin NO_WAIT \cup {"ping"}

Connecting == {"connect_console", "connect_request", "connect_command", "threads"}
Handshaking == {"handshake", "hs_check"}
Looping == {"mainloop", "look", "decide", "idle_out", "drain"}
Leaving == {"disconnect", "close", "return", "exited"}
Running == main # "exited"
Up == {"up", "unread"}
Limit == IF cmd # "ping" THEN HandshakeTimeout
         ELSE IF timeout > 0 THEN timeout ELSE PingTimeout
Older(age) == IF age < Horizon THEN age + 1 ELSE age

Init ==
    /\ cmd \in Commands
    /\ \E t \in Timeouts : timeout = (IF cmd \in NO_WAIT THEN 0 ELSE t)
    /\ marker \in Markers
    /\ main = "connect_console" /\ status = EXIT_OK
    /\ hs = 0 /\ since = 0 /\ sends = 0 /\ snap = 0 /\ drain = 0
    /\ console_socket = FALSE /\ request_socket = FALSE /\ command_socket = FALSE
    /\ cancelled = FALSE
    /\ con = "none" /\ packet = NoPacket
    /\ req = "none" /\ request = NoRequest /\ ping_fd = -1
    /\ idle = 0 /\ lost = FALSE /\ ping_answered = FALSE
    /\ marker_seen = FALSE /\ marker_status = 0 /\ line = EmptyLine
    /\ console_q = <<>> /\ request_q = <<>> /\ conn = "none" /\ fds = {}
    /\ dumps = 0 /\ dump = "idle" /\ dump_fd = -1 /\ dumped = FALSE
    /\ held = StaleFds
    /\ outputs = 0 /\ requests = 0 /\ scanned = <<>>
----------------------------------------------------------------------------
(* The main thread.                                                        *)

\* return without ps2link_disconnect
ReturnEarly(code) == main' = "exited" /\ status' = code

\* ps2link_connect
ConnectConsole ==
    /\ main = "connect_console"
    /\ \/ /\ WantsConsole
          /\ console_socket' = TRUE /\ main' = "connect_request"
          /\ UNCHANGED status
       \/ /\ WantsConsole
          /\ ReturnEarly(EXIT_PORTBUSY)
          /\ UNCHANGED console_socket
       \/ /\ ~WantsConsole
          /\ main' = "connect_request"
          /\ UNCHANGED <<console_socket, status>>
    /\ UNCHANGED <<params, clocks, sends, request_socket, command_socket, cancelled,
                   threadVars, sharedVars, ps2Vars, hostVars>>

ConnectRequest ==
    /\ main = "connect_request"
    /\ \/ /\ WantsRequest
          /\ request_socket' = TRUE /\ conn' = "up" /\ main' = "connect_command"
          /\ UNCHANGED status
       \/ /\ WantsRequest
          /\ ReturnEarly(EXIT_NOCONNECT)
          /\ UNCHANGED <<request_socket, conn>>
       \/ /\ ~WantsRequest
          /\ main' = "connect_command"
          /\ UNCHANGED <<request_socket, conn, status>>
    /\ UNCHANGED <<params, clocks, sends, console_socket, command_socket, cancelled,
                   threadVars, sharedVars, ps2Vars, console_q, request_q, fds>>

ConnectCommand ==
    /\ main = "connect_command"
    /\ \/ /\ WantsCommand
          /\ command_socket' = TRUE /\ main' = "threads"
          /\ UNCHANGED status
       \/ /\ WantsCommand
          /\ ReturnEarly(EXIT_NOCONNECT)
          /\ UNCHANGED command_socket
       \/ /\ ~WantsCommand
          /\ main' = "threads"
          /\ UNCHANGED <<command_socket, status>>
    /\ UNCHANGED <<params, clocks, sends, console_socket, request_socket, cancelled,
                   threadVars, sharedVars, ps2Vars, hostVars>>

\* The ping command's limit covers the connect as well: hs goes on ageing.
StartThreads ==
    /\ main = "threads"
    /\ idle' = 0
    /\ con' = (IF console_socket THEN "top" ELSE "none")
    /\ req' = (IF request_socket THEN "top" ELSE "none")
    /\ main' = (IF WantsRequest THEN "handshake" ELSE "command")
    /\ hs' = (IF cmd = "ping" THEN hs ELSE 0)
    /\ UNCHANGED <<params, status, since, sends, snap, drain, sockets, cancelled,
                   packet, request, ping_fd, flags, scanVars, ps2Vars, hostVars>>

\* ps2link_handshake: is the round trip complete?
HandshakePoll ==
    /\ main = "handshake"
    /\ IF ping_answered
         THEN /\ main' = (IF cmd = "ping" THEN "disconnect" ELSE "command")
              /\ hs' = 0 /\ since' = 0
         ELSE /\ main' = "hs_check"
              /\ UNCHANGED <<hs, since>>
    /\ UNCHANGED <<params, status, sends, snap, drain, sockets, cancelled, threadVars,
                   sharedVars, ps2Vars, hostVars>>

\* Mutant: next is never moved on.
DumpregAlwaysDue == TRUE
DumpregDue == sends = 0 \/ since >= Resend

GivesUp == hs >= Limit \/ lost

\* ps2link_handshake: give up, or repeat the command when it is time to.
HandshakeCheck ==
    /\ main = "hs_check"
    /\ \/ /\ GivesUp
          /\ main' = "disconnect" /\ status' = EXIT_NOCONNECT
          /\ hs' = 0 /\ since' = 0
          /\ UNCHANGED <<sends, dumps>>
       \/ /\ ~GivesUp
          /\ main' = "handshake"
          /\ IF DumpregDue
               THEN sends' = sends + 1 /\ dumps' = dumps + 1 /\ since' = 0
               ELSE UNCHANGED <<sends, dumps, since>>
          /\ UNCHANGED <<status, hs>>
    /\ UNCHANGED <<params, snap, drain, sockets, cancelled, threadVars, sharedVars,
                   dump, dump_fd, dumped, held, outputs, requests, hostVars>>

\* listen and console send nothing.
HasPacket == cmd \notin {"listen", "console"}

\* The ps2link_command_* functions: one UDP send, which may fail.
SendCommand ==
    /\ main = "command"
    /\ \/ main' = "mainloop" /\ UNCHANGED status
       \/ /\ HasPacket
          /\ main' = "disconnect" /\ status' = EXIT_NOCONNECT
    /\ UNCHANGED <<params, clocks, sends, sockets, cancelled, threadVars, sharedVars,
                   ps2Vars, hostVars>>

\* Mutant: -t 0 is taken for no timeout at all.
EnterMainloopAlways ==
    /\ main = "mainloop"
    /\ command_socket' = FALSE /\ main' = "look" /\ idle' = 0
    /\ UNCHANGED <<params, status, clocks, sends, console_socket, request_socket,
                   cancelled, threadVars, flags, scanVars, ps2Vars, hostVars>>

\* Mutant: the time the handshake took counts as idle time.
EnterMainloopUnstamped ==
    /\ main = "mainloop"
    /\ command_socket' = FALSE
    /\ IF timeout = 0
         THEN main' = "disconnect" /\ status' = EXIT_OK
         ELSE main' = "look" /\ UNCHANGED status
    /\ UNCHANGED <<params, clocks, sends, console_socket, request_socket, cancelled,
                   threadVars, sharedVars, ps2Vars, hostVars>>

\* ps2link_mainloop, up to its loop.
EnterMainloop ==
    /\ main = "mainloop"
    /\ command_socket' = FALSE
    /\ IF timeout = 0
         THEN main' = "disconnect" /\ status' = EXIT_OK /\ UNCHANGED idle
         ELSE main' = "look" /\ idle' = 0 /\ UNCHANGED status
    /\ UNCHANGED <<params, clocks, sends, console_socket, request_socket, cancelled,
                   threadVars, flags, scanVars, ps2Vars, hostVars>>

\* Mutant: the marker is only looked for once the loop ends for another reason.
LookPastMarker ==
    /\ main = "look"
    /\ snap' = (IF lost THEN 0 ELSE idle)
    /\ drain' = (IF lost THEN Drain ELSE 0)
    /\ main' = (IF lost THEN "drain" ELSE "decide")
    /\ UNCHANGED <<params, status, hs, since, sends, sockets, cancelled, threadVars,
                   sharedVars, ps2Vars, hostVars>>

\* Mutant: the status is passed on whole.
ExitByteWhole(n) == n
ExitByte(n) == n % 256

\* The loop's first critical section: the marker, else the activity and the loss.
Look ==
    /\ main = "look"
    /\ \/ /\ marker_seen
          /\ main' = "disconnect" /\ status' = ExitByte(marker_status)
          /\ UNCHANGED <<snap, drain>>
       \/ /\ ~marker_seen
          /\ snap' = (IF lost THEN 0 ELSE idle)
          /\ drain' = (IF lost THEN Drain ELSE 0)
          /\ main' = (IF lost THEN "drain" ELSE "decide")
          /\ UNCHANGED status
    /\ UNCHANGED <<params, hs, since, sends, sockets, cancelled, threadVars,
                   sharedVars, ps2Vars, hostVars>>

\* After the unlock: the idle timeout, against the activity read before it.
Decide ==
    /\ main = "decide"
    /\ main' = (IF timeout > 0 /\ snap >= timeout THEN "idle_out" ELSE "look")
    /\ snap' = 0
    /\ UNCHANGED <<params, status, hs, since, sends, drain, sockets, cancelled,
                   threadVars, sharedVars, ps2Vars, hostVars>>

\* ps2link_check_line (with ps2link_lock held)
CheckLine(l) ==
    IF ~marker_seen /\ l.found
      THEN marker_seen' = TRUE /\ marker_status' = l.status
      ELSE UNCHANGED <<marker_seen, marker_status>>

\* Mutant: a line without a newline is dropped.
DropPartialLine == UNCHANGED <<marker_seen, marker_status>>

\* The unfinished line counts once nothing more is awaited.
CheckPartialLine == IF marker THEN CheckLine(line) ELSE UNCHANGED <<marker_seen,
                                                                    marker_status>>

IdleOut ==
    /\ main = "idle_out"
    /\ CheckPartialLine
    /\ status' = (IF marker_seen' THEN ExitByte(marker_status')
                  ELSE IF marker THEN EXIT_TIMEOUT ELSE EXIT_OK)
    /\ main' = "disconnect"
    /\ UNCHANGED <<params, clocks, sends, sockets, cancelled, threadVars, idle, flags,
                   line, scanned, ps2Vars, hostVars>>

DrainOut ==
    /\ main = "drain" /\ drain = 0
    /\ CheckPartialLine
    /\ status' = (IF marker_seen' THEN ExitByte(marker_status') ELSE EXIT_CONNLOST)
    /\ main' = "disconnect"
    /\ UNCHANGED <<params, clocks, sends, sockets, cancelled, threadVars, idle, flags,
                   line, scanned, ps2Vars, hostVars>>

\* ps2link_disconnect: cancel the threads, then close the sockets, then exit.
DisconnectCancel ==
    /\ main = "disconnect"
    /\ cancelled' = TRUE /\ main' = "close"
    /\ UNCHANGED <<params, status, clocks, sends, sockets, threadVars, sharedVars,
                   ps2Vars, hostVars>>

DisconnectClose ==
    /\ main = "close"
    /\ command_socket' = FALSE /\ request_socket' = FALSE /\ console_socket' = FALSE
    /\ main' = "return"
    /\ UNCHANGED <<params, status, clocks, sends, cancelled, threadVars, sharedVars,
                   ps2Vars, hostVars>>

Return ==
    /\ main = "return"
    /\ main' = "exited"
    /\ UNCHANGED <<params, status, clocks, sends, sockets, cancelled, threadVars,
                   sharedVars, ps2Vars, hostVars>>

MainStep == \/ ConnectConsole \/ ConnectRequest \/ ConnectCommand \/ StartThreads
            \/ HandshakePoll \/ HandshakeCheck \/ SendCommand \/ EnterMainloop
            \/ Look \/ Decide \/ IdleOut \/ DrainOut
            \/ DisconnectCancel \/ DisconnectClose \/ Return
----------------------------------------------------------------------------
(* The console thread (ps2link_thread_console).                            *)

\* FD_SET of a descriptor that main has closed and set to -1 meanwhile, before the
\* select that would end the cancelled thread: undefined.  The thread may get to
\* the select (a new one also may see the -1 and return), or a build that checks
\* FD_SET aborts the program.
WaitsOnClosed == \/ UNCHANGED <<main, status>>
                 \/ main' = "exited" /\ status' = EXIT_ABORT

\* network_wait, up to its select
WaitConsole ==
    /\ con = "top"
    /\ \/ console_socket /\ con' = "wait" /\ UNCHANGED <<main, status>>
       \/ ~console_socket /\ con' = "dead" /\ WaitsOnClosed
    /\ UNCHANGED <<params, clocks, sends, sockets, cancelled, packet, reqVars, sharedVars,
                   ps2Vars, hostVars>>

ReceiveConsole ==
    /\ con = "wait" /\ ~cancelled
    /\ console_q # <<>>
    /\ packet' = Head(console_q) /\ console_q' = Tail(console_q)
    /\ con' = "scan"
    /\ UNCHANGED <<mainVars, reqVars, sharedVars, ps2Vars, request_q, conn, fds>>

\* Mutant: every return from the receive counts as activity.
ReceiveConsoleStamps ==
    /\ con = "wait" /\ ~cancelled
    /\ con' = "top" /\ idle' = 0
    /\ UNCHANGED <<mainVars, packet, reqVars, flags, scanVars, ps2Vars, hostVars>>

\* recvfrom fails: a pause, and again from the top.
ReceiveConsoleFails ==
    /\ con = "wait" /\ ~cancelled
    /\ con' = "top"
    /\ UNCHANGED <<mainVars, packet, reqVars, sharedVars, ps2Vars, hostVars>>

\* The line after a piece of text: strstr finds the first marker, then the
\* first "status=" after it.
AddText(l, p) ==
    LET found == l.found \/ HasMarker(p)
        tells == found /\ ~l.told /\ HasStatus(p)
    IN  [found |-> found, told |-> l.told \/ tells, status |-> IF tells THEN p.n ELSE l.status]

\* ps2link_scan_console, under the lock
ScanConsole ==
    /\ con = "scan"
    /\ con' = "stamp"
    /\ IF marker
         THEN LET l == AddText(line, packet)
              IN  /\ scanned' = Append(scanned, packet)
                  /\ IF packet.nl THEN CheckLine(l) /\ line' = EmptyLine
                     ELSE line' = l /\ UNCHANGED <<marker_seen, marker_status>>
         ELSE UNCHANGED scanVars
    /\ UNCHANGED <<mainVars, packet, reqVars, idle, flags, ps2Vars, hostVars>>

\* ps2link_set_activity
StampConsole ==
    /\ con = "stamp"
    /\ idle' = 0 /\ con' = "top" /\ packet' = NoPacket
    /\ UNCHANGED <<mainVars, reqVars, flags, scanVars, ps2Vars, hostVars>>

\* A cancelled thread ends in its next blocking call (select, recvfrom, fwrite).
CancelConsole ==
    /\ con \in {"wait", "scan"} /\ cancelled
    /\ con' = "dead"
    /\ UNCHANGED <<mainVars, packet, reqVars, sharedVars, ps2Vars, hostVars>>

ConsoleStep == /\ Running
               /\ \/ WaitConsole \/ ReceiveConsole \/ ReceiveConsoleFails \/ ScanConsole
                  \/ StampConsole \/ CancelConsole
----------------------------------------------------------------------------
(* The request thread (ps2link_thread_request).                            *)

\* network_wait, up to its select
WaitRequest ==
    /\ req = "top"
    /\ \/ request_socket /\ req' = "wait" /\ UNCHANGED <<main, status>>
       \/ ~request_socket /\ req' = "dead" /\ WaitsOnClosed
    /\ UNCHANGED <<params, clocks, sends, sockets, cancelled, conVars, request, ping_fd,
                   sharedVars, ps2Vars, hostVars>>

ReceiveRequest ==
    /\ req = "wait" /\ ~cancelled
    /\ request_q # <<>> /\ Head(request_q).op # "data"
    /\ request' = Head(request_q) /\ request_q' = Tail(request_q)
    /\ req' = (IF Head(request_q).op = "bad" THEN "break" ELSE "serve")
    /\ UNCHANGED <<mainVars, conVars, ping_fd, sharedVars, ps2Vars, console_q, conn,
                   fds>>

\* Mutant: a receive with nothing to read is taken for the end of the connection.
ReceiveFailsWhenEmpty ==
    /\ req = "wait" /\ ~cancelled
    /\ request_q = <<>>
    /\ req' = "break"
    /\ UNCHANGED <<mainVars, conVars, request, ping_fd, sharedVars, ps2Vars, hostVars>>

\* network_receive_all fails: the connection was closed, or broke before
\* everything in the buffer was read.
ReceiveFails ==
    /\ req = "wait" /\ ~cancelled
    /\ conn = "closed"
    /\ req' = "break"
    /\ UNCHANGED <<mainVars, conVars, request, ping_fd, sharedVars, ps2Vars, hostVars>>

\* Data of a write that was not read is taken for a header: a bad length, or a number
\* nothing is done for, and then the packet may take in the start of what follows.
ReceiveUnread ==
    /\ req = "wait" /\ ~cancelled
    /\ request_q # <<>> /\ Head(request_q).op = "data"
    /\ \/ req' \in {"break", "stamp"} /\ request_q' = Tail(request_q)
       \/ /\ req' = "stamp" /\ Len(request_q) > 1
          /\ request_q' = <<Head(request_q)>> \o Tail(Tail(request_q))
    /\ UNCHANGED <<mainVars, conVars, request, ping_fd, sharedVars, ps2Vars, console_q,
                   conn, fds>>

\* open() returns the lowest free descriptor, or fails.
Opens(fd) == \/ fd = -1
             \/ fd \in Fds \ fds /\ \A f \in Fds \ fds : fd <= f

\* ps2link_request_open, up to its response; the handshake's file is the null device.
PerformOpen ==
    /\ req = "serve" /\ ~cancelled
    /\ request.op \in {"open", "open_ping"}
    /\ \E fd \in Fds \cup {-1} :
         /\ Opens(fd)
         /\ fds' = fds \cup ({fd} \ {-1})
         /\ request' = [request EXCEPT !.fd = fd]
         /\ ping_fd' = (IF request.op = "open_ping" THEN fd ELSE ping_fd)
    /\ req' = "reply"
    /\ UNCHANGED <<mainVars, conVars, sharedVars, ps2Vars, console_q, request_q, conn>>

\* Mutant: the check that a handshake file is open at all is missing.
PingCompleteAnyFd(fd) == fd = ping_fd
PingComplete(fd) == ping_fd >= 0 /\ fd = ping_fd

\* ps2link_request_close, up to its response
PerformClose ==
    /\ req = "serve" /\ ~cancelled
    /\ request.op = "close"
    /\ fds' = fds \ {request.fd}
    /\ IF PingComplete(request.fd)
         THEN ping_fd' = -1 /\ ping_answered' = TRUE
         ELSE UNCHANGED <<ping_fd, ping_answered>>
    /\ req' = "reply"
    /\ UNCHANGED <<mainVars, conVars, request, idle, lost, scanVars, ps2Vars,
                   console_q, request_q, conn>>

\* Every other request, up to its response.  There is none for an unknown number, nor
\* for a write whose data the connection broke in.
PerformOther ==
    /\ req = "serve" /\ ~cancelled
    /\ \/ request.op = "other" /\ req' = "reply"
       \/ request.op = "unknown" /\ req' = "stamp"
       \/ request.op = "other" /\ conn = "closed" /\ req' = "stamp"
    /\ UNCHANGED <<mainVars, conVars, request, ping_fd, sharedVars, ps2Vars, hostVars>>

\* ps2link_request_write of more than fits its buffer, without memory: no response, and
\* the data is still in front of what follows.
WriteWithoutMemory ==
    /\ req = "serve" /\ ~cancelled
    /\ request.op = "other"
    /\ req' = "stamp"
    /\ request_q' = <<UnreadData>> \o request_q
    /\ conn' = (IF conn = "up" THEN "unread" ELSE conn)
    /\ UNCHANGED <<mainVars, conVars, request, ping_fd, sharedVars, ps2Vars, console_q, fds>>

\* ps2link_response_*: what the requester on the ps2 learns.  A send on a
\* closed connection fails, and nothing looks at that.
Respond ==
    /\ req = "reply" /\ ~cancelled
    /\ req' = "stamp"
    /\ IF conn \in Up /\ request.by = "dump"
         THEN /\ dump' = (IF request.op = "open_ping" /\ request.fd # -1
                            THEN "opened" ELSE "idle")
              /\ dump_fd' = (IF request.op = "open_ping" THEN request.fd ELSE -1)
         ELSE UNCHANGED <<dump, dump_fd>>
    /\ held' = (IF conn \in Up /\ request.by = "program" /\ request.op = "open"
                  THEN held \cup ({request.fd} \ {-1}) ELSE held)
    /\ UNCHANGED <<mainVars, conVars, request, ping_fd, sharedVars, dumps, dumped,
                   outputs, requests, hostVars>>

\* ps2link_set_activity
StampRequest ==
    /\ req = "stamp"
    /\ idle' = 0 /\ req' = "top" /\ request' = NoRequest
    /\ UNCHANGED <<mainVars, conVars, ping_fd, flags, scanVars, ps2Vars, hostVars>>

\* Mutant: the thread ends without telling the main loop.
EndSilently ==
    /\ req = "break"
    /\ req' = "dead"
    /\ UNCHANGED <<mainVars, conVars, request, ping_fd, sharedVars, ps2Vars, hostVars>>

\* The loop was left: ps2link_set_flag(&ps2link_lost)
SetLost ==
    /\ req = "break"
    /\ lost' = TRUE /\ req' = "dead"
    /\ UNCHANGED <<mainVars, conVars, request, ping_fd, idle, ping_answered, scanVars,
                   ps2Vars, hostVars>>

CancelRequest ==
    /\ req \in {"wait", "serve", "reply"} /\ cancelled
    /\ req' = "dead"
    /\ UNCHANGED <<mainVars, conVars, request, ping_fd, sharedVars, ps2Vars, hostVars>>

RequestStep == /\ Running
               /\ \/ WaitRequest \/ ReceiveRequest \/ ReceiveFails \/ ReceiveUnread
                  \/ PerformOpen \/ PerformClose \/ PerformOther \/ WriteWithoutMemory
                  \/ Respond \/ StampRequest \/ SetLost \/ CancelRequest
----------------------------------------------------------------------------
(* The environment: ps2link, the programs on the ps2, the network, time.   *)

\* Whether one more may come, of those that waits holds and that were counted so far.
\* With -e there is always a bound, as scanned remembers them all.
Unending == Endless /\ ~marker
Room(waits, count, bound) == IF Unending THEN Len(waits) < bound ELSE count < bound
Counted(count) == IF Unending THEN count ELSE count + 1

\* A console datagram reaches the host.  Datagrams may be lost, duplicated
\* and reordered on the way: any sequence of them may arrive.  Without -e nothing
\* looks at what they say.
ConsoleArrives ==
    /\ console_socket /\ Room(console_q, outputs, MaxOutputs)
    /\ \E p \in (IF marker THEN Packets ELSE {NoPacket}) : console_q' = Append(console_q, p)
    /\ outputs' = Counted(outputs)
    /\ UNCHANGED <<mainVars, threadVars, sharedVars, dumpVars, held, requests,
                   request_q, conn, fds>>

Asks(op, fd, by) == request_q' = Append(request_q, [op |-> op, fd |-> fd, by |-> by])

\* ps2link received a dumpreg (one that is never received was lost) and opens
\* the file to dump to.
DumpStarts ==
    /\ conn \in Up /\ dumps > 0 /\ dump = "idle"
    /\ dumps' = dumps - 1 /\ dump' = "opening"
    /\ Asks("open_ping", -1, "dump")
    /\ UNCHANGED <<mainVars, threadVars, sharedVars, dump_fd, dumped, held, outputs,
                   requests, console_q, conn, fds>>

\* The registers are written and ps2link closes the file.
DumpEnds ==
    /\ conn \in Up /\ dump = "opened"
    /\ dump' = "closing" /\ dumped' = TRUE
    /\ Asks("close", dump_fd, "dump")
    /\ UNCHANGED <<mainVars, threadVars, sharedVars, dumps, dump_fd, held, outputs,
                   requests, console_q, conn, fds>>

\* A program on the ps2 makes a request; it closes files it has open, and may
\* close the -1 a failed open gave it.
ProgramAsks ==
    /\ conn \in Up /\ Room(request_q, requests, MaxRequests)
    /\ requests' = Counted(requests)
    /\ \/ \E op \in {"open", "other", "unknown"} :
            Asks(op, -1, "program") /\ UNCHANGED held
       \/ \E fd \in held \cup {-1} :
            Asks("close", fd, "program") /\ held' = held \ {fd}
    /\ UNCHANGED <<mainVars, threadVars, sharedVars, dumpVars, outputs, console_q,
                   conn, fds>>

\* The ps2 is reset or reboots: its end of the connection is closed.
Ps2Closes ==
    /\ conn \in Up
    /\ conn' = "closed"
    /\ UNCHANGED <<mainVars, threadVars, sharedVars, ps2Vars, console_q, request_q,
                   fds>>

\* A header whose length is out of range: what follows cannot be understood.
Ps2Garbles ==
    /\ conn \in Up
    /\ conn' = "garbled"
    /\ Asks("bad", -1, "program")
    /\ UNCHANGED <<mainVars, threadVars, sharedVars, ps2Vars, console_q, fds>>

Environment == /\ Running
               /\ \/ ConsoleArrives \/ DumpStarts \/ DumpEnds \/ ProgramAsks
                  \/ Ps2Closes \/ Ps2Garbles

\* A tick of time_ms(); a local clock runs while its function does.
Tick ==
    /\ Running
    /\ idle' = Older(idle)
    /\ hs' = (IF main \in Handshaking \cup (IF cmd = "ping" THEN Connecting ELSE {})
                THEN Older(hs) ELSE hs)
    /\ since' = (IF main \in Handshaking /\ sends > 0 THEN Older(since) ELSE since)
    /\ snap' = (IF main = "decide" THEN Older(snap) ELSE snap)
    /\ drain' = (IF drain > 0 THEN drain - 1 ELSE 0)
    /\ UNCHANGED <<params, main, status, sends, sockets, cancelled, threadVars, flags,
                   scanVars, ps2Vars, hostVars>>

Exited == main = "exited" /\ UNCHANGED vars

Next == MainStep \/ ConsoleStep \/ RequestStep \/ Environment \/ Tick \/ Exited

Spec == Init /\ [][Next]_vars

\* The host schedules every thread, its file operations end, and time passes;
\* nothing is asked of the ps2 or of the network.
Fairness == /\ WF_vars(MainStep) /\ WF_vars(ConsoleStep) /\ WF_vars(RequestStep)
            /\ WF_vars(Tick)

FairSpec == Spec /\ Fairness
----------------------------------------------------------------------------
(* Properties.                                                             *)

MainPC == Connecting \cup Handshaking \cup {"command"} \cup Looping \cup Leaving
TypeMain == /\ cmd \in Commands /\ timeout \in Timeouts \cup {0}
            /\ main \in MainPC /\ status \in 0..255
TypeFlags ==
    /\ console_socket \in BOOLEAN /\ request_socket \in BOOLEAN /\ command_socket \in BOOLEAN
    /\ marker \in BOOLEAN /\ cancelled \in BOOLEAN /\ dumped \in BOOLEAN
    /\ lost \in BOOLEAN /\ ping_answered \in BOOLEAN /\ marker_seen \in BOOLEAN
TypeClocks ==
    /\ hs \in 0..Horizon /\ since \in 0..Horizon /\ snap \in 0..Horizon /\ idle \in 0..Horizon
    /\ drain \in 0..Drain /\ sends \in Nat
TypeThreads ==
    /\ con \in {"none", "top", "wait", "scan", "stamp", "dead"} /\ packet \in Packets
    /\ req \in {"none", "top", "wait", "serve", "reply", "stamp", "break", "dead"}
    /\ request \in Requests /\ ping_fd \in Fds \cup {-1}
TypeScan == marker_status \in Int /\ line \in Lines /\ scanned \in Seq(Packets)
TypeHost ==
    /\ console_q \in Seq(Packets) /\ request_q \in Seq(Requests)
    /\ conn \in {"none", "up", "unread", "closed", "garbled"} /\ fds \subseteq Fds
TypePs2 ==
    /\ dumps \in Nat /\ dump \in {"idle", "opening", "opened", "closing"}
    /\ dump_fd \in Fds \cup {-1} /\ held \subseteq Fds
    /\ outputs \in 0..MaxOutputs /\ requests \in 0..MaxRequests

\* The type invariant: every variable of ps2link.c and of main keeps to its values; what
\* main returns is a status the system can pass on whole, whatever number a program told.
TypeOK == TypeMain /\ TypeFlags /\ TypeClocks /\ TypeThreads /\ TypeScan /\ TypeHost /\ TypePs2

\* ps2link_handshake: a command that needs host: files is sent, and the ping
\* command reports success, only after ps2link completed a register dump on
\* this connection.
CommandAfterDump ==
    /\ WantsRequest /\ main \in {"command"} \cup Looping => dumped
    /\ cmd = "ping" /\ main \in Leaving /\ status = EXIT_OK => dumped

\* ps2link_handshake: "repeat the command ... but slowly": a handshake sends at
\* most one dumpreg for every Resend ticks of its limit, begun ones included.
NoFlood == sends > 0 => (sends - 1) * Resend < Limit

\* ps2link_lost is only set when ps2link closed the connection or sent what is
\* not a request, or the data of a write was not read for want of memory; the
\* exit status CONNLOST is not told otherwise.
LostIsReal ==
    /\ lost => conn \in {"closed", "garbled", "unread"}
    /\ status = EXIT_CONNLOST /\ ~marker_seen => lost

\* Reference definitions over the whole console stream so far: its first marker,
\* and the first status after it on the same line.
MarkerAt(s) == {i \in DOMAIN s : HasMarker(s[i]) /\ \A j \in 1..(i - 1) : ~HasMarker(s[j])}
SameLine(s, i, k) == \A j \in i..(k - 1) : ~s[j].nl
StatusAfter(s, i) ==
    LET told == {k \in i..Len(s) : HasStatus(s[k]) /\ SameLine(s, i, k)}
    IN  IF told = {} THEN 0 ELSE s[CHOOSE k \in told : \A j \in told : k <= j].n

\* ps2link_mainloop: whatever the packets the stream came in and whenever the
\* threads ran, the main loop's status is that of the first marker in the
\* stream scanned when it decides, and without a marker it is CONNLOST,
\* TIMEOUT (-e given) or OK.
ExitTellsTheStory ==
    [][(main \in {"look", "idle_out", "drain"} /\ main' = "disconnect") =>
         IF marker /\ MarkerAt(scanned) # {}
           THEN \E i \in MarkerAt(scanned) : status' = StatusAfter(scanned, i) % 256
           ELSE status' = (IF lost /\ main = "drain" THEN EXIT_CONNLOST
                           ELSE IF marker THEN EXIT_TIMEOUT ELSE EXIT_OK)]_vars

\* README.md, EXIT STATUS: the program exits with one of the statuses it lists.
StatusIsListed ==
    main = "exited" =>
      status \in {EXIT_OK, EXIT_NOCONNECT, EXIT_CONNLOST, EXIT_PORTBUSY, EXIT_TIMEOUT}
                   \cup {ExitByte(n) : n \in Statuses}

\* The request thread tells the main loop: once the request connection is gone, or
\* brought what is no request, the program exits, whatever it was doing and whatever
\* -t says.
LossEndsRun == (req = "break" \/ (req # "none" /\ conn = "closed")) ~> (main = "exited")

\* The main loop sees the marker: once a marker line is scanned the program exits.
MarkerEndsRun == marker_seen ~> (main = "exited")

\* The commands that do not wait (their -t is 0), any with -t 0, and ping end by
\* themselves, however much ps2link sends meanwhile.
TimeoutEndsRun == (timeout = 0 \/ cmd = "ping") ~> (main = "exited")

\* The usage text: "exit after <timeout> seconds without console output or requests":
\* with -t the program exits, unless datagrams or requests come in again and again.
SilenceEndsRun ==
    timeout > 0 /\ <>[][~(ConsoleArrives \/ ProgramAsks)]_vars => <>(main = "exited")
=============================================================================
