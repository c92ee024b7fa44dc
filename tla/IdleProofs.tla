----------------------------- MODULE IdleProofs -----------------------------
(***************************************************************************)
(* The idle timeout under ideal scheduling, for every timeout, number of   *)
(* datagrams and requests, and every command: what the main loop compares  *)
(* with the timeout is never older than the last thing that arrived.       *)
(***************************************************************************)
EXTENDS MCIdle, Ps2ClientProofs

\* Nothing that has arrived waits for a thread.
ConClear == con = "none" \/ (con \in {"top", "wait"} /\ console_q = <<>>)
ReqClear == req = "none" \/ (req \in {"top", "wait"} /\ request_q = <<>>)

\* While main is in its loop the threads it has started are there, unless the
\* loss of the connection is told; a thread that was not started has no input.
StartedInv ==
    /\ cancelled => main \in Leaving
    /\ main \in {"close", "return"} => cancelled
    /\ main \in Connecting => con = "none" /\ req = "none"
    /\ con \notin {"none", "dead"} => console_socket \/ cancelled
    /\ req \notin {"none", "dead"} => request_socket \/ cancelled
    /\ con = "dead" => cancelled
    /\ req = "dead" => cancelled \/ lost
    /\ main \notin Connecting \cup Leaving /\ con = "none" => ~console_socket
    /\ main \notin Connecting \cup Leaving /\ req = "none" => ~request_socket
    /\ main \notin Leaving /\ ~request_socket => conn = "none"

\* The age of the activity against that of the last arrival.
IdleInv ==
    /\ quiet \in 0..Horizon
    /\ main \in {"look", "decide"} /\ ConClear /\ ReqClear => idle <= quiet
    /\ main = "decide" => snap <= quiet
    /\ IdleOnlyWhenQuiet
----------------------------------------------------------------------------
USE DEF mainVars, params, clocks, sockets, threadVars, conVars, reqVars, sharedVars, flags,
        scanVars, ps2Vars, dumpVars, hostVars

\* No thread is there at first.
LEMMA StartedInit == Init => StartedInv
BY DEF Init, StartedInv, Connecting

\* Threads are only cancelled when main leaves.
LEMMA StartedStep == StartedInv /\ [Next]_vars => StartedInv'
<1> SUFFICES ASSUME StartedInv, [Next]_vars PROVE StartedInv'
  OBVIOUS
<1> USE DEF StartedInv, Connecting, Leaving
<1>1. CASE ConnectConsole
  BY <1>1 DEF ConnectConsole, ReturnEarly
<1>2. CASE ConnectRequest
  BY <1>2 DEF ConnectRequest, ReturnEarly
<1>3. CASE ConnectCommand
  BY <1>3 DEF ConnectCommand, ReturnEarly
<1>4. CASE StartThreads
  BY <1>4 DEF StartThreads
<1>5. CASE HandshakePoll \/ HandshakeCheck \/ SendCommand \/ EnterMainloop \/ Look \/ Decide
           \/ IdleOut \/ DrainOut
  BY <1>5 DEF HandshakePoll, HandshakeCheck, SendCommand, EnterMainloop, Look, Decide, IdleOut,
              DrainOut
<1>6. CASE DisconnectCancel \/ DisconnectClose \/ Return
  BY <1>6 DEF DisconnectCancel, DisconnectClose, Return
<1>7. CASE ReceiveConsole \/ ReceiveConsoleFails \/ ScanConsole \/ StampConsole \/ CancelConsole
  BY <1>7 DEF ReceiveConsole, ReceiveConsoleFails, ScanConsole, StampConsole, CancelConsole
<1>8. CASE ReceiveRequest \/ ReceiveFails \/ ReceiveUnread \/ PerformOpen \/ PerformClose
           \/ PerformOther \/ WriteWithoutMemory \/ Respond \/ StampRequest \/ SetLost
           \/ CancelRequest
  BY <1>8 DEF ReceiveRequest, ReceiveFails, ReceiveUnread, PerformOpen, PerformClose,
              PerformOther, WriteWithoutMemory, Respond, StampRequest, SetLost, CancelRequest
<1>10. CASE WaitConsole
  BY <1>10 DEF WaitConsole, WaitsOnClosed
<1>11. CASE WaitRequest
  BY <1>11 DEF WaitRequest, WaitsOnClosed
<1>9. CASE ConsoleArrives \/ DumpStarts \/ DumpEnds \/ ProgramAsks \/ Ps2Closes \/ Ps2Garbles
           \/ Tick \/ UNCHANGED vars
  BY <1>9 DEF ConsoleArrives, DumpStarts, DumpEnds, ProgramAsks, Ps2Closes, Ps2Garbles, Tick, vars,
              Up
<1> QED
  BY NextSplit, <1>1, <1>2, <1>3, <1>4, <1>5, <1>6, <1>7, <1>8, <1>9, <1>10, <1>11

\* Ideal scheduling is a way of scheduling.
LEMMA IdealIsReal == [IdealNext]_<<vars, quiet>> => [Next]_vars
BY DEF IdealNext, Next

LEMMA Ages ==
    ASSUME NEW a \in 0..Horizon, NEW b \in 0..Horizon
    PROVE  /\ Older(a) \in 0..Horizon
           /\ a <= b => Older(a) <= Older(b)
BY ConstantsAssumption DEF Older

\* The steps of the threads: what has arrived stays young until it is stamped.
LEMMA ThreadsIdle ==
    ASSUME TypeOK, IdleInv, ConsoleStep \/ RequestStep, UNCHANGED quiet
    PROVE  IdleInv'
<1>1. UNCHANGED <<timeout, snap>> /\ (main' = main \/ main' = "exited")
  BY DEF ConsoleStep, RequestStep, WaitConsole, WaitRequest, WaitsOnClosed, ReceiveConsole,
     ReceiveConsoleFails, ScanConsole, StampConsole, CancelConsole, ReceiveRequest,
     ReceiveFails, ReceiveUnread, PerformOpen, PerformClose, PerformOther, WriteWithoutMemory,
     Respond, StampRequest, SetLost, CancelRequest
<1>2. \/ idle' = 0
      \/ idle' = idle /\ (ConClear' /\ ReqClear' => ConClear /\ ReqClear)
  <2>1. CASE StampConsole \/ StampRequest
    BY <2>1 DEF StampConsole, StampRequest
  <2>2. CASE ReceiveConsole \/ ScanConsole \/ CancelConsole
    <3>1. idle' = idle /\ ~ConClear'
      BY <2>2 DEF ReceiveConsole, ScanConsole, CancelConsole, ConClear
    <3> QED
      BY <3>1
  <2>3. CASE WaitConsole \/ WaitRequest \/ ReceiveConsoleFails
    <3>1. idle' = idle /\ (ConClear' => ConClear) /\ (ReqClear' => ReqClear)
      BY <2>3 DEF WaitConsole, WaitRequest, ReceiveConsoleFails, ConClear, ReqClear
    <3> QED
      BY <3>1
  <2>4. CASE ReceiveRequest \/ ReceiveFails \/ ReceiveUnread \/ PerformOpen \/ PerformClose
             \/ PerformOther \/ WriteWithoutMemory \/ Respond \/ SetLost \/ CancelRequest
    <3>1. idle' = idle /\ ~ReqClear'
      BY <2>4 DEF ReceiveRequest, ReceiveFails, ReceiveUnread, PerformOpen, PerformClose,
         PerformOther, WriteWithoutMemory, Respond, SetLost, CancelRequest, ReqClear
    <3> QED
      BY <3>1
  <2> QED
    BY <2>1, <2>2, <2>3, <2>4 DEF ConsoleStep, RequestStep
<1>3. quiet \in Nat /\ quiet' = quiet
  BY ConstantsAssumption DEF IdleInv
<1> QED
  BY <1>1, <1>2, <1>3 DEF IdleInv, IdleOnlyWhenQuiet

\* The steps of main: it looks when nothing waits, and decides on what it saw.
LEMMA MainIdle ==
    ASSUME SlowHandlers = FALSE, TypeOK, StartedInv, IdleInv, ThreadSettled, MainStep,
           quiet' = (IF main = "mainloop" THEN 0 ELSE quiet)
    PROVE  IdleInv'
<1>1. quiet \in 0..Horizon /\ quiet' \in 0..Horizon /\ idle \in 0..Horizon /\ snap \in 0..Horizon
      /\ timeout \in Int
  BY ConstantsAssumption DEF IdleInv, TypeOK, TypeClocks, TypeMain
<1>2. CASE main \notin {"mainloop", "look", "decide"}
  <2>1. main' \notin {"look", "decide", "idle_out"}
    BY <1>2 DEF MainStep, ConnectConsole, ConnectRequest, ConnectCommand, StartThreads,
       HandshakePoll, HandshakeCheck, SendCommand, EnterMainloop, Look, Decide, IdleOut,
       DrainOut, DisconnectCancel, DisconnectClose, Return, ReturnEarly
  <2> QED
    BY <1>1, <2>1 DEF IdleInv, IdleOnlyWhenQuiet
<1>3. CASE main = "mainloop"
  <2>1. EnterMainloop
    BY <1>3 DEF MainStep, ConnectConsole, ConnectRequest, ConnectCommand, StartThreads,
       HandshakePoll, HandshakeCheck, SendCommand, Look, Decide, IdleOut,
       DrainOut, DisconnectCancel, DisconnectClose, Return
  <2>2. main' \notin {"decide", "idle_out"} /\ (main' = "look" => idle' = 0) /\ quiet' = 0
    BY <1>3, <2>1 DEF EnterMainloop
  <2> QED
    BY <1>1, <2>2 DEF IdleInv, IdleOnlyWhenQuiet
<1>4. CASE main = "look"
  <2>1. Look /\ quiet' = quiet
    BY <1>4 DEF MainStep, ConnectConsole, ConnectRequest, ConnectCommand, StartThreads,
       HandshakePoll, HandshakeCheck, SendCommand, EnterMainloop, Decide, IdleOut,
       DrainOut, DisconnectCancel, DisconnectClose, Return
  <2>2. /\ main' \in {"disconnect", "drain", "decide"} /\ idle' = idle
        /\ main' = "decide" => ~lost /\ snap' = idle
    BY <2>1 DEF Look
  <2>3. ~lost => ConClear /\ ReqClear
    <3>1. ~cancelled
      BY <1>4 DEF StartedInv, Leaving
    <3> QED
      BY <3>1 DEF StartedInv, ThreadSettled, ConClear, ReqClear
  <2>4. ~lost => idle <= quiet
    BY <1>4, <2>3 DEF IdleInv
  <2> QED
    BY <1>1, <2>1, <2>2, <2>4 DEF IdleInv, IdleOnlyWhenQuiet
<1>5. CASE main = "decide"
  <2>1. Decide /\ quiet' = quiet
    BY <1>5 DEF MainStep, ConnectConsole, ConnectRequest, ConnectCommand, StartThreads,
       HandshakePoll, HandshakeCheck, SendCommand, EnterMainloop, Look, IdleOut,
       DrainOut, DisconnectCancel, DisconnectClose, Return
  <2>2. /\ main' = (IF timeout > 0 /\ snap >= timeout THEN "idle_out" ELSE "look")
        /\ UNCHANGED <<idle, timeout, con, req, console_q, request_q>>
    BY <2>1 DEF Decide
  <2>3. ConClear' = ConClear /\ ReqClear' = ReqClear
    BY <2>2 DEF ConClear, ReqClear
  <2>4. snap <= quiet /\ (ConClear /\ ReqClear => idle <= quiet)
    BY <1>5 DEF IdleInv
  <2>5. main' = "idle_out" => quiet >= timeout
    BY <1>1, <2>2, <2>4
  <2>6. main' \in {"look", "idle_out"}
    BY <2>2
  <2> QED
    BY <1>1, <2>1, <2>2, <2>3, <2>4, <2>5, <2>6 DEF IdleInv, IdleOnlyWhenQuiet
<1> QED
  BY <1>2, <1>3, <1>4, <1>5

\* What arrives is new, and its thread is there to take it.
LEMMA ArrivalsIdle ==
    ASSUME TypeOK, StartedInv, IdleInv, main \notin {"decide", "idle_out"}, Environment,
           quiet' = (IF <<console_q, request_q>>' # <<console_q, request_q>> THEN 0 ELSE quiet)
    PROVE  IdleInv'
<1>1. UNCHANGED <<main, timeout, con, req, idle>>
  BY DEF Environment, ConsoleArrives, DumpStarts, DumpEnds, ProgramAsks, Ps2Closes, Ps2Garbles
<1>2. quiet' \in 0..Horizon
  BY ConstantsAssumption DEF IdleInv
<1>3. main = "look" => console_q' = console_q \/ ~ConClear'
  <2> HAVE main = "look"
  <2>1. CASE ConsoleArrives
    <3>1. con # "none"
      BY <2>1 DEF ConsoleArrives, StartedInv, Connecting, Leaving
    <3>2. console_q' # <<>>
      BY <2>1 DEF ConsoleArrives, TypeOK, TypeHost
    <3> QED
      BY <1>1, <3>1, <3>2 DEF ConClear
  <2>2. CASE ~ConsoleArrives
    BY <2>2 DEF Environment, DumpStarts, DumpEnds, ProgramAsks, Ps2Closes, Ps2Garbles
  <2> QED
    BY <2>1, <2>2
<1>4. main = "look" => request_q' = request_q \/ ~ReqClear'
  <2> HAVE main = "look"
  <2>1. CASE DumpStarts \/ DumpEnds \/ ProgramAsks \/ Ps2Garbles
    <3>1. req # "none"
      BY <2>1 DEF DumpStarts, DumpEnds, ProgramAsks, Ps2Garbles, StartedInv, Connecting, Leaving,
         Up
    <3>2. PICK r : request_q' = Append(request_q, r)
      BY <2>1 DEF DumpStarts, DumpEnds, ProgramAsks, Ps2Garbles, Asks
    <3>3. request_q' # <<>>
      BY <3>2 DEF TypeOK, TypeHost
    <3> QED
      BY <1>1, <3>1, <3>3 DEF ReqClear
  <2>2. CASE ConsoleArrives \/ Ps2Closes
    BY <2>2 DEF ConsoleArrives, Ps2Closes
  <2> QED
    BY <2>1, <2>2 DEF Environment
<1>5. ASSUME main = "look", ConClear', ReqClear' PROVE idle <= quiet'
  <2>1. console_q' = console_q /\ request_q' = request_q
    BY <1>3, <1>4, <1>5
  <2>2. ConClear /\ ReqClear /\ quiet' = quiet
    BY <1>1, <1>5, <2>1 DEF ConClear, ReqClear
  <2> QED
    BY <1>5, <2>2 DEF IdleInv
<1> QED
  BY <1>1, <1>2, <1>5 DEF IdleInv, IdleOnlyWhenQuiet

\* Both ages grow together.
LEMMA TickIdle ==
    ASSUME TypeOK, IdleInv, main \notin {"decide", "idle_out"}, Tick, quiet' = Older(quiet)
    PROVE  IdleInv'
<1>1. UNCHANGED <<main, con, req, console_q, request_q>> /\ idle' = Older(idle)
  BY DEF Tick
<1>2. ConClear' = ConClear /\ ReqClear' = ReqClear
  BY <1>1 DEF ConClear, ReqClear
<1>3. quiet \in 0..Horizon /\ idle \in 0..Horizon
  BY DEF IdleInv, TypeOK, TypeClocks
<1>4. quiet' \in 0..Horizon /\ (idle <= quiet => idle' <= quiet')
  BY <1>1, <1>3, Ages
<1> QED
  BY <1>1, <1>2, <1>4 DEF IdleInv, IdleOnlyWhenQuiet

\* ps2link_mainloop and ps2link_set_activity: when the threads are prompt, the main loop gives
\* up only after the time of -t without a datagram or a request, for every timeout and any
\* number of both.  That serving a request takes no time is needed (SlowHandlers): the activity
\* is stamped when a request has been served.
THEOREM GivesUpWhenQuiet ==
    ASSUME SlowHandlers = FALSE
    PROVE  IdealSpec => []IdleOnlyWhenQuiet
<1>1. IdealInit => Init /\ IdleInv
  BY ConstantsAssumption DEF IdealInit, Init, IdleInv, IdleOnlyWhenQuiet
<1>2. TypeOK /\ StartedInv /\ IdleInv /\ [IdealNext]_<<vars, quiet>> => IdleInv'
  <2> SUFFICES ASSUME TypeOK, StartedInv, IdleInv, [IdealNext]_<<vars, quiet>> PROVE IdleInv'
    OBVIOUS
  <2>1. CASE UNCHANGED <<vars, quiet>>
    BY <2>1 DEF vars, IdleInv, IdleOnlyWhenQuiet, ConClear, ReqClear
  <2>2. CASE IdealNext /\ ~UNCHANGED <<vars, quiet>>
    BY <2>2, ThreadsIdle, MainIdle, ArrivalsIdle, TickIdle DEF IdealNext, Exited
  <2> QED
    BY <2>1, <2>2
<1>3. IdleInv => IdleOnlyWhenQuiet
  BY DEF IdleInv
<1>4. IdealSpec => Spec
  BY <1>1, IdealIsReal, PTL DEF IdealSpec, Spec
<1> QED
  BY <1>1, <1>2, <1>3, <1>4, StartedInit, StartedStep, TypeCorrect, PTL DEF IdealSpec, Spec
=============================================================================
