------------------------------- MODULE MCIdle -------------------------------
(***************************************************************************)
(* The idle timeout under ideal scheduling: the threads deal with what has *)
(* arrived before the main thread looks, and before time passes.  What     *)
(* remains is how long a host: request takes to serve, which depends on    *)
(* the file system and, for a write, on the ps2 sending the data.          *)
(***************************************************************************)
EXTENDS Ps2Client

CONSTANT SlowHandlers   \* TRUE: serving a request may take time

VARIABLE quiet          \* history: age of the last datagram or request to arrive

ThreadSettled ==
    /\ con \in {"none", "dead"} \/ (con = "wait" /\ console_q = <<>>)
    /\ \/ req \in {"none", "dead"}
       \/ req = "wait" /\ request_q = <<>> /\ conn # "closed"
       \/ SlowHandlers /\ req = "serve"

IdealInit == Init /\ quiet = 0

IdealNext ==
    \/ (ConsoleStep \/ RequestStep) /\ UNCHANGED quiet
    \/ /\ ThreadSettled
       /\ MainStep
       /\ quiet' = (IF main = "mainloop" THEN 0 ELSE quiet)
    \/ /\ ThreadSettled /\ main \notin {"decide", "idle_out"}
       /\ Environment
       /\ quiet' = (IF <<console_q, request_q>>' # <<console_q, request_q>> THEN 0 ELSE quiet)
    \/ /\ ThreadSettled /\ main \notin {"decide", "idle_out"}
       /\ Tick
       /\ quiet' = Older(quiet)
    \/ Exited /\ UNCHANGED quiet

IdealSpec == IdealInit /\ [][IdealNext]_<<vars, quiet>>

\* print_usage and the comment on ps2link_activity: the main loop only gives up
\* after <timeout> without console output or requests.
IdleOnlyWhenQuiet == main = "idle_out" => quiet >= timeout
=============================================================================
