---------------------------- MODULE MCPs2Client ----------------------------
(* The session on small instances.  What ps2link sends is bounded command  *)
(* by command: what one of them is checked for does not need what another  *)
(* is checked for.  Only steps of the environment and of time are left out.*)
EXTENDS Ps2Client

\* -t not given, -t 0 and -t 1 (the config syntax has no negative numbers)
AllTimeouts == {-1, 0, 1}
WaitingTimeouts == {-1, 1}

\* The handshake: a command and ping, with requests and all the time there is.
\* The console: listen and console, with datagrams, -e and -t.
Handshakers == {"execee", "ping"}

SessionInit == /\ Init
               /\ cmd \in Handshakers => ~marker /\ timeout = 0
               /\ cmd \notin Handshakers => timeout # 0

\* Both requests for ping, whose handshake is that of all others; for execee one, and
\* no datagrams; for the rest none but the handshake's, and a handshake that takes no
\* time.
SessionFew == /\ cmd = "execee" => requests' <= 1 /\ outputs' = 0
              /\ cmd \notin Handshakers => requests' = 0 /\ hs' = 0

SessionSpec == SessionInit /\ [][Next /\ SessionFew]_vars

\* What ends the program: the marker when there is no -t, and the rest without -e.
LiveInit == /\ Init
            /\ marker => cmd \in {"listen", "console"} /\ timeout = -1
            /\ cmd = "console" /\ ~marker => timeout = 1

\* Of the programs' requests only those that touch no descriptor.
LiveFew == /\ marker => requests' = 0
           /\ cmd = "listen" /\ ~marker => console_q' = <<>>
           /\ \A i \in DOMAIN request_q' :
                request_q'[i].by = "program" => request_q'[i].op \in {"other", "bad", "data"}

LiveSpec == LiveInit /\ [][Next /\ LiveFew]_vars /\ Fairness
=============================================================================
