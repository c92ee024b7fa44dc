----------------------------- MODULE Resetcheck -----------------------------
(***************************************************************************)
(* resetcheck (src/resetcheck.c), from the command line to the exit        *)
(* status: a ping, one RESET, then pings until the round trip was lost and *)
(* came back or the time is over.  Every ping and the RESET is a process   *)
(* of its own, "ps2client -t 1 ...".  A ping ends within its second        *)
(* (Ps2Client shows that it ends); the ps2, the network and the host's     *)
(* processes are the environment.                                          *)
(*                                                                         *)
(* Time is in ticks.  The program itself takes none; its sleeps and its    *)
(* children do.                                                            *)
(***************************************************************************)
EXTENDS CommandLine

CONSTANTS
    CommandLines,   \* the command lines there may be
    Second,         \* ticks in a second
    Pause,          \* ticks in sleep_ms(150)
    DefaultTimeout  \* the 10 seconds without -t, in seconds

ASSUME ResetcheckAssumption ==
    /\ CommandLines \subseteq Seq(DOMAIN Words)
    /\ Second \in Nat \ {0} /\ Pause \in 1..Second /\ DefaultTimeout \in 1..120

EXIT_OK == 0
EXIT_USAGE == 64
EXIT_NOCONNECT == 69
EXIT_TIMEOUT == 124

VARIABLES
    argv,                    \* the command line; forgotten once it has been read
    command, timeout,        \* what it asks for
    at, status, saw_outage,  \* ps2client_resetcheck
    ttl, age,                \* deadline - time_ms(); age of the child or of the sleep
    ps2, disturbed,          \* is the round trip there; has it been away during this ping
    reset,                   \* the RESET is on its way
    resets, answered,        \* history: RESETs sent, a ping was answered
    fault,                   \* history: a ping failed, or the round trip, for another reason
    reboot, away, back       \* history: the reboot, how long it took, what was left of the time

vars == <<argv, command, timeout, at, status, saw_outage, ttl, age, ps2, disturbed, reset, resets, answered, fault,
          reboot, away, back>>
line == <<argv, command, timeout>>
world == <<ps2, reset, reboot, away, back>>

TimeoutOf(t) == IF t < 0 THEN DefaultTimeout ELSE t
Pinging == at \in {"preflight", "ping"}
Longest == Second * 120

Init ==
    /\ argv \in CommandLines /\ command = "none" /\ timeout = 0
    /\ at = "main" /\ status = EXIT_OK /\ saw_outage = FALSE
    /\ ttl = 0 /\ age = 0
    /\ ps2 \in {"up", "down"} /\ disturbed = FALSE /\ reset = FALSE
    /\ resets = 0 /\ answered = FALSE /\ fault = FALSE
    /\ reboot = "none" /\ away = 0 /\ back = 0
----------------------------------------------------------------------------
(* resetcheck.                                                             *)

Exit(code) == at' = "exit" /\ status' = code
StartPing(label) == at' = label /\ age' = 0 /\ disturbed' = (ps2 = "down")

\* main; the other commands are Ps2Client's.
Main ==
    /\ at = "main"
    /\ command' = CommandOf(argv) /\ timeout' = TimeoutOf(ParseOptions(argv).timeout)
    /\ argv' = <<>>
    /\ \/ /\ command' = "usage" \/ (command' = "resetcheck" /\ timeout' \notin 1..120)
          /\ Exit(EXIT_USAGE) /\ UNCHANGED <<age, disturbed>>
       \/ /\ command' = "resetcheck" /\ timeout' \in 1..120
          /\ StartPing("preflight") /\ UNCHANGED status
       \/ /\ command' \notin {"usage", "resetcheck"}
          /\ at' = "session" /\ UNCHANGED <<status, age, disturbed>>
    /\ UNCHANGED <<saw_outage, ttl, resets, answered, fault, world>>

\* A child's exit status is 0 when the ping was answered.
PingAnswered == /\ ps2 = "up" /\ answered' = TRUE /\ UNCHANGED fault

\* It is not answered while the round trip is away, also for a moment; or a
\* datagram is lost, or there is no child to begin with (fork, exec).
PingFails ==
    /\ \/ disturbed /\ UNCHANGED fault
       \/ age \in {0, Second} /\ fault' = TRUE
    /\ UNCHANGED answered

\* Mutant: RESET is sent whatever the ping said.
AfterPreflightAnyway(ok) == at' = "reset" /\ UNCHANGED status
AfterPreflight(ok) ==
    IF ok THEN at' = "reset" /\ UNCHANGED status ELSE Exit(EXIT_NOCONNECT)

Preflight ==
    /\ at = "preflight"
    /\ \/ PingAnswered /\ AfterPreflight(TRUE)
       \/ PingFails /\ AfterPreflight(FALSE)
    /\ UNCHANGED <<line, saw_outage, ttl, age, disturbed, resets, world>>

\* The child that sends RESET, which may go wrong before the send or after it.
Reset ==
    /\ at = "reset"
    /\ \/ /\ resets' = resets + 1 /\ reset' = TRUE
          /\ at' = "loop" /\ ttl' = timeout * Second
          /\ UNCHANGED status
       \/ /\ Exit(EXIT_NOCONNECT)
          /\ \E n \in {0, 1} : resets' = resets + n /\ reset' = (n = 1)
          /\ UNCHANGED ttl
    /\ UNCHANGED <<line, saw_outage, age, ps2, disturbed, answered, fault, reboot, away, back>>

\* Mutant: the deadline moves with the loop.
LoopForever ==
    /\ at = "loop"
    /\ ttl' = timeout * Second /\ StartPing("ping") /\ UNCHANGED status
    /\ UNCHANGED <<line, saw_outage, resets, answered, fault, world>>
Loop ==
    /\ at = "loop"
    /\ IF ttl > 0 THEN StartPing("ping") /\ UNCHANGED status
       ELSE Exit(EXIT_TIMEOUT) /\ UNCHANGED <<age, disturbed>>
    /\ UNCHANGED <<line, saw_outage, ttl, resets, answered, fault, world>>

\* Mutant: an answered ping is enough.
RecoveredAtOnce == TRUE
Recovered == saw_outage

\* The rest of the loop's body.
PauseOrNot == at' = (IF ttl > 0 THEN "sleep" ELSE "loop") /\ age' = 0 /\ UNCHANGED status

Pinged ==
    /\ at = "ping"
    /\ \/ /\ PingAnswered /\ UNCHANGED saw_outage
          /\ IF Recovered THEN Exit(EXIT_OK) /\ UNCHANGED age ELSE PauseOrNot
       \/ PingFails /\ saw_outage' = TRUE /\ PauseOrNot
    /\ UNCHANGED <<line, ttl, disturbed, resets, world>>

\* Mutant: the loop sleeps for two seconds.
PauseLong == Second + Second
PauseTicks == Pause

Wake ==
    /\ at = "sleep" /\ age = PauseTicks
    /\ at' = "loop" /\ age' = 0
    /\ UNCHANGED <<line, status, saw_outage, ttl, disturbed, resets, answered, fault, world>>

Program == Main \/ Preflight \/ Reset \/ Loop \/ Pinged \/ Wake
----------------------------------------------------------------------------
(* The ps2, the network, time (external).                                  *)

\* Before and after, what the ps2 does matters to nobody.
Watched == at \notin {"main", "exit", "session"}

program == <<line, at, status, saw_outage, ttl, age, resets, answered>>

\* RESET arrives and the ps2 restarts, or it is lost or not obeyed.
Reboots ==
    /\ Watched /\ reset /\ reset' = FALSE
    /\ \/ /\ ps2 = "up" /\ ps2' = "down" /\ disturbed' = TRUE
          /\ reboot' = "down" /\ away' = 0
       \/ UNCHANGED <<ps2, disturbed, reboot, away>>
    /\ UNCHANGED <<program, fault, back>>

ComesUp ==
    /\ Watched /\ ps2 = "down" /\ ps2' = "up"
    /\ IF reboot = "down" THEN reboot' = "back" /\ back' = ttl ELSE UNCHANGED <<reboot, back>>
    /\ UNCHANGED <<program, disturbed, reset, fault, away>>

\* The network goes away, or the ps2 by itself: nothing resetcheck could tell apart.
GoesAway ==
    /\ Watched /\ ps2 = "up" /\ ps2' = "down"
    /\ disturbed' = TRUE /\ fault' = TRUE
    /\ UNCHANGED <<program, reset, reboot, away, back>>

\* A child's second and a sleep end in time.
Tick ==
    /\ (Pinging /\ age < Second) \/ (at = "sleep" /\ age < PauseTicks)
    /\ age' = age + 1
    /\ ttl' = (IF at = "preflight" THEN 0 ELSE ttl - 1)
    /\ away' = (IF reboot = "down" THEN away + 1 ELSE away)
    /\ UNCHANGED <<line, at, status, saw_outage, ps2, disturbed, reset, resets, answered, fault,
                   reboot, back>>

Done == at \in {"exit", "session"} /\ UNCHANGED vars

Next == Program \/ Reboots \/ ComesUp \/ GoesAway \/ Tick \/ Done

Spec == Init /\ [][Next]_vars

\* The program and its children run, and time passes.
FairSpec == Spec /\ WF_vars(Program) /\ WF_vars(Tick)
----------------------------------------------------------------------------
(* Properties.                                                             *)

\* The type invariant: among others, the time left never falls below one ping.
TypeOK ==
    /\ argv \in Seq(DOMAIN Words)
    /\ command \in DOMAIN Args \cup {"none", "usage"} /\ timeout \in Nat
    /\ at \in {"main", "preflight", "reset", "loop", "ping", "sleep", "exit", "session"}
    /\ status \in {EXIT_OK, EXIT_USAGE, EXIT_NOCONNECT, EXIT_TIMEOUT} /\ saw_outage \in BOOLEAN
    /\ ttl \in -Second..Longest /\ age \in 0..(IF at = "sleep" THEN Pause ELSE Second)
    /\ ps2 \in {"up", "down"} /\ disturbed \in BOOLEAN /\ reset \in BOOLEAN
    /\ resets \in {0, 1} /\ answered \in BOOLEAN /\ fault \in BOOLEAN
    /\ reboot \in {"none", "down", "back"} /\ away \in 0..(Longest + Second) /\ back \in Int

\* main and fix_argv: the command line is read as the usage text says, and the two
\* places that limit a program's arguments agree.
LineIsRead == at = "main" => OptionsAreRight(argv) /\ LengthsAgree(argv)

\* README.md, "it sends no reset": RESET is sent at most once, only by a resetcheck
\* that was asked for properly, and only after a ping was answered.
ResetIsEarned ==
    /\ resets <= 1
    /\ resets = 1 => answered /\ command = "resetcheck" /\ status # EXIT_USAGE

\* "a loss and subsequent recovery of the host: round trip": when nothing but the
\* RESET disturbed the round trip, exit status 0 means that the ps2 restarted.
SuccessIsReal ==
    at = "exit" /\ status = EXIT_OK /\ ~fault => reboot = "back" /\ resets = 1

\* "A very quick reboot can be missed", and one that ends too late; every other
\* one is seen: away for longer than a pause and a ping, and back with a pause
\* and a ping to go.
RebootIsSeen ==
    at = "exit" /\ status = EXIT_TIMEOUT /\ ~fault /\ reboot = "back" =>
      away <= Pause + Second \/ back <= Pause + Second

\* resetcheck always ends: with the deadline, at the latest.
Ends == at = "main" ~> at \in {"exit", "session"}
=============================================================================
