------------------------- MODULE ResetcheckProofs -------------------------
(***************************************************************************)
(* What resetcheck promises, for every command line, timeout, length of a  *)
(* second and of a pause.                                                  *)
(***************************************************************************)
EXTENDS Resetcheck, CommandLineProofs

Running == at \in {"preflight", "reset", "loop", "ping", "sleep"}
Waiting == at \in {"loop", "ping", "sleep"}

\* Only a resetcheck that was asked for properly runs.
AskedFor ==
    /\ Running => command = "resetcheck" /\ timeout \in 1..120
    /\ at = "main" \/ Running => status = EXIT_OK

\* Nothing has happened to the ps2 on our account before RESET is sent, once, for a
\* ps2 that had answered.
OneReset ==
    /\ at \in {"main", "preflight", "reset"} => resets = 0 /\ ~saw_outage /\ ttl = 0
    /\ at = "reset" => answered
    /\ Waiting => resets = 1
    /\ resets = 0 => ~reset /\ reboot = "none" /\ away = 0
    /\ resets = 1 => answered /\ command = "resetcheck" /\ status # EXIT_USAGE
    /\ reset => reboot = "none"

\* A ping and a pause begin with time left; the ps2 is not away for longer than that.
Clock ==
    /\ at \in {"ping", "sleep"} => ttl + age >= 1
    /\ away + ttl <= Longest

\* Without another fault, the round trip is away exactly during the reboot.
Cause ==
    /\ reboot = "down" => ps2 = "down"
    /\ ~fault /\ at \in {"reset", "loop", "ping", "sleep"} /\ ps2 = "down" => reboot = "down"
    /\ ~fault /\ at = "ping" /\ disturbed => reboot # "none"
    /\ ~fault /\ saw_outage => reboot # "none"

\* As long as no outage was seen, the ps2 was away for no longer than a pause and what
\* the ping has lasted.
Unseen ==
    ~fault /\ ~saw_outage =>
      /\ reboot = "down" =>
           /\ at = "loop" => away <= Pause
           /\ at = "ping" => away <= Pause + age
           /\ at = "sleep" => away <= age
      /\ reboot = "back" => away <= Pause + Second

\* Once the ps2 is back in time from a long reboot, the time does not run out before
\* the ping that will be answered.
Soon ==
    ~fault /\ reboot = "back" /\ away > Pause + Second /\ back > Pause + Second =>
      /\ at = "loop" => ttl > 0
      /\ at = "sleep" => ttl + age > Pause
      /\ at = "ping" => ~disturbed \/ ttl + age >= back

Inv ==
    /\ TypeOK /\ AskedFor /\ OneReset /\ Clock /\ Cause /\ Unseen /\ Soon
    /\ SuccessIsReal /\ RebootIsSeen
----------------------------------------------------------------------------
(* The proof: one lemma per action.                                        *)

\* The constants, and the longest time there is.
LEMMA Constants ==
    /\ Second \in Nat /\ Second >= 1 /\ Pause \in Nat /\ Pause >= 1 /\ Pause <= Second
    /\ DefaultTimeout \in 1..120 /\ Longest \in Nat
<1>1. Second \in Nat \ {0} /\ Pause \in 1..Second /\ DefaultTimeout \in 1..120
  BY ResetcheckAssumption
<1> QED
  BY <1>1 DEF Longest

LEMMA Deadline ==
    \A t \in 1..120 : t * Second \in Nat /\ t * Second <= Longest /\ t * Second >= 1
<1>1. Second \in Nat /\ Second >= 1
  BY Constants
<1> QED
  BY <1>1 DEF Longest

LEMMA InitInv == Init => Inv
<1> SUFFICES ASSUME Init PROVE Inv
  OBVIOUS
<1>1. argv \in Seq(DOMAIN Words)
  BY ResetcheckAssumption DEF Init
<1> USE Constants DEF Init, EXIT_OK, EXIT_USAGE, EXIT_NOCONNECT, EXIT_TIMEOUT
<1>2. TypeOK
  <2>1. command \in DOMAIN Args \cup {"none", "usage"}
    OBVIOUS
  <2>2. ttl \in -Second..Longest /\ age \in 0..(IF at = "sleep" THEN Pause ELSE Second)
    OBVIOUS
  <2>3. timeout \in Nat /\ resets \in {0, 1} /\ away \in 0..(Longest + Second) /\ back \in Int
    OBVIOUS
  <2> QED
    BY <1>1, <2>1, <2>2, <2>3 DEF TypeOK
<1>3. AskedFor /\ OneReset /\ Cause
  BY DEF AskedFor, OneReset, Cause, Running, Waiting
<1>4. Clock /\ Unseen /\ Soon
  BY DEF Clock, Unseen, Soon
<1>5. SuccessIsReal /\ RebootIsSeen
  BY DEF SuccessIsReal, RebootIsSeen
<1> QED
  BY <1>2, <1>3, <1>4, <1>5 DEF Inv

LEMMA MainKeepsInv == Inv /\ Main => Inv'
<1> SUFFICES ASSUME Inv, Main PROVE Inv'
  OBVIOUS
<1> USE Constants DEF Inv, EXIT_OK, EXIT_USAGE, EXIT_NOCONNECT, EXIT_TIMEOUT
<1>1. at = "main" /\ UNCHANGED <<saw_outage, ttl, resets, answered, fault, ps2, reset, reboot, away, back>>
  BY DEF Main, world
<1>2. command' \in DOMAIN Args \cup {"none", "usage"} /\ argv' \in Seq(DOMAIN Words)
  BY CommandOfType DEF Main
<1>3. timeout' \in Nat
  <2> DEFINE t == ParseOptions(argv).timeout
  <2>1. t \in Int
    BY ParsedTimeout DEF TypeOK
  <2> HIDE DEF t
  <2>2. TimeoutOf(t) \in Nat
    BY <2>1 DEF TimeoutOf
  <2> QED
    BY <2>2 DEF Main, t
<1>4. /\ age' \in {0, age} /\ disturbed' \in {disturbed, TRUE, FALSE}
      /\ \/ at' = "exit" /\ status' = EXIT_USAGE
         \/ at' = "preflight" /\ status' = status /\ command' = "resetcheck" /\ timeout' \in 1..120
         \/ at' = "session" /\ status' = status
  <2> HIDE DEF Inv
  <2> QED
    BY DEF Main, Exit, StartPing
<1>5. TypeOK'
  <2>1. age' \in 0..Second /\ at' # "sleep"
    BY <1>1, <1>4 DEF TypeOK
  <2>2. disturbed' \in BOOLEAN
    BY <1>4 DEF TypeOK
  <2>3. /\ at' \in {"preflight", "exit", "session"}
        /\ status' \in {EXIT_OK, EXIT_USAGE, EXIT_NOCONNECT, EXIT_TIMEOUT}
    BY <1>4 DEF TypeOK
  <2> QED
    BY <1>1, <1>2, <1>3, <2>1, <2>2, <2>3 DEF TypeOK
<1>6. AskedFor'
  BY <1>1, <1>4 DEF AskedFor, Running
<1>7. OneReset'
  BY <1>1, <1>4 DEF OneReset, Waiting
<1>8. Clock' /\ Cause'
  BY <1>1, <1>4 DEF Clock, Cause
<1>9. Unseen' /\ Soon'
  BY <1>1, <1>4 DEF Unseen, Soon, OneReset
<1>10. SuccessIsReal' /\ RebootIsSeen'
  BY <1>1, <1>4 DEF SuccessIsReal, RebootIsSeen
<1> QED
  BY <1>5, <1>6, <1>7, <1>8, <1>9, <1>10

LEMMA PreflightKeepsInv == Inv /\ Preflight => Inv'
<1> SUFFICES ASSUME Inv, Preflight PROVE Inv'
  OBVIOUS
<1> USE Constants DEF Inv, Preflight, PingAnswered, PingFails, AfterPreflight, Exit, line, world,
         EXIT_OK, EXIT_USAGE, EXIT_NOCONNECT, EXIT_TIMEOUT
<1>1. TypeOK'
  BY DEF TypeOK, OneReset, Waiting, Clock, AskedFor, Running
<1>2. AskedFor'
  BY DEF TypeOK, AskedFor, Running
<1>3. OneReset'
  BY DEF TypeOK, OneReset, Waiting, AskedFor, Running
<1>4. Clock'
  BY DEF TypeOK, Clock, OneReset, Waiting, AskedFor, Running
<1>5. Cause'
  BY DEF TypeOK, Cause, OneReset, Waiting
<1>6. Unseen'
  BY DEF TypeOK, Unseen, Cause, OneReset, Waiting
<1>7. Soon'
  BY DEF TypeOK, Soon, Cause, Unseen, OneReset, Waiting, Clock
<1>8. SuccessIsReal'
  BY DEF TypeOK, SuccessIsReal, Cause, OneReset, Waiting, AskedFor, Running
<1>9. RebootIsSeen'
  BY DEF TypeOK, RebootIsSeen, Cause, Unseen, Soon, OneReset, Waiting, AskedFor, Running
<1> QED
  BY <1>1, <1>2, <1>3, <1>4, <1>5, <1>6, <1>7, <1>8, <1>9 DEF Inv

LEMMA ResetKeepsInv == Inv /\ Reset => Inv'
<1> SUFFICES ASSUME Inv, Reset PROVE Inv'
  OBVIOUS
<1> USE Constants DEF Inv, Reset, Exit, line,
         EXIT_OK, EXIT_USAGE, EXIT_NOCONNECT, EXIT_TIMEOUT
<1>0. timeout * Second \in Nat /\ timeout * Second <= Longest
  BY Deadline DEF AskedFor, Running
<1>1. TypeOK'
  <2>0. resets = 0
    BY DEF OneReset
  <2>1. reset' \in BOOLEAN /\ resets' \in {0, 1}
    <3>1. CASE resets' = resets + 1 /\ reset' = TRUE
      BY <2>0, <3>1
    <3>2. CASE \E n \in {0, 1} : resets' = resets + n /\ reset' = (n = 1)
      BY <2>0, <3>2
    <3> QED
      BY <3>1, <3>2
  <2>2. ttl' \in -Second..Longest
    BY <1>0 DEF TypeOK
  <2>3. /\ at' \in {"loop", "exit"} /\ status' \in {status, EXIT_NOCONNECT}
        /\ UNCHANGED <<argv, command, timeout, saw_outage, age, ps2, disturbed, answered, fault,
                       reboot, away, back>>
    OBVIOUS
  <2> QED
    BY <2>1, <2>2, <2>3 DEF TypeOK
<1>2. AskedFor'
  BY DEF TypeOK, AskedFor, Running
<1>3. OneReset'
  BY DEF TypeOK, OneReset, Waiting, AskedFor, Running
<1>4. Clock'
  BY <1>0 DEF TypeOK, Clock, OneReset, Waiting, AskedFor, Running
<1>5. Cause'
  BY DEF TypeOK, Cause, OneReset, Waiting
<1>6. Unseen'
  BY DEF TypeOK, Unseen, Cause, OneReset, Waiting
<1>7. Soon'
  BY DEF TypeOK, Soon, Cause, Unseen, OneReset, Waiting, Clock
<1>8. SuccessIsReal'
  BY DEF TypeOK, SuccessIsReal, Cause, OneReset, Waiting, AskedFor, Running
<1>9. RebootIsSeen'
  BY DEF TypeOK, RebootIsSeen, Cause, Unseen, Soon, OneReset, Waiting, AskedFor, Running
<1> QED
  BY <1>1, <1>2, <1>3, <1>4, <1>5, <1>6, <1>7, <1>8, <1>9 DEF Inv

LEMMA LoopKeepsInv == Inv /\ Loop => Inv'
<1> SUFFICES ASSUME Inv, Loop PROVE Inv'
  OBVIOUS
<1> USE Constants DEF Inv, Loop, StartPing, Exit, line, world,
         EXIT_OK, EXIT_USAGE, EXIT_NOCONNECT, EXIT_TIMEOUT
<1>1. TypeOK'
  <2>1. CASE ttl > 0
    BY <2>1 DEF TypeOK, OneReset, Waiting, Clock, AskedFor, Running
  <2>2. CASE ~(ttl > 0)
    BY <2>2 DEF TypeOK, OneReset, Waiting, Clock, AskedFor, Running
  <2> QED
    BY <2>1, <2>2
<1>2. AskedFor'
  BY DEF TypeOK, AskedFor, Running
<1>3. OneReset'
  BY DEF TypeOK, OneReset, Waiting, AskedFor, Running
<1>4. Clock'
  BY DEF TypeOK, Clock, OneReset, Waiting, AskedFor, Running
<1>5. Cause'
  BY DEF TypeOK, Cause, OneReset, Waiting
<1>6. Unseen'
  BY DEF TypeOK, Unseen, Cause, OneReset, Waiting
<1>7. Soon'
  BY DEF TypeOK, Soon, Cause, Unseen, OneReset, Waiting, Clock
<1>8. SuccessIsReal'
  BY DEF TypeOK, SuccessIsReal, Cause, OneReset, Waiting, AskedFor, Running
<1>9. RebootIsSeen'
  BY DEF TypeOK, RebootIsSeen, Cause, Unseen, Soon, OneReset, Waiting, AskedFor, Running
<1> QED
  BY <1>1, <1>2, <1>3, <1>4, <1>5, <1>6, <1>7, <1>8, <1>9 DEF Inv

LEMMA PingedKeepsInv == Inv /\ Pinged => Inv'
<1> SUFFICES ASSUME Inv, Pinged PROVE Inv'
  OBVIOUS
<1> USE Constants DEF Inv, EXIT_OK, EXIT_USAGE, EXIT_NOCONNECT, EXIT_TIMEOUT
<1>1. /\ at = "ping"
      /\ UNCHANGED <<argv, command, timeout, ttl, disturbed, resets, ps2, reset, reboot, away, back>>
  BY DEF Pinged, line, world
<1>2. \/ /\ PingAnswered /\ saw_outage' = saw_outage /\ saw_outage
         /\ at' = "exit" /\ status' = EXIT_OK /\ age' = age
      \/ PingAnswered /\ saw_outage' = saw_outage /\ ~saw_outage /\ PauseOrNot
      \/ PingFails /\ saw_outage' = TRUE /\ PauseOrNot
  BY DEF Pinged, Recovered, Exit
<1>0. ttl \in Int /\ age \in Int /\ away \in Int
  BY DEF TypeOK
<1>3. PauseOrNot =>
        /\ age' = 0 /\ status' = status
        /\ \/ at' = "sleep" /\ ttl >= 1
           \/ at' = "loop" /\ ttl <= 0
  <2>1. CASE ttl > 0
    <3>1. ttl >= 1
      BY <1>0, <2>1
    <3> QED
      BY <2>1, <3>1 DEF PauseOrNot
  <2>2. CASE ~(ttl > 0)
    <3>1. ttl <= 0
      BY <1>0, <2>2
    <3> QED
      BY <2>2, <3>1 DEF PauseOrNot
  <2> QED
    BY <2>1, <2>2
<1>4. answered' \in BOOLEAN /\ fault' \in BOOLEAN /\ saw_outage' \in BOOLEAN
  BY <1>2 DEF PingAnswered, PingFails, TypeOK
<1>5. /\ age' \in {0, age}
      /\ \/ at' = "exit" /\ status' = EXIT_OK
         \/ /\ age' = 0 /\ status' = status
            /\ \/ at' = "sleep" /\ ttl >= 1
               \/ at' = "loop" /\ ttl <= 0
  BY <1>2, <1>3
<1>6. ~fault' => ~fault
  BY <1>2 DEF PingAnswered, PingFails, TypeOK
<1>7. TypeOK'
  BY <1>1, <1>4, <1>5 DEF TypeOK
<1>8. AskedFor'
  BY <1>1, <1>5 DEF AskedFor, Running
<1>9. OneReset'
  BY <1>1, <1>2, <1>5 DEF OneReset, AskedFor, Running, Waiting, PingAnswered, PingFails
<1>10. Clock'
  <2>1. away' + ttl' <= Longest
    BY <1>1 DEF Clock
  <2>2. ASSUME at' \in {"ping", "sleep"}
        PROVE  ttl' + age' >= 1
    <3>1. age' = 0 /\ ttl >= 1 /\ ttl' = ttl
      BY <1>1, <1>5, <2>2
    <3> QED
      BY <1>0, <3>1
  <2> QED
    BY <2>1, <2>2 DEF Clock
<1>11. Cause'
  <2>1. fault' \/ saw_outage' = saw_outage \/ (saw_outage' = TRUE /\ disturbed)
    BY <1>2 DEF PingFails
  <2> QED
    BY <1>1, <1>5, <1>6, <2>1 DEF Cause, TypeOK
<1>12. Unseen'
  <2>1. CASE saw_outage'
    BY <2>1 DEF Unseen
  <2>2. CASE ~saw_outage'
    <3>1. ps2 = "up" /\ ~saw_outage
      BY <1>2, <2>2 DEF PingAnswered
    <3>2. reboot' # "down"
      BY <1>1, <3>1 DEF Cause
    <3> QED
      BY <1>1, <1>6, <3>1, <3>2 DEF Unseen
  <2> QED
    BY <2>1, <2>2
\* A ping that was not disturbed is answered, and ends the program; one that was leaves
\* time for a pause.
<1>13. Soon'
  <2> SUFFICES ASSUME ~fault', reboot = "back", away > Pause + Second, back > Pause + Second
               PROVE  /\ at' = "loop" => ttl > 0
                      /\ at' = "sleep" => ttl + age' > Pause
                      /\ at' # "ping"
    BY <1>1, <1>5 DEF Soon
  <2>1. saw_outage
    BY <1>6 DEF Unseen, TypeOK
  <2>2. CASE at' = "exit"
    BY <2>2
  <2>3. CASE at' # "exit"
    <3>1. PingFails /\ PauseOrNot
      BY <1>2, <2>1, <2>3
    <3>2. disturbed
      BY <3>1 DEF PingFails, TypeOK
    <3>3. ttl + age >= back
      BY <1>1, <1>6, <3>2 DEF Soon
    <3>4. ttl > Pause
      BY <1>1, <3>3 DEF TypeOK
    <3> QED
      BY <1>3, <3>1, <3>4 DEF TypeOK
  <2> QED
    BY <2>2, <2>3
<1>14. SuccessIsReal'
  <2> SUFFICES ASSUME at' = "exit", ~fault' PROVE reboot = "back" /\ resets = 1
    BY <1>1 DEF SuccessIsReal
  <2>1. ps2 = "up" /\ saw_outage
    BY <1>2, <1>3 DEF PingAnswered
  <2> QED
    BY <1>1, <1>6, <2>1 DEF Cause, OneReset, Waiting, TypeOK
<1>15. RebootIsSeen'
  BY <1>5 DEF RebootIsSeen, AskedFor, Running
<1> QED
  BY <1>7, <1>8, <1>9, <1>10, <1>11, <1>12, <1>13, <1>14, <1>15

LEMMA WakeKeepsInv == Inv /\ Wake => Inv'
<1> SUFFICES ASSUME Inv, Wake PROVE Inv'
  OBVIOUS
<1> USE Constants DEF Inv, Wake, PauseTicks, line, world,
         EXIT_OK, EXIT_USAGE, EXIT_NOCONNECT, EXIT_TIMEOUT
<1>1. TypeOK'
  BY DEF TypeOK, OneReset, Waiting, Clock, AskedFor, Running
<1>2. AskedFor'
  BY DEF TypeOK, AskedFor, Running
<1>3. OneReset'
  BY DEF TypeOK, OneReset, Waiting, AskedFor, Running
<1>4. Clock'
  BY DEF TypeOK, Clock, OneReset, Waiting, AskedFor, Running
<1>5. Cause'
  BY DEF TypeOK, Cause, OneReset, Waiting
<1>6. Unseen'
  BY DEF TypeOK, Unseen, Cause, OneReset, Waiting
<1>7. Soon'
  BY DEF TypeOK, Soon, Cause, Unseen, OneReset, Waiting, Clock
<1>8. SuccessIsReal'
  BY DEF TypeOK, SuccessIsReal, Cause, OneReset, Waiting, AskedFor, Running
<1>9. RebootIsSeen'
  BY DEF TypeOK, RebootIsSeen, Cause, Unseen, Soon, OneReset, Waiting, AskedFor, Running
<1> QED
  BY <1>1, <1>2, <1>3, <1>4, <1>5, <1>6, <1>7, <1>8, <1>9 DEF Inv

LEMMA RebootsKeepsInv == Inv /\ Reboots => Inv'
<1> SUFFICES ASSUME Inv, Reboots PROVE Inv'
  OBVIOUS
<1> USE Constants DEF Inv, Reboots, Watched, program, line,
         EXIT_OK, EXIT_USAGE, EXIT_NOCONNECT, EXIT_TIMEOUT
<1>1. TypeOK'
  <2>1. reset' \in BOOLEAN /\ disturbed' \in BOOLEAN
    BY DEF TypeOK
  <2>2. away' \in {0, away} /\ 0 \in 0..(Longest + Second)
    OBVIOUS
  <2>3. /\ ps2' \in {ps2, "down"} /\ reboot' \in {reboot, "down"}
        /\ UNCHANGED <<argv, command, timeout, at, status, saw_outage, ttl, age, resets>>
        /\ UNCHANGED <<answered, fault, back>>
    OBVIOUS
  <2> HIDE DEF Reboots
  <2> QED
    BY <2>1, <2>2, <2>3 DEF TypeOK
<1>2. AskedFor'
  BY DEF TypeOK, AskedFor, Running
<1>3. OneReset'
  BY DEF TypeOK, OneReset, Waiting, AskedFor, Running
<1>4. Clock'
  BY DEF TypeOK, Clock, OneReset, Waiting, AskedFor, Running
<1>5. Cause'
  BY DEF TypeOK, Cause, OneReset, Waiting
<1>6. Unseen'
  BY DEF TypeOK, Unseen, Cause, OneReset, Waiting
<1>7. Soon'
  BY DEF TypeOK, Soon, Cause, Unseen, OneReset, Waiting, Clock
<1>8. SuccessIsReal'
  BY DEF TypeOK, SuccessIsReal, Cause, OneReset, Waiting, AskedFor, Running
<1>9. RebootIsSeen'
  BY DEF TypeOK, RebootIsSeen, Cause, Unseen, Soon, OneReset, Waiting, AskedFor, Running
<1> QED
  BY <1>1, <1>2, <1>3, <1>4, <1>5, <1>6, <1>7, <1>8, <1>9 DEF Inv

LEMMA ComesUpKeepsInv == Inv /\ ComesUp => Inv'
<1> SUFFICES ASSUME Inv, ComesUp PROVE Inv'
  OBVIOUS
<1> USE Constants DEF Inv, ComesUp, Watched, program, line,
         EXIT_OK, EXIT_USAGE, EXIT_NOCONNECT, EXIT_TIMEOUT
<1>1. TypeOK'
  BY DEF TypeOK, OneReset, Waiting, Clock, AskedFor, Running
<1>2. AskedFor'
  BY DEF TypeOK, AskedFor, Running
<1>3. OneReset'
  BY DEF TypeOK, OneReset, Waiting, AskedFor, Running
<1>4. Clock'
  BY DEF TypeOK, Clock, OneReset, Waiting, AskedFor, Running
<1>5. Cause'
  BY DEF TypeOK, Cause, OneReset, Waiting
<1>6. Unseen'
  BY DEF TypeOK, Unseen, Cause, OneReset, Waiting
<1>7. Soon'
  BY DEF TypeOK, Soon, Cause, Unseen, OneReset, Waiting, Clock
<1>8. SuccessIsReal'
  BY DEF TypeOK, SuccessIsReal, Cause, OneReset, Waiting, AskedFor, Running
<1>9. RebootIsSeen'
  BY DEF TypeOK, RebootIsSeen, Cause, Unseen, Soon, OneReset, Waiting, AskedFor, Running
<1> QED
  BY <1>1, <1>2, <1>3, <1>4, <1>5, <1>6, <1>7, <1>8, <1>9 DEF Inv

LEMMA GoesAwayKeepsInv == Inv /\ GoesAway => Inv'
<1> SUFFICES ASSUME Inv, GoesAway PROVE Inv'
  OBVIOUS
<1> USE Constants DEF Inv, GoesAway, Watched, program, line,
         EXIT_OK, EXIT_USAGE, EXIT_NOCONNECT, EXIT_TIMEOUT
<1>1. TypeOK'
  BY DEF TypeOK, OneReset, Waiting, Clock, AskedFor, Running
<1>2. AskedFor'
  BY DEF TypeOK, AskedFor, Running
<1>3. OneReset'
  BY DEF TypeOK, OneReset, Waiting, AskedFor, Running
<1>4. Clock'
  BY DEF TypeOK, Clock, OneReset, Waiting, AskedFor, Running
<1>5. Cause'
  BY DEF TypeOK, Cause, OneReset, Waiting
<1>6. Unseen'
  BY DEF TypeOK, Unseen, Cause, OneReset, Waiting
<1>7. Soon'
  BY DEF TypeOK, Soon, Cause, Unseen, OneReset, Waiting, Clock
<1>8. SuccessIsReal'
  BY DEF TypeOK, SuccessIsReal, Cause, OneReset, Waiting, AskedFor, Running
<1>9. RebootIsSeen'
  BY DEF TypeOK, RebootIsSeen, Cause, Unseen, Soon, OneReset, Waiting, AskedFor, Running
<1> QED
  BY <1>1, <1>2, <1>3, <1>4, <1>5, <1>6, <1>7, <1>8, <1>9 DEF Inv

LEMMA TickKeepsInv == Inv /\ Tick => Inv'
<1> SUFFICES ASSUME Inv, Tick PROVE Inv'
  OBVIOUS
<1> USE Constants DEF Inv, Tick, Pinging, PauseTicks, line,
         EXIT_OK, EXIT_USAGE, EXIT_NOCONNECT, EXIT_TIMEOUT
<1>1. TypeOK'
  BY DEF TypeOK, OneReset, Waiting, Clock, AskedFor, Running
<1>2. AskedFor'
  BY DEF TypeOK, AskedFor, Running
<1>3. OneReset'
  BY DEF TypeOK, OneReset, Waiting, AskedFor, Running
<1>4. Clock'
  BY DEF TypeOK, Clock, OneReset, Waiting, AskedFor, Running
<1>5. Cause'
  BY DEF TypeOK, Cause, OneReset, Waiting
<1>6. Unseen'
  BY DEF TypeOK, Unseen, Cause, OneReset, Waiting
<1>7. Soon'
  BY DEF TypeOK, Soon, Cause, Unseen, OneReset, Waiting, Clock
<1>8. SuccessIsReal'
  BY DEF TypeOK, SuccessIsReal, Cause, OneReset, Waiting, AskedFor, Running
<1>9. RebootIsSeen'
  BY DEF TypeOK, RebootIsSeen, Cause, Unseen, Soon, OneReset, Waiting, AskedFor, Running
<1> QED
  BY <1>1, <1>2, <1>3, <1>4, <1>5, <1>6, <1>7, <1>8, <1>9 DEF Inv

LEMMA StutterKeepsInv == Inv /\ UNCHANGED vars => Inv'
BY DEF Inv, vars, TypeOK, AskedFor, OneReset, Clock, Cause, Unseen, Soon, SuccessIsReal, RebootIsSeen,
       Running, Waiting

LEMMA NextKeepsInv == Inv /\ [Next]_vars => Inv'
<1> SUFFICES ASSUME Inv, [Next]_vars PROVE Inv'
  OBVIOUS
<1>1. CASE Program
  BY <1>1, MainKeepsInv, PreflightKeepsInv, ResetKeepsInv, LoopKeepsInv, PingedKeepsInv, WakeKeepsInv
     DEF Program
<1>2. CASE Reboots \/ ComesUp \/ GoesAway \/ Tick
  BY <1>2, RebootsKeepsInv, ComesUpKeepsInv, GoesAwayKeepsInv, TickKeepsInv
<1>3. CASE Done \/ UNCHANGED vars
  BY <1>3, StutterKeepsInv DEF Done
<1> QED
  BY <1>1, <1>2, <1>3 DEF Next

LEMMA Invariance == Spec => []Inv
BY InitInv, NextKeepsInv, PTL DEF Spec
----------------------------------------------------------------------------
(* The results.                                                            *)

\* The types of resetcheck's state: among others, the time left (deadline - time_ms())
\* never falls below one ping, whatever the timeout.
THEOREM TypesHold == Spec => []TypeOK
<1>1. Inv => TypeOK
  BY DEF Inv
<1> QED
  BY <1>1, Invariance, PTL

\* Every command line main is given is read as the usage text says, and the two places
\* that limit a program's arguments agree.
THEOREM LinesAreRead == Spec => []LineIsRead
<1>1. Inv => LineIsRead
  BY EveryLineIsRead, EveryLengthAgrees DEF Inv, TypeOK, LineIsRead
<1> QED
  BY <1>1, Invariance, PTL

\* RESET is sent at most once, by a resetcheck that was asked for properly and whose
\* first ping was answered (ps2client_resetcheck in src/resetcheck.c).
THEOREM ResetsAreEarned == Spec => []ResetIsEarned
<1>1. Inv => ResetIsEarned
  BY DEF Inv, TypeOK, OneReset, ResetIsEarned
<1> QED
  BY <1>1, Invariance, PTL

\* When nothing but the RESET disturbed the round trip, exit status 0 means that the ps2
\* restarted and is back.
THEOREM SuccessesAreReal == Spec => []SuccessIsReal
<1>1. Inv => SuccessIsReal
  BY DEF Inv
<1> QED
  BY <1>1, Invariance, PTL

\* A restart that takes longer than a pause and a ping and ends with a pause and a ping
\* to go is never reported as a timeout, however long a second, a pause and the timeout are.
THEOREM RebootsAreSeen == Spec => []RebootIsSeen
<1>1. Inv => RebootIsSeen
  BY DEF Inv
<1> QED
  BY <1>1, Invariance, PTL
===========================================================================
