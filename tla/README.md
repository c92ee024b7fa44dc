# ps2client: a TLA+ verification project

ps2client runs a program on a PlayStation 2 over the network and serves it files. This directory
holds TLA+ models of it, the TLC runs that check them on small instances, and TLAPS proofs of what
holds for every instance. Sources are named relative to the repository, e.g. `src/ps2link.c`.

    tlc -config MCSession.cfg MCPs2Client       # one run
    tlapm Ps2ClientProofs.tla                   # the proofs of one module

## The system

| component | state | operations |
|---|---|---|
| main thread (`ps2client.c`, `ps2link.c`) | sockets, `-t`, `-e`, exit status, local clocks | connect, handshake, send a command, main loop, disconnect |
| console thread | line buffer, marker seen and its status | receive a datagram, print it, scan it, stamp the activity |
| request thread | `ps2link_ping_fd`, lost and answered flags | receive a request, dispatch, respond, stamp, report the loss |
| host: handlers | ten directory slots, the host's descriptors | open close read write lseek opendir closedir readdir remove mkdir rmdir getstat |
| network layer (`network.c`) | none | timed connect, listen, send all, receive all, wait |
| command line (`ps2client.c`, `utility.c`) | options, the command | parse the options, find the command, check its arguments, pack a program's |
| resetcheck (`resetcheck.c`) | outage seen, deadline | preflight ping, one RESET, ping until recovery or deadline |
| fsclient (`fsclient.c`) | two files, size and progress of a copy | copyfrom, copyto, dir, delete, mkdir, rmdir, devlist, mount, sync, umount |
| ps2netfs protocol (`ps2netfs.c`) | one TCP connection | fifteen commands, one packet and one response each |
| utilities | none | flags, pathnames, argument packing, clock |
| ps2symbolize | none | a text filter around addr2line |

Interactions. The three threads share `ps2link_activity`, the flags and the marker under one mutex,
and poll them. Commands go out by UDP and are not acknowledged; console output comes in by UDP;
host: requests come in and responses go out over one TCP connection, on which the data of a write
follows its request and the data of a read follows its response. The handshake ties them together:
main sends `dumpreg` by UDP, ps2link answers by opening, writing and closing a host: file, the
request thread sees that close and sets a flag, and main polls the flag. resetcheck runs ps2client
again as a child process for every ping and for its RESET, and knows them by exit status and time.
fsclient is a program of its own: one thread, one TCP connection to another server (ps2netfs), one
call at a time.

What is hard here: three threads and a remote peer in any order; values read under the lock and used
after it; datagrams lost, repeated and reordered; a handshake that retries while answers are late;
descriptor numbers that are used again; a connection that ends at any byte; threads that are
cancelled and never joined; a buffer and a slot table at their limits.

What makes each part correct:
- main thread: no command before the handshake is really complete; a handshake that does not flood;
  an exit status that tells what happened; an exit whenever one is due.
- console: a marker is seen when, and only when, a line has it; the first one decides.
- request thread: a loss is reported, and only a real one.
- handlers: one response per request, streams in step, no descriptor mixed up or leaked.
- command line: read as the usage text says; what main lets through fits the packet.
- resetcheck: RESET once and only after an answer; success only after a loss and a recovery; an end.
- fsclient, ps2netfs, network: the copy is a prefix of the source, and all of it when success is told;
  nothing stays open; the server does what was asked; no wait for what cannot come.

`PROJECT.json` lists the hazards line by line, with the properties that guard them.

## Modules

| module | models |
|---|---|
| `Ps2Client` | a whole run: the three threads, with ps2link, the network and time around them |
| `MCPs2Client` | its small instances |
| `MCIdle` | the same with a history clock for the idle timeout, under ideal scheduling |
| `Ps2ClientProofs`, `IdleProofs` | theorems about `Ps2Client` and `MCIdle` |
| `ConsoleScan`, `MCConsoleScan`, `ConsoleScanProofs` | the scanner character by character, with its buffer |
| `HostRequests`, `MCHostRequests`, `HostRequestsProofs` | the twelve handlers, the slots, and the two streams |
| `FsClient`, `MCFsClient`, `FsClientProofs` | a run of fsclient: its calls, their packets in pieces, and a server |
| `FileCopy` | what a copy promises, abstractly; `FsClient` implements it |
| `CommandLine`, `CommandLineProofs` | the parsing of the command line and the packing of arguments, as operators |
| `Resetcheck`, `MCResetcheck`, `ResetcheckProofs` | resetcheck from the command line to its exit status, in ticks; extends `CommandLine` |

### Ps2Client

Variables keep the names of the code (`console_socket`, `ping_fd`, `lost`, `ping_answered`,
`marker_seen`, ...). `main`, `con` and `req` are the program counters. A step is a critical section,
or what a thread does between two calls that can block or be observed. So `Look` is the loop's
locked read, `Decide` the test after the unlock, `IdleOut` the second locked section; the console
thread receives, scans and stamps in three steps; the request thread receives, performs, responds
and stamps in four.

Time is kept as ages: `idle` is `time_ms() - ps2link_activity`, `hs` the age of the handshake,
`since` that of its last command. Ages stop at `Horizon`, which no comparison can see past. Sleeps
are the freedom of others to run; only the 500 ms after a loss (`drain`) is kept as a clock, because
the status depends on it.

A thread's loop begins at `top`, where `network_wait` puts the socket into its set; `wait` is the
select and the receive after it. A receive of console output may fail, and is tried again.

A datagram is what it adds to the current line (nothing, text, the marker, `status=n`, a newline or
not); without `-e` nothing looks at it, and it is just a datagram. Any sequence of datagrams may
arrive, which covers loss, repetition and reordering. `MaxOutputs` and `MaxRequests` bound how many
datagrams and requests there are in a run; with `Endless` and without `-e` they bound only how many
wait to be read, and these may go on coming for ever. (With `-e` the history `scanned` would grow.) ps2link's
dump, a program's requests, a reset and garbage on the connection are actions of the environment,
modelled from how `ps2link.c` uses them (external).

A write of more than the handler's buffer may find no memory: nothing is answered and its data stays
in `request_q`, in front of what follows (`conn` is then `unread`). The thread takes it for headers,
with a bad length, which ends the thread, or with an unknown number, whose packet may swallow the
request behind it.

Cancellation: a cancelled thread dies in its next blocking call, and main does not wait for that. One
that is on its way to `top` gets there with its socket closed and -1, and `FD_SET(-1)` comes before
the select that would end it. That is undefined; `WaitsOnClosed` has its two outcomes, nothing, or
the abort of a build that checks `FD_SET`. The run `disconnect` shows that main's order allows it.

### ConsoleScan

`line` is `ps2link_line`; `raw` and `raws` are history: the lines as they were printed. `told` is the
text after `status=`, which `strtol` turns into the number. A line longer than the buffer loses all
but its last 256 characters, and a marker before them is missed, as the comment in the code says;
`EndOfLineCounts` states what is left of the promise of `-e`. The split into datagrams plays no role
for the scanner, so there are none.

### HostRequests

One step per request, since only the request thread touches this state. `stream` is what ps2link has
sent (requests, and the data of writes), `inbox` what it has received. `dd` is `ps2link_dd`;
`streams` and `names` count the open DIRs and the allocated pathnames. A host path is absent, a file
or a directory. `Failures` says what may go wrong: malloc of a big buffer (`nomem`), opendir after
stat said directory (`opendir`), stat of an entry that has just gone, whose result is then anything, as
`stats` is not initialised (`stat`), and another process of the host changing a path between the stat
and the open of one request (`race`). Two more end the program, on a NULL that is not looked at:
malloc of a directory's pathname (`nopath`), and localtime of times that a failed stat left on the
stack (`badtime`). After a write whose data was not read, the data is taken for headers: a bad length, or
an unknown number whose packet may swallow the start of what follows. Data that happens to spell a
valid request is left out. File contents, times and mode bits are left out.

`failed` is history: which of these have happened. `Excused` names those after which a property need
not hold any more. In `host` all are excused, so that everything is checked up to the first of them
and what they do not touch also after; in `host_nomem` and `host_opendir` none is, and the
property fails. `ReadsItsDirectory` is excused by a write without memory too: what is left of its data puts
the streams out of step, and an opendir may then be given the answer of another request. That takes
four requests under way, more than `host` has room for; the proof asked for it, and TLC confirms it.

### FsClient and FileCopy

copyfrom and copyto are one program read in two directions: side 0 is the source, side 1 the
destination, and `OnPs2` says which is remote. The order of the calls, their tests and the two closes
at `done:` are the same in both functions; the tests that only one of them has are in `ReadFails` and
`WriteFails`. A call on the local side is a system call in one step; on the other side it is a command
in `out`, sent in pieces (`SendPiece`), a response received in pieces (`ReceivePiece`), and for a read
its data. A packet is two or three cells and a byte of a file is one, so that a stream can be cut
between any two and a leftover be read as a response; what a result made of data is, is open. `phase`
is where the call is, `at` the place in the function. `name` says of the first pathname whether it
fits into 255 characters, is longer, or is missing; `SentName` is what then goes out. An int is
`IntMax` wide (`AsInt`).

The server (external) performs what it understands, with any result a file system may give, a count
that is one too large, or -1, and may close the connection at any time with a part of its answers.
It knows the numbers of `doc/ps2netfs-protocol.txt`.

`FileCopy` has four steps: empty the destination, extend it by what comes next in the source,
succeed when nothing is missing, fail. `CopyIsFaithful` says that `FsClient` implements it, with
`source` and `dest` for themselves and `result` read off `at` and `status`.

### CommandLine and Resetcheck

A word of the command line is known by what the code asks of it: which option or command it is, its
length, whether `parse_number` takes it, what `atoi` returns. `ParseOptions` is the loop of `main`,
`CommandOf` all that follows up to the dispatch. The usage text, read as a grammar, is the reference
(`OptionsAreRight`); `LengthsAgree` compares the two places that limit a program's arguments.

`Resetcheck` starts in `main` with any of the command lines. Time is in ticks: a ping takes up to
`Second`, a sleep `Pause`; the program's own steps take none. `ttl` is `deadline - time_ms()`. A ping
is answered when the round trip is there at its end, and fails when the round trip was away during it
or for a reason of its own (`fault`: a lost datagram, a fork that fails). `reboot`, `away` and `back`
are history: that RESET was obeyed, for how many ticks the ps2 was away, and how much time was left.

## Runs

| run | question | result |
|---|---|---|
| `session` | can the handshake succeed too early, flood, or report a loss that is none; is the exit status that of the console stream, for every split, order, timeout and loss of the connection? | no; yes |
| `live` | do a lost connection and a marker always end the run; do ping and the commands that do not wait end however much ps2link sends; does `-t` end it once ps2link is silent? | yes |
| `disconnect` | does the program exit with a status the README lists? | no: finding |
| `idle` | does the idle timeout wait for real silence, when threads and handlers are prompt? | yes |
| `idle_slow` | and when a handler takes time? | no: finding |
| `scan` | does the scanner see the markers it should, and no others? | yes |
| `host` | do programs get the directories they opened; does anything leak; do the streams stay in step and is every request answered? | yes, nothing, yes: except after the failures below |
| `host_nomem` | and when malloc fails for a big write? | no: finding |
| `host_opendir` | do directories stay apart when opendir fails? | no: finding |
| `fs` | do the copies implement `FileCopy`, is everything closed, is the server asked for the right thing, is a listing whole, does fsclient end? | yes |
| `fs_numbers` | is sync served as sync? | no: finding |
| `resetcheck` | is the command line read as the usage says; is RESET earned, success real, a restart seen; does it end? | yes |

Bounds, and why they are enough:
- `session` and `live` bound the environment command by command (`SessionFew` and `LiveFew` in
  `MCPs2Client`): `ping` and `execee` are checked for their handshake and get requests and time;
  `listen` and `console` for what they do in the loop and get datagrams. Only steps of ps2link are
  left out, and in `session` the ticks during the handshake of `listen`; in `live`, where fairness
  counts, no step is left out that fairness speaks of;
- clocks of one or two ticks: each comparison is met from below, exactly and from above; the handshake
  has room for a resend and for its answer to be late; `NoFlood` for longer limits is a theorem;
- two descriptors and two requests of a program in the handshake of ping (one in that of `execee`,
  which is the same function): the dump's file and a program's can
  change places and numbers, also through a failed open;
- one datagram or one request that waits at a time in `live`, without end: a stamp can
  always come between two looks of main, and a clock of one tick is enough to see whether it does.
  `console` gets the datagrams and `listen` the requests; these are reads and writes (some without
  memory), since files that programs open and close do not matter to any end;
- two datagrams for the exit status, each with text, the marker or a status, and with or without the
  end of the line, before, after and without a loss; the status 300 is beyond 8 bits;
- the scanner with a buffer of 4, keeping 2, on 8 characters: it overflows up to three times, with a
  marker of two equal letters that can lie across the cut;
- two slots, two directories whose entry has the same name and another kind, five requests of which
  two can be under way: a slot is taken, given back and taken again, and both can be in use;
- files of 0 to 5 cells with a buffer of 3: no turn of the copy loop, one, one that is exactly full,
  two, each with short reads and writes in every split; a file of 9 cells where an int ends at 7, so
  that its size is negative; three entries in the directory;
- every command line of up to four words out of nine (three options, two commands, an empty word,
  numbers in and out of range, a word too long by itself) with room for 5 characters; a deadline of
  three or four seconds, a second of two ticks and a pause of one, which leaves room for an outage
  that is missed, one that is seen and comes back too late, and one that is seen.

`fs` leaves out sync, mount and umount, which are `fs_numbers`, and gives the commands other than the
copies names that fit: `delete`, `mkdir`, `rmdir` and `dir` cut a longer one silently, and
`ServedAsAsked` would not hold. A file of 4 GiB and more wraps to a size of 0 or more and a part of it
is copied with success: `CopyIsFaithful` is checked up to the sizes that are refused. Both are in the
list of hazards.

No symmetry is used: the descriptors are ordered (open takes the lowest). Deadlock is checked in all
runs of `Ps2Client`, `FsClient` and `Resetcheck`, where the exited program stutters; the
scanner and the handlers stop when their bounds are used up, and their configurations say so.

Fairness (`Fairness` in `Ps2Client`): weak fairness of each of the three threads and of time. The operating system
schedules the threads, the host's file operations end, and the clock is monotonic; the main loop
sleeps between polls and never holds the lock in a blocking call. Fairness asks nothing of ps2link or
of the network: an answer may never come, and output and requests may never stop. For
`TimeoutEndsRun` (ping, and commands with `-t 0`) that is all. A `-t` above 0 is another matter:
every datagram and every request starts its time again, so that a program that prints for ever is
never timed out, as the usage text says. `SilenceEndsRun` has that as its hypothesis: the program
exits if from some point on nothing more arrives. A garbled header is promised an end
(`LossEndsRun`) only once the thread has met it: when a write's data was left unread it can be
swallowed as part of another packet.

`FsClient` needs more, because fsclient has no timeout anywhere: weak fairness of the program and of
the server, which answers a whole command or closes the connection. `Resetcheck` assumes that the
program runs, that time passes, and that a ping ends within its second. The last is an assumption
about the host's clock and scheduling: `Ps2Client` shows that a ping ends (`TimeoutEndsRun`), not
when. Nothing is assumed of the ps2 or the network.

`idle` assumes more, in `MCIdle`: threads deal with what has arrived before main looks again. Without
it a thread that the host does not run for `-t` seconds lets main time out, which no polling program
can exclude; with it the only thing left is the duration of a handler, which `idle_slow` sets free.

## Findings

- `disconnect`: threads are cancelled and not joined, and their sockets closed at once
  (`src/ps2link.c:249`); a thread between two blocking calls evaluates `FD_SET(-1)`, and a build that
  checks it aborts, with a status that `README.md` does not list.
- `idle_slow`: a request counts as activity only when its handler has ended (`src/ps2link.c:1060`), so
  a slow request is cut off by `-t`. The usage text says "without console output or requests".
- `host_nomem`: a big write without memory gets no response and leaves its data in the stream
  (`src/ps2link.c:539`).
- `host_opendir`: a failed opendir answers a slot that stays free (`src/ps2link.c:602`), so two programs
  share a descriptor. Its pathname is in the slot already (`src/ps2link.c:600`); closedir refuses the
  slot, the next opendir overwrites it, and the pathname is never freed: in the same instance
  `NothingLeaks` fails too.
- `fs_numbers`: sync, mount and umount have the numbers of read, write and lseek
  (`src/ps2netfs.h:53`); `doc/ps2netfs-protocol.txt` gives them numbers of their own.

One more has no run of its own: readdir ignores the result of stat (`src/ps2link.c:661`), and with
times localtime cannot convert the program dies on its NULL. With `Failures = {"badtime"}` in
`MCHostNoMem.cfg` TLC shows the readdir that is never answered.

## Proofs

All theorems hold for every value of the constants the assumptions of the modules allow: any set of
commands, timeouts and statuses, any number of descriptors, slots, datagrams and requests, any tree of
files, any alphabet, marker and buffer size, any words and lengths of the command line, any files,
buffer and width of an int in fsclient. The one
assumption with a bound of the code in it is that a pause is no longer than a second
(`ResetcheckAssumption`: 150 ms, `src/resetcheck.c:96`).

| theorem | states | inductive invariant |
|---|---|---|
| `TypeCorrect` | `[]TypeOK` | itself |
| `HandshakeIsSlow` | `[]NoFlood` | `FloodInv` |
| `LossIsReported` | `[]LostIsReal` | `LossInv` |
| `HandshakeIsSound` | `[]CommandAfterDump` when `StaleFds = {}` | `OwnInv`, `DumpInv`, `PingInv` |
| `ExitIsTheStory` | `ExitTellsTheStory` | `StoryInv`, `LossInv` |
| `GivesUpWhenQuiet` | `[]IdleOnlyWhenQuiet` of the ideal scheduling, when `SlowHandlers = FALSE` | `StartedInv`, `IdleInv` |
| `BufferIsSafe` | `[]TypeOK` of the scanner | itself |
| `MarkerIsReal`, `EndIsKept` | `[]NoFalseMarker`, `[]EndOfLineCounts` | `BufferInv` |
| `ShortLinesExact` | `[]ShortLinesAreExact` | `BufferInv`, `ExactInv` |
| `TypesHold` | `[]TypeOK` of the handlers | itself |
| `FilesOnly` | `[]OpensFilesOnly` unless a path changes between stat and open | `FilesFine` |
| `SlotsKeepAll` | `[]NothingLeaks` unless an opendir fails | `LeakInv` |
| `StreamsStayInStep` | `[]InStep` unless a write gets no memory | `InboxShape`, `StreamShape`, `MatchInv` |
| `RequestsAreAnswered` | `[]EveryRequestAnswered` unless a write gets no memory or the program dies (`nopath`, `badtime`) | the same |
| `DirectoriesAreRead` | `[]ReadsItsDirectory` unless `opendir`, `stat` or `nomem` happens | all of these and `DirInv` |
| `TypesHold` | `[]TypeOK` of fsclient | `Inv`, all its parts |
| `CopiesAreFaithful` | `CopyIsFaithful`: `FsClient` implements `FileCopy`, for files shorter than `2 * (IntMax + 1)` | `Inv`, above all `AnswerInv`, `CopyInv` |
| `FilesAreClosed` | `[]NothingStaysOpen` | `Inv`, above all `HeldInv`, `ToInv` |
| `ListingsAreWhole` | `[]ListingIsWhole` | `Inv`, above all `AnswerInv`, `ListInv` |
| `CommandsAreServed` | `[]ServedAsAsked` when `Plain` | `Inv`, `ServedInv` |
| `EveryLineIsRead`, `EveryLengthAgrees`, `LengthsOfArgumentsAgree` | `OptionsAreRight`, `LengthsAgree` of every command line | - |
| `TypesHold`, `ResetsAreEarned` | `[]TypeOK`, `[]ResetIsEarned` of resetcheck | `OneReset`, `AskedFor` |
| `LinesAreRead` | `[]LineIsRead` | from `EveryLineIsRead`, `EveryLengthAgrees` |
| `SuccessesAreReal` | `[]SuccessIsReal` | `Cause`, `OneReset` |
| `RebootsAreSeen` | `[]RebootIsSeen` | `Clock`, `Unseen`, `Soon` |

- `FloodInv`: every command but the last stands for `Resend` ticks of the handshake's clock, which is
  below its limit when one is sent. `NoFlood` alone says nothing of the clock.
- `LossInv`: follows the loss from the wire, through the garbage or the unread data in the queue and
  the thread that is about to report it, to the status.
- `HandshakeIsSound` is the deep one. A close completes the handshake when its number is `ping_fd`; it
  has to be shown that only the dump's own close can have that number. `OwnInv` says every descriptor
  that is held by a program, waits in a close, is being handed over or belongs to the dump is open and
  is so in one place only; `DumpInv` that the dump's requests come one at a time and a close of its
  own means it is complete; `PingInv` that no program can get hold of `ping_fd`, and where main has
  got with the answer. The condition `StaleFds = {}` is needed: any close with the number of the
  handshake's descriptor completes the handshake (`src/ps2link.c:478`), also one by a program that
  kept the number from an earlier connection. With `StaleFds = {1}` TLC finds that in a few steps.
- `StoryInv`: until main has decided, the flag, the status and the line under the lock are what the
  whole stream says: no marker so far, or the first one with its line unfinished and the first status
  told on it, or its line finished and the status settled. It is no longer true afterwards: main has
  counted the unfinished line, and the console thread may still go on with it.
- `IdleInv`: in the loop, once nothing that has arrived waits for a thread, the activity is no older
  than the last arrival, and neither is what main has read of it. `StartedInv` is needed for the threads
  that are not there: one that was not started has nothing to receive, one that has ended was
  cancelled or has told the loss. That requests are served at once is needed: `idle_slow`.
- `BufferInv`: the buffer is a suffix of the line, the whole of it while it fits, more than `Keep`
  characters otherwise.

- `LeakInv`: `streams` is the number of slots that hold a DIR, `names` at least that of those that
  hold a pathname, and exactly that until an opendir fails.
- `StreamShape` says that what waits to be read are whole requests, each big write followed by its
  data, and `InboxShape` that what was answered are responses of whole requests. `MatchInv` is the heart: a
  strictly increasing map takes the requests that are being waited for, in order, to the responses and then
  the requests that want one. `InStep` looks only at the first of them, `EveryRequestAnswered` only
  at the case that there are none.
- `DirInv` follows a directory from the opendir's response through the handles of the programs to its
  slot and back: a slot is free, or held by one handle, or on its way in one response, or on its way
  back in one closedir; `HandleInv` says so of the handles, `QueueInv` of the requests that wait,
  `OpenedInv` of the responses of opendir and `EntryInv` of those of readdir. Without it a slot could
  be given to a second program while a closedir or a readdir of the first is still queued.
- The conditions of these theorems (`Allowed`) say that a failure that may happen is excused. They are
  needed: `host_nomem` and `host_opendir` are what happens otherwise.
- `AnswerInv` follows a call of fsclient. Until the server has performed it (`Before`) no answer can
  be there; from then on what has arrived and what is still on the wire (`Answer`) is a beginning of
  its response, whose result says what was done (`Outcome`); once the call is back, `ret` says so too,
  or the connection is gone. There is one exception: a copyfrom that refuses a response of read goes
  on to close with that response's data still in the stream (not `Aligned`). It learns nothing
  from then on, and the invariant shows that it does not have to: its status is -1 already.
- `CopyInv` is what the result of a call is used for: `dest` is a prefix of `source`, of `total` cells
  between two turns of the loop and of `total + sent` within one, and `buffer` is the next piece.
  `HeldInv` says who is responsible for each open file: a descriptor that is yet to be closed, an
  open that has not been looked at, a close that waits at the server, or nobody as the connection is
  gone. `ListInv` counts every entry as listed, still to come or on its way.
- `CopiesAreFaithful` has the hypothesis that no file is longer than an unsigned int can tell. It is
  needed: a file of 4 GiB and a few bytes has the size of those few bytes (`src/fsclient.c`,
  `size`), and only they are copied. Sizes that become negative are covered: they are refused.
- `Plain` says that the command is not sync, mount or umount, which share their numbers with read,
  write and lseek (`fs_numbers` shows what happens), and that the commands other than the copies get
  a pathname that fits; a longer one is cut off and another file is served. `ServedInv` connects what the server
  did with what fsclient knows: a descriptor stands for an open that was performed, status 0 for a
  close. The instance of `fs` satisfies both hypotheses.
- `EveryLineIsRead` and `LengthsOfArgumentsAgree` are about recursive functions over the words. Each
  takes the least place where the function and what the usage says of it would differ, and shows
  that the step there keeps them equal.
- `Cause`: without another fault the round trip is away exactly during the restart, so an outage that
  was seen is that one. `Unseen`: as long as no outage was seen, the ps2 has been away for no longer
  than a pause and what the ping has lasted. `Soon`: once it is back in time, the time does not run
  out before the ping that will be answered. `Clock` bounds the time spent away by that of the run.

Every safety property of the passing runs is a theorem. Only model-checked: the liveness properties
`LossEndsRun`, `MarkerEndsRun`, `TimeoutEndsRun`, `SilenceEndsRun` and `Ends` of fsclient and of
resetcheck (the prover has no ENABLED), and what the five runs that expect a violation show.

## Not modelled

- The layout of packets (of the command builders of `ps2link.c` above all), the loop with which devlist
  prints its answer, byte order, file contents on the host side of `HostRequests`, times and
  permissions: data no property speaks of.
- The steps of `network_connect_timeout`, `network_listen` and `network_wait`: they have no state and
  are taken by their results in the actions that call them.
- `fix_flags` and `fix_pathname`: host paths are model values and flags are reduced to O_CREAT.
- The texts printed, PS2HOSTNAME, the Windows branches, a failing `pthread_create`.
- `ps2symbolize` (a text filter around addr2line, without state) and the tests.

## Plan

Done: `Ps2Client`, `ConsoleScan`, `HostRequests`, `FsClient` with `FileCopy`, `CommandLine`,
`Resetcheck`, and a theorem for every safety property. Next: what `FileCopy`
promises by itself (a copy that fails leaves what was there or a prefix of its source), as a theorem
of its own, and a second look at the hypotheses of the conditional theorems.
