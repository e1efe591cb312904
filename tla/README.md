# A verification of iperf-go's control protocol

iperf-go measures the speed of a network between a client and a server process.
The two talk over a TCP *control connection* that carries the state of the test,
and move data over one *data connection* per stream (TCP, RUDP or KCP). Each
process is a handful of goroutines around one structure, `IperfTest`, without a
lock. This directory holds TLA+ modules of that program, TLC configurations that
check them, and proofs that TLAPS checks.

## 1. Inventory

Paths are relative to `src/pkg/iperf/`.

| Part | Code | State | Operations | Interacts through |
|---|---|---|---|---|
| IperfTest and shared API | `iperf.go`, `iperf_api.go` | `state`, `done`, `streams`, `ctrlChan` (5), `chStats` (1), `timer`, tickers, counters | `setSendState`, exchange of parameters and results, `closeAllStreams`, statistics and report callbacks | fields read and written by every goroutine |
| Client | `iperf_client.go` | `testEndNum`, the structure | `runClient`, `handleClientCtrlMsg`, `createStreams`, `clientEnd`, timers | control connection, `ctrlChan` |
| Server | `iperf_server.go` | the structure, reset in place for each client; `ctrlDone` | `runServer`, `handleServerCtrlMsg`, timers | control connection, `ctrlChan`, `ctrlDone` |
| Streams | `iperf_api.go:602-687` | connection, counters, `canSend` | `iperfSend`, `iperfRecv` | data connection; `test.done`; `TEST_END` on `ctrlChan` |
| Timers, tickers | `timer.go` | a goroutine, a `done` channel and a count each | `timerCreate`, `tickerCreate` | callbacks on the structure, statistics and reports through `chStats` |
| Data connections | `iperf_tcp.go`, `iperf_rudp.go`, `iperf_kcp.go` | listener, sockets, deadlines | `listen`, `accept`, `connect`, `send`, `recv`, `init` | TCP uses the control listener; the others bind a port per session |
| Statistics, throttle | `iperf_api.go`, `statsCallback` of each protocol | byte counters, interval results, `canSend` | `checkThrottle`, `iperfStatsCallback` | written by streams, reset by callbacks |
| Results exchange | `iperf_api.go:220-351` | per-stream results | `sendResults`, `getResults` | JSON, matched by index |
| Command line, printing, logger | `iperf_api.go`, `logger.go`, `cmd/main.go` | settings | `ParseArguments`, `Print` | - |

What is hard about it:

* **Concurrency.** Main goroutine, control handler, two goroutines per timer
  and ticker set, and one per stream share `state`, `done`, `streams`.
  `setSendState` assigns `test.state`, reads it again to queue it, and only then
  writes it. A goroutine that empties `ctrlChan` also fills it.
* **Failure.** A client may die anywhere, and also just *finish* between queueing
  a state and writing it. The server must clean up and take the next client, in
  the same structure.
* **Ordering.** The control connection has no types: who reads next decides
  whether bytes are a state, parameters or results. Statistics and reports are
  paired by a channel of one place.
* **Time.** The server's duration timer is meant to be later than the client's by
  five seconds; nothing ties a timer to the session that made it. The rate of a
  stream is kept by the stream and a pacing ticker, each of which decides on an
  average it computed earlier.
* **Sharing.** Every stream adds to the counters of the test, callbacks reset the
  counters of an interval, and over TCP one listener serves control and data
  connections of all clients.

Correctness, per part: *server*: one handler at a time, everything of a session
released before the next, back to accept whatever the client does. *Client*:
`TEST_END` only after all streams, always an end. *Protocol*: each message read
by the goroutine that expects it, phases in order on both sides. *Streams*: each
returns. *Statistics*: a report follows its statistics, results are final when
sent, no byte is reported twice, and the figures shown are those told. *Data
connections*: a session gets the streams of its client, in order. *Command line*:
a test runs as asked, at the rate asked. `PROJECT.json` lists the hazards with
their lines.

## 2. Modules

| Module | Models |
|---|---|
| `IperfTest` | constants, the structure of both processes (every field a function of the side), channels, control connection, callbacks, `Init` |
| `IperfClient` | `runClient`, `handleClientCtrlMsg`, `clientEnd`, `clientTimerProc`, process exit and crash |
| `IperfServer` | `runServer`, `handleServerCtrlMsg`, `serverTimerProc`, crash |
| `IperfStream` | `iperfSend`, `iperfRecv`, the statistics and report tickers |
| `IperfSystem` | the composition: one server, clients one after the other; fairness; all properties; the refinement mapping |
| `TestPhases` | the abstract protocol: the phases of a test and who leads into each |
| `IperfAccept` | the server's listener and the connections of any number of clients at once: what `accept` finds, whose it is, what becomes of it |
| `IperfOptions` | `ParseArguments`, `sendParams`/`getParams`, the numbers the timers are made from, as operators |
| `IperfClock` | one process of a test against a clock: settings, `timer.go`, `checkThrottle`, the loop of `iperfSend` |
| `StreamCounters` | the counters of one process: `send`/`recv`, `iperfStatsCallback`, `statsCallback`, `sendResults`, `getResults`, each read and write of a shared counter a step of its own |
| `MCIperf`, `MCAccept`, `MCClock`, `MCCounters` | the instances TLC checks |
| `*_proofs` | theorems about `IperfSystem` (`IperfSystem_proofs`, `IperfConversation_proofs`, `IperfResults_proofs`, `IperfPhases_proofs`), `TestPhases`, `IperfAccept`, `IperfClock`, `StreamCounters` |

`IperfSystem` is the program as two processes exchange messages; the last four
each look closer at one thing it folds away: who is at the other end of an
accepted connection, where the parameters come from, what time does, and what is
counted. They share no state with it: `IperfSystem` has one client at a time
and its streams move blocks without a size.

How state and actions correspond to the code. `pc` gives each of the four
control goroutines a control point: a place where it can wait (channel, socket)
or where an interleaving matters. Everything between two of them is one action.
`SetSend`, `SendPush` and the `...Written`/`...NotWritten` actions are the three
parts of `setSendState`. `ctrlChan` is a bounded sequence, `chStats` a count of
tokens, `wire[s]` the messages that side `s` has not read yet. Each data
connection has two ends, with `sock`, `strm` (its goroutine) and the blocks in
flight. `timer[s, n]`, `left` and `busy` are per session `n`, because a
timer that nobody stopped runs on; `curTimer` is the session whose timers the
fields `test.timer`, `statsTicker` and `reportTicker` hold. `CtrlDoneUnchecked`,
`VerdictTooLate` and the other operators whose comment starts with "Mutant" are
deliberate bugs that no specification uses: each property has one that breaks it.

In `IperfAccept` a connection is `<<client, k>>`, `k` = 0 for control. The messages of a
session are folded: `told` and `said` count what the server has told a client and what
the client has said, in the fixed order that `Converses` proves. Each client has a phase
(`cpc`), the server a control point (`spc`). The TCP backlog is a sequence; what has
arrived at the UDP port of a session is a set, as streams of RUDP and KCP (`proto` is
"udp" for both) come in any order. A port that is bound already is an error over RUDP
(`ListenFails`) and the server's end over KCP (`ListenPanics`). What one session leaves to
the next is there: `token` (the statistics token), `timers` and `latest` (timers that were
not stopped, which act on the test as it is), `port`. The tests are without interval
reports, so the only token is that of the last statistics. The history variable `spoiled`
is set when the server is, or has been left, in a state in which it may fail its next
clients (`Spoils`). Clients are numbered in the order in which they connect.

In `IperfClock` time is a number. A command line whose numbers fit is followed through
the test; one that overflows a `Duration` without a panic ends in the phase "astray", of
which nothing is claimed. A ticker has a next tick and a `slot` for the one
tick its channel holds (a tick that finds it taken is dropped, as in `time.Ticker`).
The timer and the statistics goroutine may be `Late` by a bound; the stream and its
pacing ticker by any amount, and `behind` remembers that they were. Of each call of
`checkThrottle` the finding and the setting of `canSend` are two steps.

In `StreamCounters` the `+=` of a counter that several goroutines write is a read
(`tmp`) and a write; `cb` is the control point of a callback, of which the ticker's
and the last one may run at once. `credited`, `lapped`, `met` and `told` are history.

Abstractions. Parameters, results and states are messages; a length prefix and
its JSON are one message, a 4-byte state is read whole. The test ends by its
duration: no option of the program sets the end by bytes or by blocks, and
`-d 0` is left out (`IperfClock` has it). In `IperfStream` the pacing ticker and
`canSend` are a choice the sender makes at each turn (`Paced`).
A closed list of streams is closed as a whole: `closeAllStreams` stops at the first error, and all streams of a side are closed
together, so the error comes at the first or never. `CLIENT_TERMINATE` and
`SERVER_TERMINATE` are sent by nobody. The fields the goroutines share without a
lock are words that are read and written whole, in the order of the code. A panic
ends its process, as a crash does. The channel a `TEST_END` goes to is the one that is
there when it goes: a goroutine that is already blocked on the channel of the last session
stays there in the code, and in the model may also go on.

## 3. Runs

Bounds. `NumStreams` 2 is the least for which "all streams" differs from "a
stream"; where sessions or ticks multiply the states it is 1. `DataCap` 1 already
gives full and empty connections. `MaxSessions` 2 shows what a session does to
the next. `MaxTicks` 1 lets each ticker race the end of the test once. `CtrlCap`
is the program's 5, except in `restart`: two places and one stream are there what five
places and four streams are in the code, a queue that the streams of a session that was cut
short can fill up to the one state of the next session's own. `accept` has three clients: one in
the session, one that waits, and one that disturbs the wait. `clock` has a second of 12 units,
blocks of 3 or 4 bits, and 58 command lines: intervals that divide the second, do not, exceed
the test, or are 0; rates that are negative, 0, empty, fractions of a block per tick and above
a block per unit; a block, an interval and a duration above the bounds `MaxBlk` and `MaxDur`,
and blocks whose bits wrap. `MaxDur` and `MaxBlk` stand for the longest `time.Duration` and the
longest buffer; they need only be ordered as in the code, above the tests that run. `counters` has two streams with one block each and one tick: the least
where an update meets an update, a reset and the end; more blocks exceed TLC's reach,
and its invariants are proved for any number. `Word` stands for 2^64.

| Run | Instance | Shows |
|---|---|---|
| `forward` | TCP, 2 streams, 1 session | an undisturbed test: types, framing, deadlock, liveness, refinement of `TestPhases` |
| `reverse` | RUDP, 2 streams, server sends, paced | refinement and ends in the other direction; `ResultsFinal` |
| `faults` | TCP, 2 streams, crashes of either process, refusals, short reads | `Framing`, `OneHandler`, `ClientTerminates` (also when its streams fail and push no `TEST_END`), `ServerRecovers` |
| `restart` | RUDP, 2 sessions, a queue of 2, client crashes, refusals, short reads, deadlines, slow ends | the server between clients: `HandlerInv`, `QueuedIsSent`, `OwnShare` |
| `sessions` | TCP, 2 sessions, undisturbed, server sends | refinement and `OneHandler` with leftover timers |
| `ticks` | TCP, 1 tick of each ticker, refusals, short reads, deadlines, slow ends | `NoPanic`, and that the exchange of results comes to its report |
| `accept` | `IperfAccept`, 3 clients, 2 streams, TCP, RUDP and KCP, both directions | who is served, and that tests stay apart |
| `clock` | `IperfClock`, 58 command lines, client and server | settings, panics, intervals, rates |
| `counters` | `StreamCounters`, 2 streams, client and server, sender and receiver | what the counters say |

Deadlock is checked in `forward` and `reverse`. The others allow it: after a fault,
a lost token or a stale timer the program really may stop (section 4), and the
last three end when everything is over.

Properties of `IperfSystem`:

* `Framing` - the next message on the control connection is of the kind its
  reader expects, in every interleaving and after every fault.
* `OneHandler` / `HandlerInv` - no reset, accept or reading of parameters
  while a handler of the last client lives.
* `QueuedIsSent` - the second read of `test.state` in `setSendState` finds what
  the first assignment wrote. It holds because on either side the other
  goroutine is always waiting for the peer at that moment.
* `ResultsFinal` - the client sends results when none of its streams is left.
* `OwnShare` - a main goroutine is the sole reader of its `ctrlChan`. When it is about to
  push, one message there at most is a state of its session, and the rest, on the server,
  are `TEST_END`s of earlier sessions, one for each of their streams at most. That there
  *is* room is a sum: on the client always, on the server as section 4 says.
* `EndHeard` - when the server reads `TEST_END`, `test.done` is set at the client and all
  its streams have returned: what the server does then (sample, close, ask for results)
  disturbs nothing the client will tell.
* `NoPanic` - no report indexes an empty list of interval results.
* `ExchangeSafe` - from the token of its last statistics to the report that takes it, the
  server's handler meets no failing read or write.
* `InPhases` - the composition refines `TestPhases` under `PhaseOf`.
* `ClientTerminates`, `ServerReturns`, `ServerRecovers`, `StreamsEnd`.

Of `IperfAccept`: `OneTest` (tests do not overlap), `IndexMatches` (a TCP session
whose streams are all of its client has them in the client's order, which is what
the matching of results by index needs), `Served` (a client gets its test to the end unless
it dies or the server was disturbed before). `Served` names the disturbances the code does
not recover from, in `Spoils`, and claims service in every other case: a foreign connection, or
the death of the client, while streams are accepted; a death while the port is bound; a token
left by a client that was lost in the exchange of results, which the last statistics of the
next test wait for; a timer of an earlier session that ends a test which was not over. Over RUDP and KCP nothing keeps the order, and
results may be merged into the wrong streams; the properties do not claim it.

Of `IperfClock`: `TestAsAsked`, `PanicsOnlyIf` (of the settings modelled:
an empty `-b`, `-proto udp`, a block too large to be made, an interval of 0 or beyond a
`Duration`, a rate of more than a block in the least unit of time),
`OneResultPerInterval` (if the statistics goroutine is less than an interval late),
`NeverFaster` (at most two blocks above the rate, whatever the scheduling),
`NeverSlower` (at most two below, as long as the stream need not wait).

Of `StreamCounters`: `TotalWithinCredited`, `IntervalWithinBytes`,
`IntervalsAccount`, `RetransTelescopes`, `OwnCountKept`, `ToldWithinABlock`. The
first is one-sided on purpose: the total of the test *may* lose updates.
`IntervalsAccount` and `RetransTelescopes` name the races in which the code does
lose or repeat a share (`lapped`, `met`) and hold everywhere else.

`ServerRecovers` leaves out one wait: in `proto.accept`, which has no deadline,
the server stays for ever if the client dies before it has made all its
connections. It is checked over one session. Over two it does not hold, because
of the leftover token (section 4); `Served` is the property that says so.

Fairness. Weak fairness of each of the four control goroutines, each stream,
each timer and ticker: the Go scheduler runs what can run, timers go off, written
bytes arrive. No fairness is assumed of a client being started, of a fault, or of
one outcome of a step against another (a refused connection, a skipped turn).
In `IperfAccept` likewise of the server and of each client; that a test ends
(`Ends`) is assumed only when the server has accepted all of its streams and no timer has
closed them or ended its test: a stream that fails pushes no `TEST_END`, and the client then
waits for ever. Connecting, dying and the firing of a timer have no fairness.

Timing. `Margin` replaces time: the server's timer of the *running* session goes
off only when the client's has, and its streams have noticed (`ClientEnded`),
or when it is gone. That is what the five seconds of `createServerTimer` are for,
and it is an assumption, dropped by the fault `slow`. A timer of an *earlier*
session is not held back. `Late` in `IperfAccept` is the same assumption. `EndHeard` and every theorem hold without it.

## 4. Where code and comments disagree

Each is a run that violates one property (details in `PROJECT.json`).

| Run | Property | In short |
|---|---|---|
| `stale_timer` | `ClientEndsFirst` | the client exits after queueing `IPERF_DONE`, before writing it; the server never stops its timer, which ends the test of the next client |
| `listen_panics` | `ListenErrorReturned` | a failed `IPERF_CREATE_STREAM` skips the clean-up of the listener; with KCP, the port still bound is then a nil dereference |
| `token_stolen` | `TimerEndsTest` | a late report tick leaves its token; the client blocks before `TEST_END` |

Not runs of their own, but seen while modelling:

* When the exchange of results fails (`iperf_server.go:77`), which takes a killed client
  (`ExchangeCompletes`, section 5), the token of the last statistics stays in `chStats`, which
  the reset at `iperf_server.go:223-232` does not clear. The statistics at the end of the next test
  block, and its client waits for ever (`EndsTest` and `Spoils` in `IperfAccept`).
* The reset makes a new `ctrlChan`, but a stream of a session that was cut short pushes its
  `TEST_END` into whatever channel is there. With `-P 4` four of them and
  `IPERF_EXCHANGE_PARAMS` fill the five places, and the main goroutine blocks on
  `IPERF_CREATE_STREAM` for ever, as only it empties the channel. With one stream and the two
  places of `restart` the model reaches this; `OwnShare` is the sum it comes from.
* `-b ""` panics: the last byte of the string is its unit (`iperf_api.go:448`). So do a huge
  `-l`, when the stream's buffer is made (`iperf_api.go:71`), and a huge `-i`, whose
  nanoseconds overflow to a ticker of a negative period (`timer.go:46`). A server that is
  sent such a length or interval panics as well.
* A client that exits before it has written `IPERF_DONE` leaves the server's tickers
  running. The statistics ticker may then tick in the set-up of the next session, where it
  samples no stream and leaves a token, on which the report ticker prints streams that have
  no interval result yet, and indexes an empty slice (`iperf_api.go:746`). It takes
  two sessions and one tick of each, and no fault.
* RUDP and KCP set a deadline of one minute (`iperf_rudp.go:169`, `iperf_kcp.go:164`):
  the streams of a longer test fail without `TEST_END`, which the client awaits.
* `-b 0`, or a rate that does not parse, gives `burst` false and `rate` 0
  (`iperf_api.go:442-467`): the first check finds the stream above its rate and it
  stops for good, against the flag's default "0" for no limit and the comment at
  `iperf.go:160`.
* With `-d 0` the timer goes off at once. A sender goes on (its end asks for a
  duration), but `checkThrottle` returns when the test is done: no rate is kept.
* An interval longer than the duration is only logged (`iperf_api.go:514`), and
  `times-1` wraps: the ticker then has no bound of its own.
* A client that dies while the server awaits its TCP streams lets the next client's
  control connection become one of them (`Dies`, then `AcceptsStream` in
  `IperfAccept`), and so does a client that connects before the streams of another
  have all been dialed.
* The `SUM` line multiplies its bandwidth by 1000 (`iperf_api.go:894`), the lines of the
  streams do not (850).
* `tcp_linux.go:13` and `iperf_tcp.go:131` spell the function `save_tcpInfo` and
  `saveTCPInfo`; the model takes its result, the retransmissions, as external.
* The RUDP and KCP counters are of the process (`DefaultSnmp`): each stream's
  retransmissions are those of all streams.

Two hazards no property covers. While the server's main goroutine waits for the handler
nobody reads `ctrlChan`; the handler's last push blocks for ever if as many streams
as the channel has places push `TEST_END` in that window. And `proto.accept` has no
deadline: `ServerRecovers` and `Served` leave its wait out by name.

## 5. What is proved

Each theorem holds for every value of the constants that satisfies the assumption of
its module: any number of streams, clients, blocks, ticks, any set of command lines.

`IperfSystem` (`ParamsAssumption`: positive sizes, any protocol, direction and set of
faults; `SharedListenerAssumption`, that TCP sessions are not cut short when there are
several, is not used):

* `TypeCorrect`: `Spec => []TypeOK`. `TypeOK` is inductive as it stands. It
  includes bounds that are not shapes: `ctrlChan` within its capacity, one token
  at most, streams at most `NumStreams`, `ends` at most `NumStreams + 1` (the
  client leaves its loop rather than count further). The proof has a lemma per
  action and frame lemmas for the groups of fields an action leaves alone.
* `HandlerLives`: `Spec => []HandlerInv`, and from it `HandlerAlone`:
  `Spec => []OneHandler`. `OneHandler` is not inductive: the main
  goroutine leaves its loop on `ctrlDone`, so one must know that a handler that
  returned has closed the connection, and that none exists before the parameters
  are read. `HandlerInv` adds this. The actions of the client, the streams and the
  tickers leave the four fields it reads unchanged (`HandlerView`), those of the
  server are taken one by one.

* `Converses`: `Spec => []Conversation`, and from it `Framed`: `Spec => []Framing` and
  `QueuedAsSent`: `Spec => []QueuedIsSent`, with any set of faults. What either side says in a
  session is a fixed sequence of messages (`FromServer`, `FromClient`), which a
  session may cut short but never departs from. How much a side has said and heard
  (`SSent`, `SRecv`, `CSent`, `CRecv`) is a function of the control points of its two
  goroutines, the state they last set and what is in `ctrlChan`. The invariant (`Talk`)
  says that each inbox continues what its reader has heard, that what is heard and what
  is under way add up to what the peer has said, and whose turn it is (`ClientMax`,
  `ServerMax`: one may speak only after so many messages of the other). `Framing` alone is
  not inductive: the kind of the next message says nothing of the one after it. That
  `test.state` is not changed between the two reads of `setSendState` follows from the
  turns: main goroutine and handler never both lead (`ServerPart`, `ClientPart`).
* `EndsCounted`: `Spec => []Counting`, and from it `FinalResults`: `Spec => []ResultsFinal`.
  `ctrlChan` mixes `TEST_END`s of the streams with the states of both control
  goroutines, so `Counting` bounds ends counted, ends queued and streams
  running together by `NumStreams`, and has it that `TEST_RUNNING`, which starts the streams,
  is there once and before any of them. The counting uses the library's theorems on finite sets.
* `ClientReportsSafely`: `Spec => []ClientUnharmed`, the client's part of `NoPanic`, with
  any set of faults. From `Sampled`: a token of the client, taken or about to be put,
  stands for results of every stream, and before the streams are made nothing of the
  client's timers is there.
* `OwnRoom`: `Spec => []OwnShare`, with any set of faults, any number of streams and sessions
  and any capacity. A client pushes when all ends of its streams are counted, so at most an
  `IPERF_DONE` of its handler, that gives up, is queued (`GivesUp`). On the
  server stream goroutines of sessions that were cut short may still push a `TEST_END` each, so `Room` counts what is queued and the goroutines that live together (`Load`): at most
  the streams of the earlier sessions and one state of the main goroutine's own. `Share` has
  that the rest are `TEST_END`s: it takes each state of its own out before the next but one.
* `EndsHeard`: `Spec => EndHeard`, an action property, with any set of faults (`slow` too), any number
  of sessions and tickers. From `EndTold`: `TEST_END` is on its way only when the client's
  `test.done` is set and all its ends are counted (`Over`), which nothing takes back while it
  is. `Counting` makes of that that no stream is left. `Margin` is not used.
* `StaysTogether`: `Undisturbed => (Spec => []Known)`. `Undisturbed` says that `Faults` has
  none of `crash`, `refused` and `shortRead`, which let a server give a session up before
  its client is through; the server's death, deadlines and late timers and ends are allowed,
  and so is any number of sessions. On top of `Conversation` and `Counting`, `Known` has
  where each side is: `Together` (a connection closes, or a process ends, only
  when the client has reached `IPERF_DONE`, and then the server is at the end of the
  session too; until then the server has said no more than its state tells, `Said`), `Course`
  (where the client's streams run and are counted) and `LastEnd` (the client queues one
  `TEST_END` more than its streams and never counts so far that it leaves its loop).
* `PhasesRefined`: `Undisturbed => (Spec => InPhases)`, the program implements `TestPhases`,
  every step a step of the abstract protocol or a stutter. From `Known`.
* `ExchangeCompletes`: `"crash" \notin Faults => (Spec => []ExchangeSafe)`, with every fault but
  a killed client, with any tickers and any number of sessions. From `Stays`: a client that has
  told the server of its end keeps its connection until it is told to display; a refused
  connection ends it before, and a server that gives up closes its own end. The hypothesis is
  the hazard: a client killed in the exchange makes the handler return before its report.
* `NeverPanics`: `ServedSafely => (Spec => []NoPanic)`. The client's part is
  `ClientReportsSafely`. The server has one `chStats` for all its sessions, so `ServerSampled`
  distinguishes: with one session, any ticks and faults, a token stands for results of
  every stream, as on the client; with more, and no ticks, only the handler reports, and
  it has sampled every stream. A `listen` panics if the port is bound and the transport
  is KCP; it is not bound in the first session, nor where sessions are undisturbed.
  `ServedSafely` says just this: `MaxSessions = 1`, or `MaxTicks = 0` and, over KCP, `Undisturbed`.
  Outside of it the code does panic (`listen_panics`, and the tickers left running, section 4).

`TestPhases`: `InStep`, neither side is ahead of what it can know of the other.

`IperfAccept` (`AcceptAssumption`: a client and a stream at least, clients numbered):

* `TestsApart`: `Spec => []OneTest`. The strengthening, `OneTestInv`: a client that has
  been asked for its parameters, and is neither gone nor cut off, is the client of the
  session, and nobody gets into a test without having been asked.
* `StreamsInOrder`: `Spec => []IndexMatches`, from `OneTestInv` and `OrderInv`: the connections of a
  client stand in the backlog in the order they were made; while the streams of a
  session are all of its client, those that were dialed and are no longer there are
  exactly the streams, in order; and nothing of a client is there before it dials.

`StreamCounters` (`CountersAssumption`):

* `NoByteInvented` from `TotalInv` (the total a stream has read and not yet written back is
  at most what all have added), `IntervalsBounded` from `IntervalInv`.
* `NoByteTwice` from `AccountInv`: besides the sum itself, that a stream is sampled by
  one callback at a time. `SharesAddUp` from `RetransInv`:
  what a callback has read lies between the last stored total and the transport's,
  and there is only one callback.
* `CountsKept`, an action property, from the types and `Merged`'s direction.
  `DisplayedAsTold` from `ToldInv`: when results are told, a client's streams have all
  ended, a server's have their connections closed and at most one block in hand.

`IperfClock` (`OptionsAssumption`, `ClockAssumption`):

* `RunAsAsked` and `PanicsKnown`, `Spec => []PanicsOnlyIf`, from `AskedInv`: what the settings are
  in each phase, and that those of a test that runs fit a `Duration`.
* `RateKept`: `Spec => []NeverFaster`, from `RateInv`: the stream's debt at each control
  point, and that a stale finding of either goroutine lets at most one more block pass.
* `RateReached`: `Spec => []NeverSlower`, from `SlowInv`: what a stream may lack (`Lacking`) at each
  of its control points, measured at the last tick of its pacing ticker, and that each
  goroutine that is not behind has taken that tick.
* `ResultsPerInterval`: `Spec => []OneResultPerInterval`, from `CountInv`: a tick is taken before the
  next is due, so the ticker's next time tells how many there have been, and the test is not done
  before the last tick but one. The number of ticks is computed modulo the program's word; that a
  test that runs has a duration below it is in `AskedInv`.

Only model-checked: liveness under fairness, with its `ENABLED`, which is beyond the proof
system: `ClientTerminates`, `ServerReturns`, `ServerRecovers`, `StreamsEnd` and `Served`. Every
invariant and every action property that a passing run checks is the property of a
theorem. Three of the theorems need a hypothesis beyond the assumption of the module, without
which they are false of the code: `PhasesRefined` (`Undisturbed`), `ExchangeCompletes` (no killed
client) and `NeverPanics` (`ServedSafely`).

## 6. Not modelled

* Printing and its formats, the logger, and `test.go`, which nothing calls.
* The RUDP and KCP libraries, `tcp_info`, socket options: outside the repository or
  without effect on the state modelled here. Of `statsCallback` the retransmissions
  stand for the lost, early and fast counts, which are computed alike; the sums of
  RTT are only printed.
* Settings that are stored and passed on (`-p`, `-D`, `-sw`, ...), and the end of a test
  by bytes or blocks, which no option sets.
* `CLIENT_TERMINATE` and `SERVER_TERMINATE`, which nobody sends.
* More than one session in `StreamCounters` and `IperfClock`: a server resets the
  counters of the test for each client and makes new streams, so a session starts as
  their `Init` does; what timers of an earlier session do is in `IperfSystem`.
