------------------------------ MODULE IperfClock ------------------------------
(* One process of a test against the clock: its settings, the timer and the   *)
(* tickers made from them (timer.go), and a stream that sends at a rate.  A   *)
(* ticker puts its tick in a slot of one; a tick that finds the slot taken is *)
(* dropped.  The goroutines that take the ticks may be late.                  *)
EXTENDS IperfOptions

CONSTANTS Options,  \* bound: the command lines
          Late      \* bound: how late the timer and statistics goroutines are

ASSUME ClockAssumption == Options \subseteq Option /\ Late \in Nat

Tickers == {"stats", "pace", "send"}
Verdict == {"none", "low", "high", "even"}

VARIABLES
    opt,       \* the command line of the client
    isServer,  \* the process is the server
    conf,      \* its settings
    phase,     \* "start", "params", "ready", "running", "ended"; "failed", "panicked"; "astray"
    now,       \* the time since TEST_START
    next,      \* when a ticker ticks again; 0: it does not
    slot,      \* the time of the tick in its channel; 0: none
    cnt,       \* cnt of the statistics ticker
    results,   \* interval results of a stream
    done,      \* test.done
    fired,     \* the timer has fired
    bits,      \* bytes_sent of the stream, in bits
    canSend,   \* canSend of the stream
    spc,       \* control point of iperfSend: "wait", "write", "check", "apply", "ended"
    seen,      \* what checkThrottle has found: of the stream, of its pacing ticker
    behind     \* history: time has passed with a goroutine of the stream not waiting

setup    == <<opt, isServer, conf>>
testVars == <<cnt, results, done, fired>>
sendVars == <<bits, canSend, spc, seen>>
vars     == <<setup, phase, now, next, slot, testVars, sendVars, behind>>

Sending == conf.mode = "SENDER"

-----------------------------------------------------------------------------
\* main: ParseArguments, then RunTest whatever it returned.  With arguments that
\* were refused the client dials no address, and fails; an empty -b is a panic.
\* The server is not reached.
Parses ==
    /\ phase = "start"
    /\ phase' = CASE Refused(opt) -> "failed"
                  [] ~Refused(opt) /\ EmptyRate(opt) -> IF isServer THEN "failed" ELSE "panicked"
                  [] OTHER -> "params"
    /\ UNCHANGED <<setup, now, next, slot, testVars, sendVars, behind>>

\* sendParams, which calls a method of test.proto, and getParams.
Exchanges ==
    /\ phase = "params"
    /\ LET asked == Parsed(opt) IN
           IF asked.proto = "nil"
           THEN phase' = (IF isServer THEN "failed" ELSE "panicked") /\ UNCHANGED conf
           ELSE phase' = "ready" /\ conf' = IF isServer THEN Received(conf, asked) ELSE asked
    /\ UNCHANGED <<opt, isServer, now, next, slot, testVars, sendVars, behind>>

\* The period of a ticker; 0 for a pacing ticker that createSenderTicker does not
\* make, or a stream that does not send.
Period(t) ==
    CASE t = "stats" -> conf.interval
      [] t = "pace"  -> IF Sending /\ conf.rate # 0 THEN conf.pacing ELSE 0
      [] t = "send"  -> IF Sending THEN SendInterval(conf) ELSE 0

\* createSenderTicker fails.
TickerFails == Sending /\ conf.rate # 0 /\ (conf.pacing = 0 \/ conf.burst)

\* newStream makes a buffer, createClientTimer or createServerTimer divides by the
\* interval, and NewTicker takes a positive one: all of them may panic.
Unfit == conf.blksize > MaxBlk \/ conf.interval = 0
\* A Duration that overflows may be negative, or stand for another time.  (That of
\* a send interval does not: a rate that is not 0 is thousands of bits at least.)
Overflows == conf.interval > MaxDur \/ Due(isServer, conf) > MaxDur

\* The streams, the timer and the tickers are made, and the stream started.  What
\* a test does by other times than those asked for is not modelled.
Starts ==
    /\ phase = "ready"
    /\ \/ /\ Unfit \/ conf.interval > MaxDur
          /\ phase' = "panicked"
       \/ /\ ~Unfit /\ Overflows
          /\ phase' = "astray"
       \/ /\ ~Unfit /\ ~Overflows
          /\ phase' = CASE TickerFails -> "failed"
                       [] ~TickerFails /\ Sending /\ SendInterval(conf) = 0 -> "panicked"
                       [] OTHER -> "running"
    /\ next' = IF phase' = "running" THEN [t \in Tickers |-> Period(t)] ELSE next
    /\ UNCHANGED <<setup, now, slot, testVars, sendVars, behind>>

-----------------------------------------------------------------------------
\* The clock.  The timer and the statistics ticker are served within Late; the
\* stream may wait for the network as long as it likes.
Prompt ==
    /\ slot["stats"] = 0 \/ now < slot["stats"] + Late
    /\ fired \/ now < Due(isServer, conf) + Late
\* Bound: the clock of the model stops when all is over.
Horizon == Due(TRUE, conf) + Late
Ticks ==
    /\ phase = "running" /\ Prompt
    /\ now < Horizon
    /\ now' = now + 1
    /\ next' = [t \in Tickers |-> IF next[t] = now' THEN now' + Period(t) ELSE next[t]]
    /\ slot' = [t \in Tickers |-> IF next[t] = now' /\ slot[t] = 0 THEN now' ELSE slot[t]]
    /\ behind' = (behind \/ spc \notin {"wait", "ended"} \/ seen["pace"] # "none"
                         \/ slot["pace"] # 0 \/ slot["send"] # 0)
    /\ UNCHANGED <<setup, phase, testVars, sendVars>>

Take(t) == phase = "running" /\ slot[t] # 0 /\ slot' = [slot EXCEPT ![t] = 0]

\* The goroutine of the statistics ticker: after max_times ticks it returns.
StatsTick ==
    /\ Take("stats")
    /\ IF cnt >= MaxTimes(conf)
         THEN next' = [next EXCEPT !["stats"] = 0] /\ UNCHANGED <<cnt, results>>
         ELSE /\ cnt' = cnt + 1
              /\ results' = IF done THEN results ELSE results + 1
              /\ UNCHANGED next
    /\ UNCHANGED <<setup, phase, now, done, fired, sendVars, behind>>

\* clientTimerProc, serverTimerProc.
TimerFires ==
    /\ phase = "running" /\ ~fired /\ now >= Due(isServer, conf)
    /\ fired' = TRUE /\ done' = TRUE
    /\ UNCHANGED <<setup, phase, now, next, slot, cnt, results, sendVars, behind>>

\* The last statistics: of a client when its streams have ended, of a server at
\* the client's TEST_END.
Ends ==
    /\ phase = "running"
    /\ IF isServer THEN now >= Due(FALSE, conf) ELSE done /\ (Sending => spc = "ended")
    /\ phase' = "ended"
    /\ done' = TRUE
    /\ results' = results + 1
    /\ UNCHANGED <<setup, now, next, slot, cnt, fired, sendVars, behind>>

-----------------------------------------------------------------------------
\* checkThrottle, called by g at time t: the average is found first, canSend is
\* looked at and set after.
Judge(t) ==
    CASE bits * Second < conf.rate * t -> "low"
      [] bits * Second > conf.rate * t -> "high"
      [] OTHER -> "even"
Finds(g, t) == seen' = [seen EXCEPT ![g] = IF done THEN "even" ELSE Judge(t)]
\* Mutant: canSend is only ever cleared.
AppliesHigh(g) ==
    /\ canSend' = (canSend /\ seen[g] # "high")
    /\ seen' = [seen EXCEPT ![g] = "none"]
Applies(g) ==
    /\ canSend' = CASE seen[g] = "low" -> TRUE [] seen[g] = "high" -> FALSE [] OTHER -> canSend
    /\ seen' = [seen EXCEPT ![g] = "none"]

\* sendTickerProc; now is the time of the tick.
PaceFinds ==
    /\ seen["pace"] = "none"
    /\ Take("pace")
    /\ Finds("pace", slot["pace"])
    /\ UNCHANGED <<setup, phase, now, next, testVars, bits, canSend, spc, behind>>
PaceApplies ==
    /\ phase = "running" /\ seen["pace"] # "none"
    /\ Applies("pace")
    /\ UNCHANGED <<setup, phase, now, next, slot, testVars, bits, spc, behind>>

\* The loop of iperfSend.
SendTick ==
    /\ spc = "wait"
    /\ Take("send")
    /\ spc' = IF canSend THEN "write" ELSE "check"
    /\ UNCHANGED <<setup, phase, now, next, testVars, bits, canSend, seen, behind>>
Writes ==
    /\ phase = "running" /\ spc = "write"
    /\ bits' = bits + conf.blksize
    /\ spc' = "check"
    /\ UNCHANGED <<setup, phase, now, next, slot, testVars, canSend, seen, behind>>
EndOfTurn == IF done /\ conf.duration # 0 THEN "ended" ELSE "wait"
\* Mutant: the stream leaves the check to its pacing ticker.
ChecksNothing ==
    /\ phase = "running" /\ spc = "check"
    /\ spc' = EndOfTurn
    /\ UNCHANGED <<setup, phase, now, next, slot, testVars, bits, canSend, seen, behind>>
Checks ==
    /\ phase = "running" /\ spc = "check"
    /\ IF conf.burst THEN spc' = EndOfTurn /\ UNCHANGED seen
                     ELSE spc' = "apply" /\ Finds("send", now)
    /\ UNCHANGED <<setup, phase, now, next, slot, testVars, bits, canSend, behind>>
SendApplies ==
    /\ phase = "running" /\ spc = "apply"
    /\ Applies("send")
    /\ spc' = EndOfTurn
    /\ UNCHANGED <<setup, phase, now, next, slot, testVars, bits, behind>>

-----------------------------------------------------------------------------
\* A server has the settings of any last test, or none.
Init ==
    /\ opt \in Options /\ isServer \in BOOLEAN
    /\ conf \in {[Parsed(o) EXCEPT !.mode = Mode(isServer, o.R)] : o \in Options}
    /\ phase = "start" /\ now = 0
    /\ next = [t \in Tickers |-> 0] /\ slot = [t \in Tickers |-> 0]
    /\ cnt = 0 /\ results = 0 /\ done = FALSE /\ fired = FALSE
    /\ bits = 0 /\ canSend = TRUE /\ spc = "wait"
    /\ seen = [g \in {"send", "pace"} |-> "none"]
    /\ behind = FALSE

Next ==
    \/ Parses \/ Exchanges \/ Starts
    \/ Ticks \/ StatsTick \/ TimerFires \/ Ends
    \/ PaceFinds \/ PaceApplies \/ SendTick \/ Writes \/ Checks \/ SendApplies

Spec == Init /\ [][Next]_vars

-----------------------------------------------------------------------------
\* Type invariant.
Settings == [proto : Protocols \cup {"nil"}, mode : {"SENDER", "RECEIVER"}, reverse : BOOLEAN,
             blksize : Nat, burst : BOOLEAN, rate : Nat, pacing : Nat, interval : Nat, duration : Nat]
TypeOK ==
    /\ opt \in Options /\ isServer \in BOOLEAN /\ conf \in Settings
    /\ phase \in {"start", "params", "ready", "running", "ended", "failed", "panicked", "astray"}
    /\ now \in Nat /\ next \in [Tickers -> Nat] /\ slot \in [Tickers -> 0..now]
    /\ cnt \in Nat /\ results \in Nat /\ done \in BOOLEAN /\ fired \in BOOLEAN
    /\ bits \in Nat /\ canSend \in BOOLEAN
    /\ spc \in {"wait", "write", "check", "apply", "ended"}
    /\ seen \in [{"send", "pace"} -> Verdict] /\ behind \in BOOLEAN

\* A test runs with the settings of the client's command line, on the server as
\* on the client, whatever the last test was.
TestAsAsked ==
    phase \in {"running", "ended"} =>
        /\ conf.proto = opt.proto /\ conf.duration = opt.d /\ conf.interval = opt.i
        /\ conf.burst = ~opt.hasB /\ (opt.hasB => conf.rate = opt.b % Word)
        /\ opt.hasL => conf.blksize = opt.l
        /\ Sending <=> (isServer = opt.R)

\* Of the settings that are modelled, these end a process in a panic, and no
\* other: an empty rate; a protocol that is listed and not there; a block that
\* cannot be allocated; an interval of 0, or of more than a Duration holds; a rate
\* of more than a block (in bits, modulo Word) in the least unit of time.
PanicsOnlyIf ==
    phase = "panicked" =>
        \/ EmptyRate(opt)
        \/ opt.proto = "udp"
        \/ conf.blksize > MaxBlk
        \/ opt.i = 0 \/ opt.i > MaxDur
        \/ opt.hasB /\ (opt.b % Word) > (conf.blksize * Second) % Word

\* A stream has as many interval results as the test has intervals: no tick is
\* lost, none is too many, and the last statistics stand for the last interval.
OneResultPerInterval ==
    /\ phase = "ended" /\ opt.i <= opt.d * Second /\ Late < opt.i => results = Times(conf)

\* A stream with a rate is never more than two blocks above it: one for the block
\* that takes it there, one for a check that is overtaken by another.  (A test of
\* duration 0 is done at once, and goes on without a check.)
NeverFaster ==
    ~conf.burst /\ conf.duration # 0 => bits * Second <= (conf.rate * now) + 2 * conf.blksize * Second

\* As long as it need not wait for the network or the scheduler, it is never more
\* than two blocks below.
NeverSlower ==
    phase = "running" /\ Sending /\ ~done /\ ~behind /\ ~conf.burst =>
        conf.rate * now <= (bits + 2 * conf.blksize) * Second
=============================================================================
