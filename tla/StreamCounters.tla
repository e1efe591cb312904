---------------------------- MODULE StreamCounters ----------------------------
(* The counters of one iperf-go process during a test.  Each stream goroutine *)
(* counts the bytes it moves for the test, for the stream and for the current *)
(* interval; statistics callbacks read and reset the interval counters; at    *)
(* the end the results go to the peer, the peer's are merged in, and both are *)
(* displayed.  Nothing is locked: "x += n" is a read and a write, and other   *)
(* goroutines run in between.                                                 *)
EXTENDS Integers

CONSTANTS NumStreams,  \* test.streamNum
          Sizes,       \* what one Read or Write may return
          MaxBlocks,   \* bound: blocks a stream moves
          MaxTicks,    \* bound: statistics ticks
          MaxRetrans,  \* bound: segments the transport sends again
          Word         \* 2^64: uint arithmetic is modulo Word

ASSUME CountersAssumption ==
    /\ NumStreams \in Nat \ {0} /\ Sizes \subseteq Nat \ {0}
    /\ MaxBlocks \in Nat /\ MaxTicks \in Nat /\ MaxRetrans \in Nat
    /\ Word \in Nat /\ Word > MaxRetrans

Index     == 1..NumStreams
Direction == {"sent", "received"}
Caller    == {"tick", "final"}    \* goroutines that run iperfStatsCallback

VARIABLES
    isServer,  \* test.isServer
    mode,      \* test.mode: "SENDER" or "RECEIVER"
    state,     \* test.state: "RUNNING", "END" or "DISPLAY"
    done,      \* test.done
    total,     \* test.bytesSent or test.bytesReceived, the one the mode counts
    bytes,     \* bytes_sent and bytes_received of a stream
    interval,  \* bytes_sent_this_interval and bytes_received_this_interval
    moved,     \* blocks a stream has moved (bounds the model)
    pc,        \* control point of a stream goroutine
    got,       \* what its last Read or Write returned
    tmp,       \* the counter it has read and is about to write
    open,      \* the data connections are open
    retrans,   \* RetransSegs of the transport: one count for the process
    prev,      \* stream_prev_total_retrans
    again,     \* stream_retrans
    ticks,     \* statistics ticks so far
    cb,        \* a callback: control point, stream, and what it has read
    reported,  \* sum of bytes_transfered over interval_results
    results    \* the exchange of results: the steps that are done

\* History, read by the properties only.
VARIABLES
    credited,  \* what total would be had every += been atomic
    lapped,    \* streams whose interval counter was updated and sampled at once
    met,       \* two callbacks have been active at once
    told       \* the bytes of each stream as they were sent to the peer

streamVars == <<total, bytes, interval, moved, pc, got, tmp>>
statVars   == <<prev, again, cb, reported>>
testVars   == <<isServer, mode, state, done, open, retrans, ticks, results>>
history    == <<credited, lapped, met, told>>
vars       == <<streamVars, statVars, testVars, history>>

\* The direction this process counts, and the one its peer reports.
Own  == IF mode = "SENDER" THEN "sent" ELSE "received"
Peer == IF mode = "SENDER" THEN "received" ELSE "sent"

At(label, i) == [at |-> label, i |-> i, total |-> 0, delta |-> 0]
Idle        == At("idle", 1)
Active(c)   == cb[c].at # "idle"
\* A callback has taken the interval counter of stream i and not reset it yet.
Sampling(i) == \E c \in Caller : cb[c].at = "reset" /\ cb[c].i = i

-----------------------------------------------------------------------------
\* A stream goroutine: iperfSend or iperfRecv with the send or recv of its
\* protocol.  A receiver counts what it reads only while the test is running.
CountsState == mode = "SENDER" \/ state = "RUNNING"
Moves(i) ==
    /\ pc[i] = "io" /\ open /\ moved[i] < MaxBlocks
    /\ \E m \in Sizes : got' = [got EXCEPT ![i] = m]
    /\ moved' = [moved EXCEPT ![i] = @ + 1]
    /\ pc' = [pc EXCEPT ![i] = IF CountsState THEN "count" ELSE "test"]
    /\ UNCHANGED <<total, bytes, interval, tmp, statVars, testVars, history>>

\* bytes_sent += n, and the read of bytes_sent_this_interval += n.
Counts(i) ==
    /\ pc[i] = "count"
    /\ bytes' = [bytes EXCEPT ![i][Own] = @ + got[i]]
    /\ tmp' = [tmp EXCEPT ![i] = interval[i][Own]]
    /\ pc' = [pc EXCEPT ![i] = "interval"]
    /\ lapped' = IF Sampling(i) THEN lapped \cup {i} ELSE lapped
    /\ UNCHANGED <<total, interval, moved, got, statVars, testVars, credited, met, told>>

\* Mutant: it adds to the count of the stream, not of the interval.
CountsIntervalStale(i) ==
    /\ pc[i] = "interval"
    /\ interval' = [interval EXCEPT ![i][Own] = bytes[i][Own] + got[i]]
    /\ pc' = [pc EXCEPT ![i] = "test"]
    /\ UNCHANGED <<total, bytes, moved, got, tmp, statVars, testVars, history>>
\* Its write.
CountsInterval(i) ==
    /\ pc[i] = "interval"
    /\ interval' = [interval EXCEPT ![i][Own] = tmp[i] + got[i]]
    /\ pc' = [pc EXCEPT ![i] = "test"]
    /\ UNCHANGED <<total, bytes, moved, got, tmp, statVars, testVars, history>>

\* The read of test.bytesSent += n; iperfRecv looks at test.state once more.
Reads(i) ==
    /\ pc[i] = "test"
    /\ tmp' = [tmp EXCEPT ![i] = total]
    /\ pc' = [pc EXCEPT ![i] = IF CountsState THEN "total" ELSE "turn"]
    /\ UNCHANGED <<total, bytes, interval, moved, got, statVars, testVars, history>>

\* Mutant: a short Write is counted as a whole buffer.
CountsWholeBuffer(i) ==
    /\ pc[i] = "total"
    /\ total' = tmp[i] + got[i] + 1
    /\ credited' = credited + got[i]
    /\ pc' = [pc EXCEPT ![i] = "turn"]
    /\ UNCHANGED <<bytes, interval, moved, got, tmp, statVars, testVars, lapped, met, told>>
\* Its write.
CountsTotal(i) ==
    /\ pc[i] = "total"
    /\ total' = tmp[i] + got[i]
    /\ credited' = credited + got[i]
    /\ tmp' = [tmp EXCEPT ![i] = 0]
    /\ pc' = [pc EXCEPT ![i] = "turn"]
    /\ UNCHANGED <<bytes, interval, moved, got, statVars, testVars, lapped, met, told>>

\* The end of a turn: TEST_END and return if the test is done, else the next.
Turns(i) ==
    /\ pc[i] = "turn"
    /\ pc' = [pc EXCEPT ![i] = IF done THEN "ended" ELSE "io"]
    /\ UNCHANGED <<total, bytes, interval, moved, got, tmp, statVars, testVars, history>>

\* Read or Write on a connection that was closed: the goroutine returns.
Fails(i) ==
    /\ pc[i] = "io" /\ ~open
    /\ pc' = [pc EXCEPT ![i] = "failed"]
    /\ UNCHANGED <<total, bytes, interval, moved, got, tmp, statVars, testVars, history>>

Stream(i) ==
    \/ Moves(i) \/ Counts(i) \/ CountsInterval(i) \/ Reads(i) \/ CountsTotal(i)
    \/ Turns(i) \/ Fails(i)

-----------------------------------------------------------------------------
\* iperfStatsCallback, and the statsCallback of the protocol, for one stream
\* after the other.
Goto(c, label) == cb' = [cb EXCEPT ![c] = At(label, cb[c].i)]
Enter(c) ==
    /\ ~Active(c)
    /\ cb' = [cb EXCEPT ![c] = At("retrans", 1)]
    /\ met' = (met \/ \E d \in Caller : Active(d))

\* clientStatsTickerProc, serverStatsTickerProc.
Ticks ==
    /\ ~done /\ ticks < MaxTicks
    /\ Enter("tick")
    /\ ticks' = ticks + 1
    /\ UNCHANGED <<streamVars, prev, again, reported, isServer, mode, state, done, open, retrans,
                   results, credited, lapped, told>>

\* The total is read first, the interval's share is what is new since the last
\* total of this stream, and then both are stored.
ReadsRetrans(c) ==
    /\ cb[c].at = "retrans"
    /\ cb' = [cb EXCEPT ![c].at = "delta", ![c].total = retrans]
    /\ UNCHANGED <<streamVars, prev, again, reported, testVars, history>>
\* Mutant: the subtraction is signed.
DeltaSigned(c) ==
    /\ cb[c].at = "delta"
    /\ cb' = [cb EXCEPT ![c].at = "apply", ![c].delta = cb[c].total - prev[cb[c].i]]
    /\ UNCHANGED <<streamVars, prev, again, reported, testVars, history>>
Delta(c) ==
    /\ cb[c].at = "delta"
    /\ cb' = [cb EXCEPT ![c].at = "apply", ![c].delta = (cb[c].total - prev[cb[c].i]) % Word]
    /\ UNCHANGED <<streamVars, prev, again, reported, testVars, history>>
\* Mutant: the previous total is not stored.
AppliesRetransOnly(c) ==
    /\ cb[c].at = "apply"
    /\ again' = [again EXCEPT ![cb[c].i] = (@ + cb[c].delta) % Word]
    /\ Goto(c, "bytes")
    /\ UNCHANGED <<streamVars, prev, reported, testVars, history>>
AppliesRetrans(c) ==
    /\ cb[c].at = "apply"
    /\ again' = [again EXCEPT ![cb[c].i] = (@ + cb[c].delta) % Word]
    /\ prev' = [prev EXCEPT ![cb[c].i] = cb[c].total]
    /\ Goto(c, "bytes")
    /\ UNCHANGED <<streamVars, reported, testVars, history>>

\* bytes_transfered is the counter of the mode; interval_results = append(...).
Samples(c) ==
    LET i == cb[c].i IN
    /\ cb[c].at = "bytes"
    /\ reported' = [reported EXCEPT ![i] = @ + interval[i][Own]]
    /\ lapped' = IF pc[i] = "interval" \/ Sampling(i) THEN lapped \cup {i} ELSE lapped
    /\ Goto(c, "reset")
    /\ UNCHANGED <<streamVars, prev, again, testVars, credited, met, told>>

NextStream(c) ==
    cb' = [cb EXCEPT ![c] = IF cb[c].i < NumStreams THEN At("retrans", cb[c].i + 1) ELSE Idle]
\* Mutant: the other direction's counter is zeroed only.
ResetsOther(c) ==
    /\ cb[c].at = "reset"
    /\ interval' = [interval EXCEPT ![cb[c].i][Peer] = 0]
    /\ NextStream(c)
    /\ UNCHANGED <<total, bytes, moved, pc, got, tmp, prev, again, reported, testVars, history>>
\* Both interval counters are zeroed; then the next stream.
Resets(c) ==
    /\ cb[c].at = "reset"
    /\ interval' = [interval EXCEPT ![cb[c].i] = [d \in Direction |-> 0]]
    /\ NextStream(c)
    /\ UNCHANGED <<total, bytes, moved, pc, got, tmp, prev, again, reported, testVars, history>>

Callback(c) == ReadsRetrans(c) \/ Delta(c) \/ AppliesRetrans(c) \/ Samples(c) \/ Resets(c)

-----------------------------------------------------------------------------
\* The end of the test.  A client's main goroutine has a TEST_END of every
\* stream; a server's handler has the client's TEST_END.
\* Mutant: the client's main goroutine is content with the first TEST_END.
FirstEnded == \E i \in Index : pc[i] = "ended"
AllEnded == \A i \in Index : pc[i] = "ended"
Ends ==
    /\ state = "RUNNING" /\ results = "none"
    /\ isServer \/ AllEnded
    /\ Enter("final")
    /\ done' = TRUE
    /\ state' = IF isServer THEN "END" ELSE state
    /\ results' = "stats"
    /\ UNCHANGED <<streamVars, prev, again, reported, isServer, mode, open, retrans, ticks,
                   credited, lapped, told>>

\* The callback is over: the server closes its streams, the client sends TEST_END.
Closes ==
    /\ results = "stats" /\ ~Active("final")
    /\ state' = "END"
    /\ open' = (open /\ ~isServer)
    /\ results' = "ready"
    /\ UNCHANGED <<streamVars, statVars, isServer, mode, done, retrans, ticks, history>>

\* sendResults: the bytes of the mode.  The client sends first.
SendsResults ==
    /\ results = IF isServer THEN "got" ELSE "ready"
    /\ told' = [i \in Index |-> bytes[i][Own]]
    /\ results' = IF isServer THEN "both" ELSE "sent"
    /\ UNCHANGED <<streamVars, statVars, isServer, mode, state, done, open, retrans, ticks,
                   credited, lapped, met>>

\* getResults: the peer's figures for the direction that this side does not
\* count, matched by index; a receiver takes the sender's retransmissions too.
\* Mutant: the roles are swapped.
MergedSwapped == Own
Merged == Peer
GetsResults ==
    /\ results = IF isServer THEN "ready" ELSE "sent"
    /\ \E b \in [Index -> {0} \cup Sizes], r \in 0..MaxRetrans :
           /\ bytes' = [i \in Index |-> [bytes[i] EXCEPT ![Merged] = b[i]]]
           /\ again' = IF mode = "RECEIVER" THEN [i \in Index |-> r] ELSE again
    /\ results' = IF isServer THEN "got" ELSE "both"
    /\ UNCHANGED <<total, interval, moved, pc, got, tmp, prev, cb, reported, isServer, mode,
                   state, done, open, retrans, ticks, history>>

\* IPERF_DISPLAY_RESULT: iperfPrintResults shows the bytes of the mode.  The
\* client has closed its streams before.
Displays ==
    /\ results = "both" /\ state = "END"
    /\ state' = "DISPLAY"
    /\ open' = FALSE
    /\ UNCHANGED <<streamVars, statVars, isServer, mode, done, retrans, ticks, results, history>>

\* clientTimerProc; serverTimerProc, which also closes the streams.
TimerFires ==
    /\ ~done
    /\ done' = TRUE
    /\ open' = (open /\ ~isServer)
    /\ UNCHANGED <<streamVars, statVars, isServer, mode, state, retrans, ticks, results, history>>

\* The transport sends a segment again.
Resends ==
    /\ retrans < MaxRetrans
    /\ retrans' = retrans + 1
    /\ UNCHANGED <<streamVars, statVars, isServer, mode, state, done, open, ticks, results, history>>

Test == Ticks \/ Ends \/ Closes \/ SendsResults \/ GetsResults \/ Displays \/ TimerFires \/ Resends

\* newStream, and the reset of the totals for a new client: all counters 0.
Init ==
    /\ isServer \in BOOLEAN /\ mode \in {"SENDER", "RECEIVER"}
    /\ state = "RUNNING" /\ done = FALSE /\ open = TRUE
    /\ total = 0
    /\ bytes = [i \in Index |-> [d \in Direction |-> 0]]
    /\ interval = [i \in Index |-> [d \in Direction |-> 0]]
    /\ moved = [i \in Index |-> 0]
    /\ pc = [i \in Index |-> "io"]
    /\ got = [i \in Index |-> 0] /\ tmp = [i \in Index |-> 0]
    /\ retrans = 0
    /\ prev = [i \in Index |-> 0] /\ again = [i \in Index |-> 0]
    /\ ticks = 0 /\ cb = [c \in Caller |-> Idle]
    /\ reported = [i \in Index |-> 0]
    /\ results = "none"
    /\ credited = 0 /\ lapped = {} /\ met = FALSE /\ told = [i \in Index |-> 0]

Next == (\E i \in Index : Stream(i)) \/ (\E c \in Caller : Callback(c)) \/ Test

Spec == Init /\ [][Next]_vars

-----------------------------------------------------------------------------
Counter == [Direction -> Nat]
\* Type invariant.
TypeOK ==
    /\ isServer \in BOOLEAN /\ mode \in {"SENDER", "RECEIVER"}
    /\ state \in {"RUNNING", "END", "DISPLAY"} /\ done \in BOOLEAN /\ open \in BOOLEAN
    /\ total \in Nat /\ bytes \in [Index -> Counter] /\ interval \in [Index -> Counter]
    /\ moved \in [Index -> Nat] /\ got \in [Index -> Nat] /\ tmp \in [Index -> Nat]
    /\ pc \in [Index -> {"io", "count", "interval", "test", "total", "turn", "ended", "failed"}]
    /\ retrans \in 0..MaxRetrans /\ ticks \in Nat
    /\ prev \in [Index -> 0..MaxRetrans] /\ again \in [Index -> Nat]
    /\ cb \in [Caller -> [at : {"idle", "retrans", "delta", "apply", "bytes", "reset"}, i : Index,
                          total : 0..MaxRetrans, delta : Nat]]
    /\ reported \in [Index -> Nat]
    /\ results \in {"none", "stats", "ready", "sent", "got", "both"}
    /\ credited \in Nat /\ lapped \subseteq Index /\ met \in BOOLEAN /\ told \in [Index -> Nat]

\* The total of the test is updated by all streams without a lock.  Updates may
\* be lost, but nothing is ever counted that no stream has moved: the total
\* stays within what the streams have added to it.
TotalWithinCredited == total <= credited

\* No interval is reported larger than what its stream has moved in all, however
\* the updates and the samples of its counter meet.
IntervalWithinBytes == \A i \in Index : interval[i][Own] <= bytes[i][Own]

\* The interval results add up.  As long as no callback and no update have met
\* on its interval counter, every byte of a stream is in exactly one interval
\* result, in the counter of the current interval, or in its goroutine's hands.
Pending(i) == IF pc[i] = "interval" THEN got[i] ELSE 0
IntervalsAccount ==
    \A i \in Index \ lapped :
        IF Sampling(i)
        THEN reported[i] = bytes[i][Own] /\ pc[i] # "interval"
        ELSE /\ reported[i] + interval[i][Own] + Pending(i) = bytes[i][Own]
             /\ pc[i] = "interval" => tmp[i] = interval[i][Own]

\* While callbacks do not overlap, stream_retrans is the total of the transport
\* at the last sample: the shares of the intervals never wrap below zero.  (A
\* receiver's is the peer's after the exchange.)
RetransTelescopes ==
    ~met => \A i \in Index :
        /\ prev[i] <= retrans
        /\ again[i] = prev[i] \/ (mode = "RECEIVER" /\ results \in {"got", "both"})

\* What a process has counted itself is never taken back or overwritten, not
\* even by the results of the peer.
OwnCountKept == [][\A i \in Index : bytes'[i][Own] >= bytes[i][Own]]_vars

\* A client displays what it told the server.  A server may still count the
\* block a stream had in hand when its connection was closed, no more.
Told == results = "both" \/ (results = "sent" /\ ~isServer)
ToldWithinABlock ==
    Told => \A i \in Index :
        /\ told[i] <= bytes[i][Own]
        /\ bytes[i][Own] <= told[i] + (IF isServer THEN got[i] ELSE 0)
=============================================================================
