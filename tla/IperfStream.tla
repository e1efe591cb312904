----------------------------- MODULE IperfStream -----------------------------
(* The goroutines of a running test that have no say in the control protocol  *)
(* but share its fields: one iperfSend or iperfRecv per end of a data         *)
(* connection, and the statistics and report tickers.                         *)
EXTENDS IperfTest

Other(e)  == <<Peer(e[1]), e[2], e[3]>>
FlowOf(e) == <<e[2], e[3]>>

\* After a turn: a stream that finds test.done set goes to push TEST_END.
\* Mutant: the sign of the end is lost.
AfterTurnNoEnd(s) == "io"
AfterTurn(s) == IF done[s] THEN "push" ELSE "io"

\* A stream goroutine after its push returns.
\* Mutant: it goes back to its loop.
AfterPushLoops(s) == "io"
AfterPush(s) == "none"

Turn(e, blocks) ==
    /\ data' = [data EXCEPT ![FlowOf(e)] = blocks]
    /\ strm' = [strm EXCEPT ![e] = AfterTurn(e[1])]
    /\ UNCHANGED <<ctrlVars, statVars, netVars, nstreams, sock, timeVars, testVars>>

\* An error on the connection: the goroutine returns without a TEST_END.
Quit(e) ==
    /\ strm' = [strm EXCEPT ![e] = "none"]
    /\ UNCHANGED <<ctrlVars, statVars, netVars, nstreams, sock, data, timeVars, testVars>>

\* Only TCP tells one end that the other has closed.
PeerGone(e) == Proto = "tcp" /\ ~sock[Other(e)]

\* iperfSend: a write takes the place of a block in flight, or is lost on a peer
\* that is gone.  A paced sender may find canSend false: it writes nothing, and
\* does not notice that its connection is closed either.
StreamSends(e) ==
    /\ strm[e] = "io"
    /\ e[1] = Sender
    /\ \/ sock[e] /\ ~PeerGone(e) /\ data[FlowOf(e)] < DataCap /\ Turn(e, data[FlowOf(e)] + 1)
       \/ (Paced \/ (sock[e] /\ PeerGone(e))) /\ Turn(e, data[FlowOf(e)])

\* iperfRecv: a read returns a block.
StreamReceives(e) ==
    /\ strm[e] = "io"
    /\ e[1] # Sender
    /\ sock[e]
    /\ data[FlowOf(e)] > 0
    /\ Turn(e, data[FlowOf(e)] - 1)

\* The read or write returns an error: this end is closed, a TCP peer is gone
\* (and all it sent has been read), or the deadline has passed.
StreamFails(e) ==
    /\ strm[e] = "io"
    /\ \/ ~sock[e]
       \/ PeerGone(e) /\ (e[1] = Sender \/ data[FlowOf(e)] = 0)
       \/ "deadline" \in Faults
    /\ Quit(e)

StreamEnds(e) ==
    /\ strm[e] = "push"
    /\ Push(e[1], "TEST_END")
    /\ strm' = [strm EXCEPT ![e] = AfterPush(e[1])]
    /\ UNCHANGED <<state, done, pc, arg, statVars, netVars, nstreams, sock, data,
                   timeVars, testVars>>

Stream(e) == StreamSends(e) \/ StreamReceives(e) \/ StreamFails(e) \/ StreamEnds(e)

-----------------------------------------------------------------------------
\* A tick is counted whether its callback does something or returns at once
\* because the test is done.  The statistics callback samples the streams, then
\* waits to put its token; the report callback waits for a token first.
Tick(t) ==
    /\ left[t] > 0
    /\ t \notin busy
    /\ left' = [left EXCEPT ![t] = @ - 1]
    /\ IF done[t[1]]
         THEN UNCHANGED <<busy, sampled>>
         ELSE /\ busy' = busy \cup {t}
              /\ IF t[2] = "stats" THEN Sample(t[1]) ELSE UNCHANGED sampled
    /\ UNCHANGED <<ctrlVars, chStats, netVars, dataVars, timer, curTimer, testVars>>

StatsTickEnds(t) ==
    /\ t \in busy /\ t[2] = "stats"
    /\ PutToken(t[1])
    /\ busy' = busy \ {t}
    /\ UNCHANGED <<ctrlVars, sampled, netVars, dataVars, timer, curTimer, left, testVars>>

ReportTickEnds(t) ==
    /\ t \in busy /\ t[2] = "report"
    /\ CanReport(t[1])
    /\ IF PrintPanics(t[1])
         THEN Panic(t[1])
         ELSE /\ TakeToken(t[1])
              /\ busy' = busy \ {t}
              /\ UNCHANGED <<ctrlVars, sampled, netVars, dataVars, timer, curTimer, left, testVars>>

TickerStep(t) == Tick(t) \/ StatsTickEnds(t) \/ ReportTickEnds(t)
=============================================================================
