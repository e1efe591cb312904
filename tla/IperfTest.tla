------------------------------ MODULE IperfTest ------------------------------
(* The IperfTest structure of one iperf-go process and the part of the API    *)
(* client and server share: the states of the control protocol, ctrlChan,     *)
(* chStats, setSendState, the statistics and report callbacks, and the        *)
(* control connection.  Both processes are here: every field is a function of *)
(* the side.  IperfClient, IperfServer and IperfStream add the actions.       *)
EXTENDS Naturals, Sequences

CONSTANTS NumStreams,   \* test.streamNum, -P
          Reverse,      \* test.reverse, -R: the server sends
          Paced,        \* -b given: a sender may skip a turn (canSend false)
          Proto,        \* -proto
          CtrlCap,      \* capacity of ctrlChan: make(chan uint, 5)
          DataCap,      \* bound: blocks a data connection holds in flight
          MaxTicks,     \* times - 1 of the statistics and report tickers
          MaxSessions,  \* bound: client processes started, one at a time
          Faults        \* what may go wrong outside the two programs

\* "crash": the client process dies; "serverCrash": the server process dies;
\* "refused": a data connection cannot be made; "shortRead": one Read returns
\* only part of the parameters; "deadline": the I/O deadline of a data
\* connection passes during the test; "slow": the end of the test takes the
\* client longer than the 5 seconds the server allows for.
FaultKinds == {"crash", "serverCrash", "refused", "shortRead", "deadline", "slow"}

ASSUME ParamsAssumption ==
    /\ NumStreams \in Nat \ {0} /\ CtrlCap \in Nat \ {0} /\ DataCap \in Nat \ {0}
    /\ MaxTicks \in Nat /\ MaxSessions \in Nat \ {0}
    /\ Reverse \in BOOLEAN /\ Paced \in BOOLEAN
    /\ Proto \in {"tcp", "rudp", "kcp"}
    /\ Faults \subseteq FaultKinds

\* TCP data connections and the next control connection come in through one
\* listener.  A session cut short may leave connections of both kinds in its
\* backlog, which these modules do not mix.
ASSUME SharedListenerAssumption ==
    Proto = "tcp" /\ MaxSessions > 1 => Faults \subseteq {"deadline", "slow"}

Side      == {"client", "server"}
Session   == 1..MaxSessions
Index     == 1..NumStreams
Flow      == Session \X Index
End       == Side \X Session \X Index       \* one end of a data connection
Ticker    == Side \X {"stats", "report"} \X Session
Goroutine == {"cMain", "cCtrl", "sMain", "sCtrl"}

State == {"ZERO", "IPERF_START", "IPERF_EXCHANGE_PARAMS", "IPERF_CREATE_STREAM",
          "TEST_START", "TEST_RUNNING", "TEST_END", "IPERF_EXCHANGE_RESULT",
          "IPERF_DISPLAY_RESULT", "IPERF_DONE"}
Message == State \cup {"PARAMS", "RESULTS"}

Peer(s)   == IF s = "client" THEN "server" ELSE "client"
SideOf(g) == IF g \in {"cMain", "cCtrl"} THEN "client" ELSE "server"

\* setTestReverse: the side whose test.mode is IPERF_SENDER.
Sender == IF Reverse THEN "server" ELSE "client"

VARIABLES
    state,     \* test.state
    done,      \* test.done
    ctrlChan,  \* test.ctrlChan
    chStats,   \* test.chStats: number of tokens in the channel
    nstreams,  \* len(test.streams)
    sampled,   \* ends whose interval_results is not empty
    pc,        \* control point of the four control goroutines
    arg,       \* the argument of the setSendState in progress
    wire,      \* control bytes on their way to a side, as messages
    open,      \* ctrlConn is open at that side
    sock,      \* the data connection is open at that end
    data,      \* blocks in flight on a data connection
    strm,      \* stream goroutine of an end: "none", "io" or "push"
    timer,     \* duration timer: "off", "armed" or "fired"
    curTimer,  \* the session whose timers test.timer and the tickers are
    left,      \* ticks a ticker may still deliver
    busy,      \* tickers in the middle of their callback
    session,   \* number of client processes started
    ends,      \* testEndNum of runClient
    protoOpen, \* a protoListener other than the listener is open
    panicked   \* sides that died of a run-time panic

ctrlVars  == <<state, done, ctrlChan, pc, arg>>
statVars  == <<chStats, sampled>>
netVars   == <<wire, open>>
dataVars  == <<nstreams, sock, data, strm>>
timeVars  == <<timer, curTimer, left, busy>>
testVars  == <<session, ends, protoOpen, panicked>>
vars == <<ctrlVars, statVars, netVars, dataVars, timeVars, testVars>>

-----------------------------------------------------------------------------
\* test.streams of side s
Streams(s) == {e \in End : e[1] = s /\ e[2] = session /\ e[3] <= nstreams[s]}

Goto(g, label) == pc' = [pc EXCEPT ![g] = label]

\* A send on a buffered channel blocks while the buffer is full.
CanPush(s) == Len(ctrlChan[s]) < CtrlCap
Push(s, m) == CanPush(s) /\ ctrlChan' = [ctrlChan EXCEPT ![s] = Append(@, m)]
CanPop(s)  == ctrlChan[s] # <<>>
Pop(s)     == CanPop(s) /\ ctrlChan' = [ctrlChan EXCEPT ![s] = Tail(@)]

\* setSendState, up to the point where it has to wait for ctrlChan.
SetSend(g, m) ==
    /\ state' = [state EXCEPT ![SideOf(g)] = m]
    /\ arg' = [arg EXCEPT ![g] = m]
    /\ Goto(g, "push")

\* test.ctrlChan <- test.state: the field is read again, not the argument.
SendPush(g) ==
    /\ pc[g] = "push"
    /\ Push(SideOf(g), state[SideOf(g)])
    /\ Goto(g, "write")
    /\ UNCHANGED <<state, done, arg, statVars, netVars, dataVars, timeVars, testVars>>

-----------------------------------------------------------------------------
\* The control connection.  Bytes written to a peer that closed are lost, and
\* the write may or may not report it; what was sent before the peer closed can
\* still be read, then the reader sees the end.
WriteOk(s, m) ==
    /\ open[s]
    /\ wire' = IF open[Peer(s)] THEN [wire EXCEPT ![Peer(s)] = Append(@, m)] ELSE wire
WriteErr(s) == ~open[s] \/ ~open[Peer(s)]
CanRead(s)  == open[s] /\ wire[s] # <<>>
ReadErr(s)  == ~open[s] \/ (wire[s] = <<>> /\ ~open[Peer(s)])
Consume(s)  == wire' = [wire EXCEPT ![s] = Tail(@)]
CloseCtrl(s) == open' = [open EXCEPT ![s] = FALSE]

-----------------------------------------------------------------------------
\* iperfStatsCallback: one interval result per stream, then a token.
Sample(s)    == sampled' = sampled \cup Streams(s)
CanToken(s)  == chStats[s] < 1
PutToken(s)  == CanToken(s) /\ chStats' = [chStats EXCEPT ![s] = @ + 1]

\* iperfReporterCallback: waits for a token, and prints in three states.
\* Mutant: the report does not wait for the statistics.
ReportWithoutToken(s) == TRUE
CanReport(s) == chStats[s] > 0
Prints(s)    == state[s] \in {"TEST_RUNNING", "TEST_END", "IPERF_DISPLAY_RESULT"}
\* interval_results[len(...)-1] of a stream that has none: index out of range.
PrintPanics(s) == Prints(s) /\ ~(Streams(s) \subseteq sampled)
TakeToken(s) ==
    /\ CanReport(s)
    /\ chStats' = [chStats EXCEPT ![s] = IF @ > 0 THEN @ - 1 ELSE @]

\* closeAllStreams, and the loops of clientEnd and serverTimerProc.  Closing a
\* closed connection is an error that ends the loop; all streams of a side are
\* closed together, so it ends it where nothing is left to close.
CloseStreams(s) == sock' = [e \in End |-> sock[e] /\ e \notin Streams(s)]

\* The process of a side is over: its goroutines, timers and sockets go with it.
Gone(s) ==
    /\ pc' = [g \in Goroutine |-> IF SideOf(g) = s THEN "exited" ELSE pc[g]]
    /\ ctrlChan' = [ctrlChan EXCEPT ![s] = <<>>]
    /\ chStats' = [chStats EXCEPT ![s] = 0]
    /\ CloseCtrl(s)
    /\ wire' = [wire EXCEPT ![s] = <<>>]
    /\ sock' = [e \in End |-> sock[e] /\ e[1] # s]
    /\ strm' = [e \in End |-> IF e[1] = s THEN "none" ELSE strm[e]]
    /\ timer' = [t \in Side \X Session |-> IF t[1] = s THEN "off" ELSE timer[t]]
    /\ left' = [t \in Ticker |-> IF t[1] = s THEN 0 ELSE left[t]]
    /\ busy' = {t \in busy : t[1] # s}
    /\ protoOpen' = (protoOpen /\ s = "client")
    /\ UNCHANGED <<state, done, arg, sampled, nstreams, data, curTimer, session, ends>>
Exit(s)  == Gone(s) /\ panicked' = panicked
Panic(s) == Gone(s) /\ panicked' = panicked \cup {s}

\* createClientTimer, createServerTimer.
CreateTimer(s) ==
    /\ timer' = [timer EXCEPT ![<<s, session>>] = "armed"]
    /\ curTimer' = [curTimer EXCEPT ![s] = session]
    /\ left' = [t \in Ticker |-> IF t[1] = s /\ t[3] = session THEN MaxTicks ELSE left[t]]
    /\ busy' = busy

\* One "go sp.iperfSend" or "go sp.iperfRecv" per stream.
StartStreams(s) == strm' = [e \in End |-> IF e \in Streams(s) THEN "io" ELSE strm[e]]

-----------------------------------------------------------------------------
Init ==
    /\ state = [s \in Side |-> IF s = "server" THEN "IPERF_START" ELSE "ZERO"]
    /\ done = [s \in Side |-> FALSE]
    /\ ctrlChan = [s \in Side |-> <<>>]
    /\ chStats = [s \in Side |-> 0]
    /\ nstreams = [s \in Side |-> 0]
    /\ sampled = {}
    /\ pc = [g \in Goroutine |-> IF g = "sMain" THEN "accept" ELSE "exited"]
    /\ arg = [g \in Goroutine |-> "ZERO"]
    /\ wire = [s \in Side |-> <<>>]
    /\ open = [s \in Side |-> FALSE]
    /\ sock = [e \in End |-> FALSE]
    /\ data = [f \in Flow |-> 0]
    /\ strm = [e \in End |-> "none"]
    /\ timer = [t \in Side \X Session |-> "off"]
    /\ curTimer = [s \in Side |-> 0]
    /\ left = [t \in Ticker |-> 0]
    /\ busy = {}
    /\ session = 0
    /\ ends = 0
    /\ protoOpen = FALSE
    /\ panicked = {}
=============================================================================
