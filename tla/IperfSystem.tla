----------------------------- MODULE IperfSystem -----------------------------
(* One server process and the client processes that connect to it one after   *)
(* the other: every interleaving of their goroutines, timers and tickers.     *)
EXTENDS IperfClient, IperfServer, IperfStream

\* A new client process, with a zero IperfTest, connects and the server accepts
\* it: ConnectServer and listener.Accept.  The server goes on to
\* setSendState(IPERF_EXCHANGE_PARAMS); the client starts its handler.
Connect ==
    /\ session < MaxSessions
    /\ pc["cMain"] = "exited" /\ pc["sMain"] = "accept"
    /\ session' = session + 1
    /\ state' = [client |-> "ZERO", server |-> "IPERF_EXCHANGE_PARAMS"]
    /\ arg' = [arg EXCEPT !["sMain"] = "IPERF_EXCHANGE_PARAMS"]
    /\ pc' = [pc EXCEPT !["cMain"] = "loop", !["cCtrl"] = "read", !["sMain"] = "push"]
    /\ done' = [done EXCEPT !["client"] = FALSE]
    /\ nstreams' = [nstreams EXCEPT !["client"] = 0]
    /\ wire' = [s \in Side |-> <<>>]
    /\ open' = [s \in Side |-> TRUE]
    /\ ends' = 0
    /\ UNCHANGED <<ctrlChan, statVars, sock, data, strm, timeVars, protoOpen, panicked>>

\* All clients have come and gone and the server waits for another, or is gone
\* too: the only states in which everything may rest.
Rest ==
    /\ pc["cMain"] = "exited"
    /\ \/ pc["sMain"] = "accept" /\ session = MaxSessions
       \/ pc["sMain"] = "exited"
    /\ UNCHANGED vars

Next ==
    \/ Connect
    \/ ClientMain \/ ClientCtrl \/ ClientCrash
    \/ ServerMain \/ ServerCtrl \/ ServerCrash
    \/ \E n \in Session : ClientTimer(n) \/ ServerTimer(n)
    \/ \E e \in End : Stream(e)
    \/ \E t \in Ticker : TickerStep(t)
    \/ Rest

\* The Go scheduler runs every goroutine that can run; timers go off; bytes that
\* were written arrive.  Clients need not come, and faults need not happen:
\* a refused connection or a short read is an outcome of a step that is taken.
Fairness ==
    /\ WF_vars(ClientMain)
    /\ WF_vars(ClientCtrl)
    /\ WF_vars(ServerMain)
    /\ WF_vars(ServerCtrl)
    /\ \A n \in Session : WF_vars(ClientTimer(n)) /\ WF_vars(ServerTimer(n))
    /\ \A e \in End : WF_vars(Stream(e))
    /\ \A t \in Ticker : WF_vars(TickerStep(t))

Spec == Init /\ [][Next]_vars
FairSpec == Spec /\ Fairness

-----------------------------------------------------------------------------
Label == {"exited", "accept", "reset", "push", "write", "getParams", "listen", "loop",
          "acceptStreams", "init", "waitCtrl", "waitReset", "read", "stats", "getResults",
          "sendResults", "report", "pushDone", "sendParams", "connect", "pushRunning",
          "clientEnd", "close", "endPush"}

\* Type invariant: every field has its type and its bound.
CtrlType ==
    /\ state \in [Side -> State] /\ done \in [Side -> BOOLEAN]
    /\ ctrlChan \in [Side -> Seq(State)] /\ \A s \in Side : Len(ctrlChan[s]) <= CtrlCap
    /\ pc \in [Goroutine -> Label] /\ arg \in [Goroutine -> State]
StatType == chStats \in [Side -> 0..1] /\ sampled \subseteq End
NetType  == wire \in [Side -> Seq(Message)] /\ open \in [Side -> BOOLEAN]
DataType ==
    /\ nstreams \in [Side -> 0..NumStreams]
    /\ sock \in [End -> BOOLEAN] /\ data \in [Flow -> 0..DataCap]
    /\ strm \in [End -> {"none", "io", "push"}]
TimeType ==
    /\ timer \in [Side \X Session -> {"off", "armed", "fired"}]
    /\ curTimer \in [Side -> 0..MaxSessions]
    /\ left \in [Ticker -> 0..MaxTicks] /\ busy \subseteq Ticker
TestType ==
    /\ session \in 0..MaxSessions /\ ends \in 0..(NumStreams + 1)
    /\ protoOpen \in BOOLEAN /\ panicked \subseteq Side
TypeOK == CtrlType /\ StatType /\ NetType /\ DataType /\ TimeType /\ TestType

\* Framing.  The control connection carries no types: 4 bytes read by a handler
\* are a state, what getParams and getResults read is JSON.  The next message
\* is always of the kind the goroutine that will read it expects.
Framing ==
    /\ pc["sMain"] = "getParams" /\ CanRead("server") => Head(wire["server"]) = "PARAMS"
    /\ pc["sCtrl"] = "getResults" /\ CanRead("server") => Head(wire["server"]) = "RESULTS"
    /\ pc["cCtrl"] = "getResults" /\ CanRead("client") => Head(wire["client"]) = "RESULTS"
    /\ pc["sCtrl"] = "read" /\ CanRead("server") => Head(wire["server"]) \in State
    /\ pc["cCtrl"] = "read" /\ CanRead("client") => Head(wire["client"]) \in State

\* The main goroutine resets the test, and waits for a client, with no handler
\* of the last one left to write the fields, and its connection closed.
BetweenSessions == {"reset", "accept"}
OneHandler ==
    /\ pc["sMain"] \in BetweenSessions \cup {"getParams"} => pc["sCtrl"] = "exited"
    /\ pc["sMain"] \in BetweenSessions => ~open["server"]

\* OneHandler as an inductive invariant.  A handler exists from getParams on, and
\* whoever ends a session closes its connection: the handler when it returns, the
\* main goroutine before it goes to wait for the handler.
NoHandlerYet ==
    \/ pc["sMain"] \in BetweenSessions \cup {"getParams"}
    \/ pc["sMain"] \in {"push", "write"} /\ arg["sMain"] = "IPERF_EXCHANGE_PARAMS"
HandlerInv ==
    /\ NoHandlerYet => pc["sCtrl"] = "exited"
    /\ pc["sCtrl"] = "exited" /\ ~NoHandlerYet => ~open["server"]
    /\ pc["sMain"] \in BetweenSessions => ~open["server"]

\* setSendState puts test.state in ctrlChan after reading it again: no other
\* goroutine has changed it since, so what is queued is what is sent.
QueuedIsSent == \A g \in Goroutine : pc[g] = "push" => state[SideOf(g)] = arg[g]

\* sendResults of the client reads the counters of its streams when none of
\* their goroutines is left to change them.
ResultsFinal ==
    pc["cCtrl"] = "sendResults" => \A e \in Streams("client") : strm[e] = "none"

\* The goroutine that empties ctrlChan also fills it.  When it is about to, there is
\* at most one state of its own in the channel, or of its handler; the rest, on the
\* server, are TEST_ENDs of streams that outlived their sessions.
OneState(s) ==
    \A i, j \in DOMAIN ctrlChan[s] :
        ctrlChan[s][i] # "TEST_END" /\ ctrlChan[s][j] # "TEST_END" => i = j
OwnShare ==
    /\ \A g \in {"cMain", "sMain"} : pc[g] = "push" => OneState(SideOf(g))
    /\ pc["cMain"] = "push" => Len(ctrlChan["client"]) <= 1
    /\ pc["sMain"] = "push" => Len(ctrlChan["server"]) <= NumStreams * (session - 1) + 1

\* A report is printed only after statistics exist for every stream: indexing
\* the last of no interval results would end the process.
NoPanic == panicked = {}

\* proto.listen hands a port it cannot bind to runServer as an error, which logs
\* it, waits for the handler and takes the next client: it never ends the server.
ListenErrorReturned ==
    [][pc["sMain"] = "listen" /\ pc'["sMain"] # "listen" => panicked' = panicked]_vars

\* The server ends a test of a connected client only after the client did.
ClientEndsFirst ==
    [][~done["server"] /\ done'["server"] /\ open["client"] => done["client"]]_vars

\* The server takes the client's word for the end of a test, and samples, closes and
\* asks for results, only when test.done is set at the client and each of its streams
\* has returned: nothing the client will tell of them can change.
EndHeard ==
    [][pc["sCtrl"] = "read" /\ pc'["sCtrl"] = "stats"
           => done["client"] /\ \A e \in Streams("client") : strm[e] = "none"]_vars

\* The handler of the server from the token of its last statistics to the report that
\* takes it.  No read or write fails on that way, so the report is reached: a client
\* that is not killed stays until it is told to display its results.
OnTheWay ==
    \/ pc["sCtrl"] \in {"getResults", "sendResults", "report"}
    \/ /\ pc["sCtrl"] \in {"push", "write"}
       /\ arg["sCtrl"] \in {"IPERF_EXCHANGE_RESULT", "IPERF_DISPLAY_RESULT"}
ExchangeSafe ==
    OnTheWay /\ pc["sCtrl"] # "report" => ~ReadErr("server") /\ ~WriteErr("server")

\* A client that is started comes to its end.
ClientTerminates == pc["cMain"] # "exited" ~> pc["cMain"] = "exited"

\* The server, once it has accepted a client, comes back to accept another.
ServerReturns == pc["sMain"] # "accept" ~> pc["sMain"] \in {"accept", "exited"}

\* Once its client is gone the server comes back to accept another, save while
\* it waits in proto.accept for connections the client never made.
ServerRecovers ==
    pc["cMain"] = "exited" ~> pc["sMain"] \in {"accept", "exited", "acceptStreams"}

\* Every stream goroutine returns.
StreamsEnd == \A e \in End : strm[e] # "none" ~> strm[e] = "none"

\* When its duration is over a client stops sending or receiving, and tells the
\* server so (or is past that point, or has ended).
TimerEndsTest ==
    \A n \in Session : timer[<<"client", n>>] = "fired" ~>
        pc["cMain"] = "exited" \/ state["client"] \notin {"TEST_START", "TEST_RUNNING"}

-----------------------------------------------------------------------------
\* The phase of TestPhases a value of test.state stands for.
PhaseOf(st) ==
    CASE st = "IPERF_EXCHANGE_PARAMS" -> 1
      [] st = "IPERF_CREATE_STREAM"   -> 2
      [] st = "TEST_START"            -> 3
      [] st = "TEST_RUNNING"          -> 4
      [] st = "TEST_END"              -> 5
      [] st = "IPERF_EXCHANGE_RESULT" -> 6
      [] st = "IPERF_DISPLAY_RESULT"  -> 7
      [] st = "IPERF_DONE"            -> 8
      [] OTHER                        -> 0

Phases == INSTANCE TestPhases WITH client <- PhaseOf(state["client"]),
                                   server <- PhaseOf(state["server"])

\* Undisturbed, the two processes go through the phases of a test in step, and
\* each waits where it has to for what the other does.
InPhases == Phases!Spec
=============================================================================
