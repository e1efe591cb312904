----------------------------- MODULE IperfAccept -----------------------------
(* The connections of a server that several clients use at once.  Control     *)
(* connections come through one TCP listener.  The data connections of a TCP  *)
(* test come through the same one, and accept does not look at whose they are *)
(* or what they are for; RUDP and KCP have a port, bound for each session, at *)
(* which streams arrive in any order.  The messages inside a session are      *)
(* those of IperfSystem, here folded to the steps that dial, accept, close.   *)
(* The tests are without interval reports (-i is their -t: the tickers then   *)
(* deliver no tick, and what they do is IperfSystem's).                       *)
EXTENDS Naturals, Sequences

CONSTANTS Clients,      \* numbered in the order in which they connect
          NumStreams

ASSUME AcceptAssumption == Clients # {} /\ Clients \subseteq Nat /\ NumStreams \in Nat \ {0}

\* The control connection of a client is <<c, 0>>, its k-th data connection
\* <<c, k>>.
Conn == Clients \X (0..NumStreams)
Ctrl(c) == <<c, 0>>

VARIABLES
    proto,    \* "tcp", or "udp" for RUDP and KCP, of which each client has its own
    reverse,  \* the server sends
    backlog,  \* TCP connections made and not yet accepted, oldest first
    pending,  \* RUDP and KCP connections made and not yet accepted
    port,     \* the UDP port is bound by a protoListener
    spc,      \* control point of the server
    ctrl,     \* test.ctrlConn
    streams,  \* test.streams
    closed,   \* connections the server has closed
    told,     \* states the server has sent to a client, in their fixed order
    token,    \* chStats holds a token
    done,     \* test.done
    timers,   \* clients of whose sessions the timer is armed
    latest,   \* the client of whose session the timer is test.timer
    said,     \* messages a client has sent: parameters, TEST_END, results, IPERF_DONE
    cpc,      \* control point of a client
    dialed    \* data connections a client has made

\* History: the server was, or had been left, in a state in which it may fail
\* its next clients; see Spoils.
VARIABLE spoiled

testVars   == <<token, done, timers, latest>>
serverVars == <<port, spc, ctrl, streams, closed, told, testVars>>
clientVars == <<said, cpc, dialed>>
vars == <<proto, reverse, backlog, pending, serverVars, clientVars, spoiled>>

Phases == {"new", "connected", "sent", "dialing", "waiting", "running", "ending", "reporting"}
Over   == {"finished", "refused", "died"}
Gone(c) == cpc[c] \in Over    \* the process is gone, and its sockets with it
Client  == ctrl[1]            \* the client of the session

\* What proto.accept may find.
Arrived == IF proto = "tcp" THEN {backlog[i] : i \in DOMAIN backlog} ELSE pending
\* The connections of test.streams.
Taken == {streams[i] : i \in DOMAIN streams}

\* The server has accepted all the streams of a client, and no other.
Accepted(c) == Taken = {<<c, k>> : k \in 1..NumStreams}

\* The streams of a session are awaited while a connection of another client is
\* there to be accepted, or the client is gone; it is gone when its port is
\* bound; a client that was lost in the exchange of results has left the token;
\* the timer of an earlier session has ended a test that was not over.
Spoils ==
    \/ spc = "streams" /\ \E x \in Arrived : x[1] # Client
    \/ spc = "streams" /\ Gone(Client) /\ (proto = "tcp" => dialed[Client] < NumStreams)
    \/ spc = "listen" /\ Gone(Client) /\ proto # "tcp"
    \/ spc # "results" /\ token
    \/ spc \notin {"stats", "results", "ending"} /\ done /\ cpc[Client] # "ending"
Record == spoiled' = (spoiled \/ Spoils')

-----------------------------------------------------------------------------
\* A client: runClient and handleClientCtrlMsg, up to what reaches a socket.
Step(c, from, to) == cpc[c] = from /\ cpc' = [cpc EXCEPT ![c] = to]
Says(c, n)        == said' = [said EXCEPT ![c] = n]

\* ConnectServer.
Connects(c) ==
    /\ spc # "exited" /\ Step(c, "new", "connected")
    /\ \A d \in Clients : d < c => cpc[d] # "new"
    /\ backlog' = Append(backlog, Ctrl(c))
    /\ UNCHANGED <<proto, reverse, pending, serverVars, said, dialed>>

SendsParams(c) ==
    /\ told[c] >= 1 /\ Step(c, "connected", "sent")
    /\ Says(c, 1)
    /\ UNCHANGED <<proto, reverse, backlog, pending, serverVars, dialed>>

CreatesStreams(c) ==
    /\ told[c] >= 2 /\ Step(c, "sent", "dialing")
    /\ UNCHANGED <<proto, reverse, backlog, pending, serverVars, said, dialed>>

\* Mutant: one stream too many.
DialsTooMany(c) ==
    LET k == dialed[c] + 1 IN
    /\ k <= NumStreams + 1
    /\ Step(c, "dialing", IF k > NumStreams THEN "waiting" ELSE "dialing")
    /\ dialed' = [dialed EXCEPT ![c] = k]
    /\ IF proto = "tcp"
         THEN backlog' = Append(backlog, <<c, k>>) /\ UNCHANGED pending
         ELSE pending' = pending \cup {<<c, k>>} /\ UNCHANGED backlog
    /\ UNCHANGED <<proto, reverse, serverVars, said>>
\* proto.connect, for one stream after the other.
Dials(c) ==
    LET k == dialed[c] + 1 IN
    /\ k <= NumStreams
    /\ Step(c, "dialing", IF k = NumStreams THEN "waiting" ELSE "dialing")
    /\ dialed' = [dialed EXCEPT ![c] = k]
    /\ IF proto = "tcp"
         THEN backlog' = Append(backlog, <<c, k>>) /\ UNCHANGED pending
         ELSE pending' = pending \cup {<<c, k>>} /\ UNCHANGED backlog
    /\ UNCHANGED <<proto, reverse, serverVars, said>>

\* TEST_START and TEST_RUNNING.
Starts(c) ==
    /\ told[c] >= 3 /\ Step(c, "waiting", "running")
    /\ UNCHANGED <<proto, reverse, backlog, pending, serverVars, said, dialed>>

\* All streams have pushed TEST_END, and the client sends it.  A stream whose
\* connection the server did not accept, or has closed, may fail instead, and
\* then this never happens: see Fairness.
Ends(c) ==
    /\ Step(c, "running", "ending")
    /\ Says(c, 2)
    /\ UNCHANGED <<proto, reverse, backlog, pending, serverVars, dialed>>

\* sendResults.
SendsResults(c) ==
    /\ told[c] >= 4 /\ Step(c, "ending", "reporting")
    /\ Says(c, 3)
    /\ UNCHANGED <<proto, reverse, backlog, pending, serverVars, dialed>>

\* clientEnd.  The process may exit between the push of IPERF_DONE and its write.
Finishes(c) ==
    /\ told[c] >= 5 /\ Step(c, "reporting", "finished")
    /\ Says(c, 3) \/ Says(c, 4)
    /\ UNCHANGED <<proto, reverse, backlog, pending, serverVars, dialed>>

\* The control connection is closed, or is a stream of somebody else's test and
\* the server writes blocks to it, which no switch knows: the client exits.
Refused(c) ==
    /\ \/ Ctrl(c) \in closed
       \/ Ctrl(c) \in Taken /\ reverse /\ spc \in {"running", "stats"}
    /\ cpc[c] \notin Over \cup {"new"}
    /\ cpc' = [cpc EXCEPT ![c] = "refused"]
    /\ UNCHANGED <<proto, reverse, backlog, pending, serverVars, said, dialed>>

\* The process dies.  Its connections stay where they are.
Dies(c) ==
    /\ cpc[c] \notin Over \cup {"new"}
    /\ cpc' = [cpc EXCEPT ![c] = "died"]
    /\ UNCHANGED <<proto, reverse, backlog, pending, serverVars, said, dialed>>

Proceeds(c) ==
    \/ SendsParams(c) \/ CreatesStreams(c) \/ Dials(c) \/ Starts(c) \/ SendsResults(c)
    \/ Finishes(c) \/ Refused(c)
ClientStep(c) == Connects(c) \/ Proceeds(c) \/ Ends(c) \/ Dies(c)

-----------------------------------------------------------------------------
\* The server: runServer, with handleServerCtrlMsg where it decides what
\* runServer does.
Tells(n) == told' = [told EXCEPT ![Client] = n]

\* runServer starts over: its reset of the test, before it accepts again.
StartsOver == spc' = "accept" /\ streams' = <<>> /\ done' = FALSE

\* listener.Accept, and IPERF_EXCHANGE_PARAMS to whatever came.
AcceptsControl ==
    /\ spc = "accept" /\ spc' = "params"
    /\ backlog # <<>>
    /\ ctrl' = Head(backlog) /\ backlog' = Tail(backlog)
    /\ told' = IF ctrl'[2] = 0 THEN [told EXCEPT ![ctrl'[1]] = 1] ELSE told
    /\ UNCHANGED <<proto, reverse, pending, port, streams, closed, testVars, clientVars>>

\* getParams: a Read that decodes.  The handler is started.
ReadsParams ==
    /\ spc = "params" /\ spc' = "listen"
    /\ ctrl = Ctrl(Client) /\ said[Client] >= 1
    /\ UNCHANGED <<proto, reverse, backlog, pending, port, ctrl, streams, closed, told, testVars,
                   clientVars>>

\* The Read fails as the client is gone, or what it returns is a block of a
\* sender.  The connection is closed, and the server accepts the next.
ParamsFail ==
    /\ spc = "params" /\ StartsOver
    /\ \/ Gone(Client)
       \/ ctrl # Ctrl(Client) /\ ~reverse /\ cpc[Client] \in {"running", "ending", "reporting"}
    /\ closed' = closed \cup {ctrl}
    /\ UNCHANGED <<proto, reverse, backlog, pending, port, ctrl, told, token, timers, latest,
                   clientVars>>

\* proto.listen, then IPERF_CREATE_STREAM.
Listens ==
    /\ spc = "listen" /\ spc' = "create"
    /\ ~port
    /\ port' = (proto # "tcp")
    /\ Tells(2)
    /\ UNCHANGED <<proto, reverse, backlog, pending, ctrl, streams, closed, testVars, clientVars>>

\* The port is bound already, for an RUDP test; or the state cannot be written,
\* and the port that was bound is not closed.
ListenFails ==
    /\ spc = "listen" /\ StartsOver
    /\ port \/ Gone(Client)
    /\ port' = (proto # "tcp")
    /\ closed' = closed \cup {ctrl}
    /\ UNCHANGED <<proto, reverse, backlog, pending, ctrl, told, token, timers, latest, clientVars>>

\* The port is bound already, and kcpProto.listen calls a method of the listener
\* it did not get: the server panics, and its connections are gone with it.
ListenPanics ==
    /\ spc = "listen" /\ spc' = "exited"
    /\ port
    /\ closed' = Conn
    /\ UNCHANGED <<proto, reverse, backlog, pending, port, ctrl, streams, told, testVars,
                   clientVars>>

\* IPERF_CREATE_STREAM from ctrlChan.
Creates ==
    /\ spc = "create" /\ spc' = "streams"
    /\ UNCHANGED <<proto, reverse, backlog, pending, port, ctrl, streams, closed, told, testVars,
                   clientVars>>

\* proto.accept: whatever is first, or any that has arrived.
Takes(x) ==
    /\ x \in Arrived
    /\ IF proto = "tcp" THEN x = Head(backlog) /\ backlog' = Tail(backlog) /\ UNCHANGED pending
                        ELSE pending' = pending \ {x} /\ UNCHANGED backlog
    /\ UNCHANGED <<proto, reverse, port, ctrl, closed, told, testVars, clientVars>>
\* Mutant: the new stream is put before the others.
AcceptsFirst ==
    /\ spc = "streams"
    /\ \E x \in Conn : Takes(x) /\ streams' = <<x>> \o streams
    /\ spc' = IF Len(streams') = NumStreams THEN "start" ELSE "streams"
AcceptsStream ==
    /\ spc = "streams"
    /\ \E x \in Conn : Takes(x) /\ streams' = Append(streams, x)
    /\ spc' = IF Len(streams') = NumStreams THEN "start" ELSE "streams"

\* TEST_START, the timers, TEST_RUNNING.
StartsTest ==
    /\ spc = "start" /\ spc' = "running"
    /\ Tells(3)
    /\ timers' = timers \cup {Client} /\ latest' = Client
    /\ UNCHANGED <<proto, reverse, backlog, pending, port, ctrl, streams, closed, token, done,
                   clientVars>>

\* Timing: the timer of a session is 5 seconds longer than the test.
Late(c) == spc # "running" \/ c # Client \/ Gone(c) \/ cpc[c] = "ending" \/ ~Accepted(c)

\* serverTimerProc, of this session or of an earlier one.  It acts on the test
\* as it is now, and ends the goroutine of the timer the test has now.
TimerFires(c) ==
    /\ c \in timers /\ spc # "exited"
    /\ Late(c)
    /\ IF done THEN timers' = timers \ {c} /\ UNCHANGED <<done, closed>>
               ELSE /\ timers' = timers \ {c, latest}
                    /\ done' = TRUE
                    /\ closed' = closed \cup Taken
    /\ UNCHANGED <<proto, reverse, backlog, pending, port, spc, ctrl, streams, told, token, latest,
                   clientVars>>

\* TEST_END of the client: test.done, then the last statsCallback.
ReadsEnd ==
    /\ spc = "running" /\ spc' = "stats"
    /\ said[Client] >= 2
    /\ done' = TRUE
    /\ UNCHANGED <<proto, reverse, backlog, pending, port, ctrl, streams, closed, told, token,
                   timers, latest, clientVars>>

\* Its token; closeAllStreams; IPERF_EXCHANGE_RESULT.
EndsTest ==
    /\ spc = "stats" /\ spc' = "results"
    /\ ~token /\ token' = TRUE
    /\ closed' = closed \cup Taken
    /\ Tells(4)
    /\ UNCHANGED <<proto, reverse, backlog, pending, port, ctrl, streams, done, timers, latest,
                   clientVars>>

\* getResults, sendResults, IPERF_DISPLAY_RESULT; the report takes the token;
\* IPERF_DONE.
Reports ==
    /\ spc = "results" /\ spc' = "ending"
    /\ said[Client] >= 3
    /\ token' = FALSE
    /\ Tells(5)
    /\ UNCHANGED <<proto, reverse, backlog, pending, port, ctrl, streams, closed, done, timers,
                   latest, clientVars>>

\* IPERF_DONE, which stops the timer, or the end of the client's connection: the
\* handler returns.  The main goroutine sees it in its select, and when a write
\* fails, never while it accepts streams.  The clean-up closes the protoListener,
\* and what has arrived there is lost or comes again; the streams of a client
\* that was lost are dropped as they are, and the token stays.
Left == spc \in {"create", "start", "running", "results", "ending"}
\* Mutant: no clean-up.
LeavesListening ==
    /\ Left /\ StartsOver
    /\ Gone(Client)
    /\ timers' = IF said[Client] = 4 THEN timers \ {Client} ELSE timers
    /\ closed' = closed \cup {ctrl}
    /\ UNCHANGED <<proto, reverse, backlog, pending, port, ctrl, told, token, latest, clientVars>>
\* Mutant: runServer leaves its loop before the handler is done.
LeavesEarly ==
    /\ Left /\ StartsOver
    /\ Gone(Client) \/ spc = "ending"
    /\ timers' = IF said[Client] = 4 THEN timers \ {Client} ELSE timers
    /\ port' = FALSE /\ pending' \in SUBSET pending
    /\ closed' = closed
    /\ UNCHANGED <<proto, reverse, backlog, ctrl, told, token, latest, clientVars>>
Leaves ==
    /\ Left /\ StartsOver
    /\ Gone(Client)
    /\ timers' = IF said[Client] = 4 THEN timers \ {Client} ELSE timers
    /\ port' = FALSE /\ pending' \in SUBSET pending
    /\ closed' = closed \cup {ctrl}
    /\ UNCHANGED <<proto, reverse, backlog, ctrl, told, token, latest, clientVars>>

ServerStep ==
    \/ AcceptsControl \/ ReadsParams \/ ParamsFail \/ Listens \/ ListenFails \/ ListenPanics
    \/ Creates \/ AcceptsStream \/ StartsTest \/ ReadsEnd \/ EndsTest \/ Reports \/ Leaves

Init ==
    /\ proto \in {"tcp", "udp"} /\ reverse \in BOOLEAN
    /\ proto = "udp" => ~reverse      \* where no block is taken for a message
    /\ backlog = <<>> /\ pending = {} /\ port = FALSE
    /\ spc = "accept" /\ ctrl = Ctrl(CHOOSE c \in Clients : TRUE)    \* any: nil until accept
    /\ streams = <<>> /\ closed = {}
    /\ told = [c \in Clients |-> 0]
    /\ token = FALSE /\ done = FALSE
    /\ timers = {} /\ latest = Client    \* any: none yet
    /\ said = [c \in Clients |-> 0]
    /\ cpc = [c \in Clients |-> "new"]
    /\ dialed = [c \in Clients |-> 0]
    /\ spoiled = FALSE

Next ==
    /\ (\E c \in Clients : ClientStep(c) \/ TimerFires(c)) \/ ServerStep
    /\ Record

\* The scheduler runs what can run, and what is sent arrives.  Nobody need
\* connect or die, and no timer need fire.  A test ends if the server has
\* accepted all its streams, and nothing has closed them.
Fairness ==
    /\ WF_vars(ServerStep /\ Record)
    /\ \A c \in Clients :
           /\ WF_vars(Proceeds(c) /\ Record)
           /\ WF_vars(Ends(c) /\ Accepted(c) /\ Taken \cap closed = {} /\ ~done /\ Record)

Spec == Init /\ [][Next]_vars
FairSpec == Spec /\ Fairness

-----------------------------------------------------------------------------
\* Type invariant.
TypeOK ==
    /\ proto \in {"tcp", "udp"} /\ reverse \in BOOLEAN
    /\ backlog \in Seq(Conn) /\ pending \subseteq Conn /\ port \in BOOLEAN
    /\ spc \in {"accept", "params", "listen", "create", "streams", "start", "running", "stats",
               "results", "ending", "exited"}
    /\ ctrl \in Conn /\ streams \in Seq(Conn) /\ closed \subseteq Conn
    /\ told \in [Clients -> 0..5] /\ said \in [Clients -> 0..4]
    /\ token \in BOOLEAN /\ done \in BOOLEAN /\ timers \subseteq Clients /\ latest \in Clients
    /\ cpc \in [Clients -> Phases \cup Over] /\ dialed \in [Clients -> 0..NumStreams]
    /\ spoiled \in BOOLEAN

\* Tests do not overlap.  Of the clients that are past the exchange of
\* parameters, and are neither gone nor cut off by the server, there is one at
\* most: the one of the session.
InTest(c) ==
    /\ cpc[c] \in {"dialing", "waiting", "running", "ending", "reporting"}
    /\ Ctrl(c) \notin closed
OneTest == \A c \in Clients : InTest(c) => ctrl = Ctrl(c) /\ spc # "accept"

\* Results are matched by index.  Whatever other connections come through the
\* listener of a TCP test: if the streams of a session are all of its client,
\* then the server's i-th is the client's i-th.
IndexMatches ==
    proto = "tcp" /\ (\A i \in DOMAIN streams : streams[i][1] = Client)
        => \A i \in DOMAIN streams : streams[i] = <<Client, i>>

\* Every client that connects gets its test, to the end, unless it dies itself,
\* or the server was disturbed before: by a connection of another client, or the
\* death of its own, as it accepted streams; by a death as it bound the port; by
\* one in the exchange of results, which leaves the token the next client's last
\* statistics wait for; by the timer of an earlier session, which ended a test.
Served == \A c \in Clients :
    cpc[c] = "connected" ~> cpc[c] \in {"finished", "died"} \/ spoiled
=============================================================================
