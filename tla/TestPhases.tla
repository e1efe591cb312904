----------------------------- MODULE TestPhases -----------------------------
(* What the two processes promise each other: the phases of one undisturbed   *)
(* test, and who leads into each.  The server leads, the client follows; the  *)
(* client leads into the end of the test and ends itself.  This is the state  *)
(* diagram of the program without goroutines, channels or connections.        *)
EXTENDS Naturals

VARIABLES client, server    \* the phase each side is in

\* The values of test.state in the order a test goes through them.
Start == 0
Params == 1
Create == 2
TestStart == 3
TestRunning == 4
TestEnd == 5
Result == 6
Display == 7
Done == 8

Phase == Start..Done

Init == client = Start /\ server = Start

\* The server accepts a new client.
Connect ==
    /\ server = Start
    /\ server' = Params
    /\ client' = Start

\* What the server waits for before it leads into phase k: the parameters, the
\* data connections, the client's results; otherwise nothing.
ClientReady(k) == k \in {Create, TestStart, Display} => client = k - 1

ServerLeads ==
    /\ server \notin {Start, TestRunning, Done}
    /\ ClientReady(server + 1)
    /\ server' = server + 1
    /\ UNCHANGED client

ServerFollows ==
    /\ server = TestRunning /\ client = TestEnd
    /\ server' = TestEnd
    /\ UNCHANGED client

\* The client reads the state the server wrote; it may be two phases behind.
ClientFollows ==
    /\ client < server
    /\ client \notin {TestRunning, Display, Done}
    /\ client' = client + 1
    /\ UNCHANGED server

ClientLeads ==
    /\ client \in {TestRunning, Display}
    /\ client' = client + 1
    /\ UNCHANGED server

\* The server takes the next client when this one is done.
ServerResets ==
    /\ server = Done /\ client = Done
    /\ server' = Start
    /\ UNCHANGED client

Next == Connect \/ ServerLeads \/ ServerFollows \/ ClientFollows \/ ClientLeads
        \/ ServerResets

vars == <<client, server>>

Spec == Init /\ [][Next]_vars

-----------------------------------------------------------------------------
TypeOK == client \in Phase /\ server \in Phase

\* Neither side runs ahead of what the other can know: the client is behind by
\* the states the server sends without waiting, ahead by the end of the test or
\* its own end.
LockStep ==
    \/ server = Start
    \/ server \in {Params, Create, TestStart, Result} /\ client \in {server - 1, server}
    \/ server = TestRunning /\ client \in Create..TestEnd
    \/ server = TestEnd /\ client = TestEnd
    \/ server \in {Display, Done} /\ client \in Result..Done
=============================================================================
