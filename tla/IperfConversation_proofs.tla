---------------------- MODULE IperfConversation_proofs ----------------------
(* The control connection of every session carries one conversation, of which *)
(* each goroutine knows how far it has got by its control point: what Framing *)
(* and QueuedIsSent rest on, whatever dies, is refused or is late.            *)
EXTENDS IperfSystem_proofs

USE ParamsAssumption

USE DEF Side, Goroutine, SideOf, Peer, Goto, SetSend

\* What either side says in a session that nothing cuts short.
FromServer == <<"IPERF_EXCHANGE_PARAMS", "IPERF_CREATE_STREAM", "TEST_START", "TEST_RUNNING",
                "IPERF_EXCHANGE_RESULT", "RESULTS", "IPERF_DISPLAY_RESULT", "IPERF_DONE">>
FromClient == <<"PARAMS", "TEST_END", "RESULTS", "IPERF_DONE">>

\* q continues what was said, m, after its first k messages.
Follows(q, m, k) == \A i \in 1..Len(q) : q[i] = m[k + i]

\* m is in ctrlChan of s; it is there no more than once.
Queued(s, m) == \E i \in 1..Len(ctrlChan[s]) : ctrlChan[s][i] = m
Once(s, m) ==
    \A i, j \in 1..Len(ctrlChan[s]) : ctrlChan[s][i] = m /\ ctrlChan[s][j] = m => i = j

-----------------------------------------------------------------------------
\* Where the four goroutines stand.
SMain == pc["sMain"]
SCtrl == pc["sCtrl"]
CMain == pc["cMain"]
CCtrl == pc["cCtrl"]

\* The server.  Its main goroutine leads until TEST_RUNNING is sent, then its
\* handler; how much it has said and heard.
Creating == SMain = "loop" /\ Queued("server", "IPERF_CREATE_STREAM")
MainLeads == SMain \in {"push", "write", "getParams", "listen", "acceptStreams", "init"} \/ Creating

SSent ==
    CASE SMain \in {"push", "write"} ->
             (CASE arg["sMain"] = "IPERF_EXCHANGE_PARAMS" -> 0
                [] arg["sMain"] = "IPERF_CREATE_STREAM"   -> 1
                [] arg["sMain"] = "TEST_START"            -> 2
                [] OTHER                                  -> 3)
      [] SMain \in {"getParams", "listen"}      -> 1
      [] SMain = "acceptStreams" \/ Creating    -> 2
      [] SMain = "init"                         -> 3
      [] OTHER ->
         CASE SCtrl = "read" -> IF state["server"] = "IPERF_DONE" THEN 8 ELSE 4
           [] SCtrl = "stats" -> 4
           [] SCtrl \in {"push", "write"} ->
                  (CASE arg["sCtrl"] = "IPERF_EXCHANGE_RESULT" -> 4
                     [] arg["sCtrl"] = "IPERF_DISPLAY_RESULT"  -> 6
                     [] OTHER                                  -> 7)
           [] SCtrl \in {"getResults", "sendResults"} -> 5
           [] SCtrl = "report" -> 7
           [] OTHER -> 8
SRecv ==
    CASE NoHandlerYet -> 0
      [] ~NoHandlerYet /\ SCtrl = "read" -> IF state["server"] = "IPERF_DONE" THEN 3 ELSE 1
      [] ~NoHandlerYet /\ SCtrl \in {"stats", "getResults"} -> 2
      [] ~NoHandlerYet /\ SCtrl \in {"push", "write"} ->
             IF arg["sCtrl"] = "IPERF_EXCHANGE_RESULT" THEN 2 ELSE 3
      [] ~NoHandlerYet /\ SCtrl \in {"sendResults", "report"} -> 3
      [] OTHER -> 4

\* What the server's goroutines know of test.state, of ctrlChan and of each other.
ServerPart ==
    /\ SMain \in {"push", "write"} =>
           arg["sMain"] \in {"IPERF_EXCHANGE_PARAMS", "IPERF_CREATE_STREAM",
                            "TEST_START", "TEST_RUNNING"}
    /\ SCtrl \in {"push", "write"} =>
           /\ arg["sCtrl"] \in {"IPERF_EXCHANGE_RESULT", "IPERF_DISPLAY_RESULT", "IPERF_DONE"}
           /\ state["server"] = arg["sCtrl"]
    /\ SMain = "push" => state["server"] = arg["sMain"]
    /\ MainLeads => SCtrl \in {"read", "exited"} /\ state["server"] # "IPERF_DONE"
    /\ MainLeads \/ SMain = "accept" => ~Queued("server", "IPERF_DONE")
    /\ SCtrl \notin {"read", "exited"} => SMain \in {"loop", "waitCtrl", "waitReset"}
    /\ SMain \in {"accept", "push", "getParams", "listen", "acceptStreams", "init"}
       \/ (SMain = "write" /\ arg["sMain"] # "IPERF_CREATE_STREAM")
           => ~Queued("server", "IPERF_CREATE_STREAM")
    /\ SMain = "write" /\ arg["sMain"] = "IPERF_CREATE_STREAM"
           => Queued("server", "IPERF_CREATE_STREAM")
    /\ Once("server", "IPERF_CREATE_STREAM")
    /\ SMain = "waitReset" => ~open["server"]
    /\ SMain \in {"accept", "reset", "push", "write", "getParams", "listen", "loop",
                  "acceptStreams", "init", "waitCtrl", "waitReset", "exited"}
    /\ SMain = "exited" => SCtrl = "exited" /\ ~open["server"]
    /\ SCtrl \in {"exited", "read", "stats", "push", "write", "getResults", "sendResults",
                  "report", "pushDone"}

-----------------------------------------------------------------------------
\* The client.  Its handler is in the conversation until it has closed the
\* connection or given up; how much it has said and heard.
Live == CCtrl \notin {"endPush", "pushDone", "exited"}

CRecv ==
    CASE CCtrl = "read" ->
             (CASE state["client"] = "ZERO"                  -> 0
                [] state["client"] = "IPERF_EXCHANGE_PARAMS" -> 1
                [] state["client"] = "IPERF_CREATE_STREAM"   -> 2
                [] state["client"] = "TEST_START"            -> 3
                [] state["client"] = "IPERF_EXCHANGE_RESULT" -> 6
                [] OTHER                                     -> 4)
      [] CCtrl = "sendParams"                 -> 1
      [] CCtrl = "connect"                    -> 2
      [] CCtrl = "init"                       -> 3
      [] CCtrl = "pushRunning"                -> 4
      [] CCtrl \in {"sendResults", "getResults"} -> 5
      [] OTHER                                -> 7
CSent ==
    CASE CCtrl = "read" ->
             (CASE state["client"] = "ZERO"                  -> 0
                [] state["client"] = "IPERF_EXCHANGE_RESULT" -> 3
                [] state["client"] = "TEST_END" /\ CMain = "loop" -> 2
                [] OTHER                                     -> 1)
      [] CCtrl = "sendParams"                          -> 0
      [] CCtrl \in {"connect", "init", "pushRunning"}  -> 1
      [] CCtrl = "sendResults"                         -> 2
      [] CCtrl = "close"                               -> 4
      [] OTHER                                         -> 3

\* No stream of the client has been started, nor is about to be.
Running == {e \in End : e[1] = "client" /\ strm[e] # "none"}
NotRunning ==
    /\ ends = 0 /\ Running = {}
    /\ ~Queued("client", "TEST_RUNNING") /\ ~Queued("client", "TEST_END")
\* The handler before the streams start and after they have ended; the main
\* goroutine while it tells the server so.
Before ==
    \/ CCtrl \in {"sendParams", "connect", "init", "pushRunning"}
    \/ CCtrl = "read" /\ state["client"] \in {"ZERO", "IPERF_EXCHANGE_PARAMS",
                                             "IPERF_CREATE_STREAM", "TEST_START"}
After ==
    \/ CCtrl \in {"sendResults", "getResults", "clientEnd", "report", "push", "write",
                  "close", "endPush"}
    \/ CCtrl = "read" /\ state["client"] = "IPERF_EXCHANGE_RESULT"
Telling == CMain \in {"stats", "push", "write"}

\* What the client's goroutines know of test.state, of ctrlChan and of each other.
ClientPart ==
    /\ CCtrl = "sendParams" => state["client"] = "IPERF_EXCHANGE_PARAMS"
    /\ CCtrl = "connect" => state["client"] = "IPERF_CREATE_STREAM"
    /\ CCtrl = "init" => state["client"] = "TEST_START"
    /\ CCtrl = "pushRunning" => state["client"] = "TEST_RUNNING"
    /\ CCtrl \in {"sendResults", "getResults"} => state["client"] = "IPERF_EXCHANGE_RESULT"
    /\ CCtrl \in {"push", "write", "close", "endPush"} => state["client"] = "IPERF_DONE"
    /\ CCtrl \in {"push", "write"} => arg["cCtrl"] = "IPERF_DONE"
    /\ CCtrl = "read" =>
           state["client"] \in {"ZERO", "IPERF_EXCHANGE_PARAMS", "IPERF_CREATE_STREAM",
                               "TEST_START", "TEST_RUNNING", "TEST_END", "IPERF_EXCHANGE_RESULT"}
    /\ CCtrl = "read" /\ state["client"] = "TEST_END" => CMain # "stats"
    /\ CMain \in {"push", "write"} => arg["cMain"] = "TEST_END" /\ state["client"] = "TEST_END"
    /\ Before => NotRunning
    /\ Before \/ After => CMain = "loop"
    /\ After \/ Telling \/ (CCtrl = "read" /\ state["client"] = "TEST_END") => ends >= NumStreams
    /\ Telling => \/ CCtrl = "read" /\ wire["client"] = <<>>
                  \/ CCtrl \in {"pushDone", "exited"} /\ ~open["client"]
    /\ CCtrl \in {"pushDone", "exited"} /\ CMain = "loop" =>
           ~open["client"] \/ NotRunning \/ ends >= NumStreams
    /\ Live => open["client"]
    /\ CCtrl = "endPush" => ~open["client"]
    /\ CMain \in {"loop", "stats", "push", "write", "exited"}
    /\ CCtrl \in {"exited", "read", "sendParams", "connect", "init", "pushRunning",
                  "sendResults", "getResults", "clientEnd", "report", "push", "write",
                  "close", "endPush", "pushDone"}
    /\ CMain = "exited" =>
           CCtrl = "exited" /\ ctrlChan["client"] = <<>> /\ ~open["client"] /\ Running = {}

-----------------------------------------------------------------------------
\* How many messages the client can have sent when the server has sent n, and
\* the other way round.
ClientMax(n) ==
    IF n = 0 THEN 0 ELSE IF n < 4 THEN 1 ELSE IF n = 4 THEN 2 ELSE IF n < 7 THEN 3 ELSE 4
ServerMax(n) == IF n = 0 THEN 1 ELSE IF n = 1 THEN 4 ELSE IF n = 2 THEN 5 ELSE 8

\* What is on its way to a side is the next words of the other, and no more than
\* its turn allows; between two live sides nothing is lost and nothing is extra.
ServerInbox ==
    open["server"] =>
        /\ Follows(wire["server"], FromClient, SRecv)
        /\ SRecv + Len(wire["server"]) <= ClientMax(SSent)
ClientInbox ==
    Live =>
        /\ Follows(wire["client"], FromServer, CRecv)
        /\ CRecv + Len(wire["client"]) <= ServerMax(CSent)
Counts ==
    open["server"] /\ Live =>
        /\ SRecv + Len(wire["server"]) = CSent
        /\ CRecv + Len(wire["client"]) = SSent

Talk == ServerInbox /\ ClientInbox /\ Counts

Conversation == HandlerInv /\ ServerPart /\ ClientPart /\ Talk

-----------------------------------------------------------------------------
\* The words of the conversation, and the counts as numbers.
LEMMA Words ==
    /\ FromServer[1] = "IPERF_EXCHANGE_PARAMS" /\ FromServer[2] = "IPERF_CREATE_STREAM"
    /\ FromServer[3] = "TEST_START" /\ FromServer[4] = "TEST_RUNNING"
    /\ FromServer[5] = "IPERF_EXCHANGE_RESULT" /\ FromServer[6] = "RESULTS"
    /\ FromServer[7] = "IPERF_DISPLAY_RESULT" /\ FromServer[8] = "IPERF_DONE"
    /\ FromClient[1] = "PARAMS" /\ FromClient[2] = "TEST_END"
    /\ FromClient[3] = "RESULTS" /\ FromClient[4] = "IPERF_DONE"
  BY DEF FromServer, FromClient

LEMMA CountRange ==
    /\ SSent \in 0..8 /\ SRecv \in 0..4
    /\ CSent \in 0..4 /\ CRecv \in 0..7
  BY DEF SSent, SRecv, CSent, CRecv

LEMMA CountRangeNext ==
    /\ SSent' \in 0..8 /\ SRecv' \in 0..4
    /\ CSent' \in 0..4 /\ CRecv' \in 0..7
  BY DEF SSent, SRecv, CSent, CRecv

\* A message is taken from the front of what follows, or put at its end.
LEMMA ReadStep ==
    ASSUME TypeOK, NEW s \in Side, CanRead(s), Consume(s), NEW m, NEW k \in Nat,
           Follows(wire[s], m, k)
    PROVE  /\ Head(wire[s]) = m[k + 1]
           /\ Len(wire[s]) \in Nat \ {0}
           /\ Len(wire'[s]) = Len(wire[s]) - 1
           /\ Follows(wire'[s], m, k + 1)
           /\ wire'[Peer(s)] = wire[Peer(s)]
<1>1. wire[s] \in Seq(Message) /\ wire[s] # <<>>
  BY DEF TypeOK, NetType, CanRead
<1>2. wire'[s] = Tail(wire[s]) /\ wire'[Peer(s)] = wire[Peer(s)]
  BY DEF TypeOK, NetType, Consume
<1>3. Len(wire[s]) \in Nat \ {0} /\ Len(Tail(wire[s])) = Len(wire[s]) - 1
  BY <1>1
<1>4. Head(wire[s]) = m[k + 1]
  BY <1>1, <1>3 DEF Follows
<1>5. Follows(Tail(wire[s]), m, k + 1)
  <2> SUFFICES ASSUME NEW i \in 1..Len(Tail(wire[s])) PROVE Tail(wire[s])[i] = m[k + 1 + i]
    BY DEF Follows
  <2>1. Tail(wire[s])[i] = wire[s][i + 1] /\ i + 1 \in 1..Len(wire[s])
    BY <1>1, <1>3
  <2>2. wire[s][i + 1] = m[k + (i + 1)]
    BY <2>1 DEF Follows
  <2>3. QED
    BY <2>1, <2>2
<1>6. QED
  BY <1>2, <1>3, <1>4, <1>5

LEMMA WriteStep ==
    ASSUME TypeOK, NEW s \in Side, NEW x \in Message, WriteOk(s, x)
    PROVE  /\ open[s] /\ wire'[s] = wire[s]
           /\ ~open[Peer(s)] => wire' = wire
           /\ open[Peer(s)] =>
                /\ Len(wire'[Peer(s)]) = Len(wire[Peer(s)]) + 1
                /\ \A m : \A k \in Nat :
                       Follows(wire[Peer(s)], m, k) /\ x = m[k + Len(wire[Peer(s)]) + 1]
                       => Follows(wire'[Peer(s)], m, k)
<1>1. wire[Peer(s)] \in Seq(Message) /\ open[s] /\ wire'[s] = wire[s]
  BY DEF TypeOK, NetType, WriteOk
<1>2. CASE ~open[Peer(s)]
  BY <1>1, <1>2 DEF WriteOk
<1>3. CASE open[Peer(s)]
  <2>1. wire'[Peer(s)] = Append(wire[Peer(s)], x)
    BY <1>3 DEF TypeOK, NetType, WriteOk
  <2>2. Len(wire'[Peer(s)]) = Len(wire[Peer(s)]) + 1
    BY <1>1, <2>1
  <2>3. ASSUME NEW m, NEW k \in Nat, Follows(wire[Peer(s)], m, k),
               x = m[k + Len(wire[Peer(s)]) + 1]
        PROVE  Follows(wire'[Peer(s)], m, k)
    <3> SUFFICES ASSUME NEW i \in 1..Len(wire'[Peer(s)]) PROVE wire'[Peer(s)][i] = m[k + i]
      BY DEF Follows
    <3>1. CASE i = Len(wire[Peer(s)]) + 1
      <4>1. wire'[Peer(s)][i] = x
        BY <1>1, <2>1, <3>1
      <4>2. k + i = k + Len(wire[Peer(s)]) + 1
        BY <1>1, <3>1
      <4>3. QED
        BY <2>3, <4>1, <4>2
    <3>2. CASE i # Len(wire[Peer(s)]) + 1
      <4>1. i \in 1..Len(wire[Peer(s)])
        BY <1>1, <2>2, <3>2
      <4>2. QED
        BY <1>1, <2>1, <2>3, <4>1 DEF Follows
    <3>3. QED
      BY <3>1, <3>2
  <2>4. QED
    BY <1>1, <1>3, <2>2, <2>3
<1>4. QED
  BY <1>2, <1>3

-----------------------------------------------------------------------------
\* What the parts and the counts are made of; a step of one side leaves those
\* of the other alone.
ServerView == <<pc["sMain"], pc["sCtrl"], arg["sMain"], arg["sCtrl"], state["server"],
                ctrlChan["server"], open["server"]>>
ClientView == <<pc["cMain"], pc["cCtrl"], arg["cMain"], arg["cCtrl"], state["client"],
                ctrlChan["client"], open["client"], ends, Running>>

ServerSame == open'["server"] => open["server"] /\ SSent' = SSent /\ SRecv' = SRecv
ClientSame == Live' => Live /\ CSent' = CSent /\ CRecv' = CRecv

LEMMA ServerStays ==
    UNCHANGED ServerView => (ServerPart => ServerPart') /\ ServerSame
<1> SUFFICES ASSUME UNCHANGED ServerView PROVE (ServerPart => ServerPart') /\ ServerSame
  OBVIOUS
<1> USE DEF ServerView, SMain, SCtrl, Creating, MainLeads, Queued, Once, NoHandlerYet,
            BetweenSessions
<1>1. ServerPart => ServerPart'
  BY DEF ServerPart
<1>2. SSent' = SSent
  BY DEF SSent
<1>3. SRecv' = SRecv
  BY DEF SRecv
<1>4. QED
  BY <1>1, <1>2, <1>3 DEF ServerSame

LEMMA ClientStays ==
    /\ UNCHANGED ClientView => ClientSame
    /\ UNCHANGED ClientView /\ ClientPart
          /\ (UNCHANGED wire["client"] \/ ~(Telling /\ CCtrl = "read")) => ClientPart'
<1> USE DEF ClientView, CMain, CCtrl, Telling, Live
<1>1. UNCHANGED ClientView => ClientSame
  BY DEF ClientSame, CSent, CRecv
<1>2. UNCHANGED ClientView /\ ClientPart
          /\ (UNCHANGED wire["client"] \/ ~(Telling /\ CCtrl = "read")) => ClientPart'
  BY DEF ClientPart, Before, After, NotRunning, Queued
<1>3. QED
  BY <1>1, <1>2

-----------------------------------------------------------------------------
\* A step that neither reads nor writes, or that ends a side.
LEMMA Quiet ==
    /\ Talk /\ ServerSame /\ ClientSame
    /\ open'["server"] => UNCHANGED wire["server"]
    /\ Live' => UNCHANGED wire["client"]
    => Talk'
  BY DEF Talk, ServerSame, ClientSame, ServerInbox, ClientInbox, Counts, Follows

LEMMA ClientHears ==
    TypeOK /\ Talk /\ Live /\ CanRead("client") =>
        Head(wire["client"]) = FromServer[CRecv + 1] /\ CRecv < ServerMax(CSent)
<1> SUFFICES ASSUME TypeOK, Talk, Live, CanRead("client")
             PROVE  Head(wire["client"]) = FromServer[CRecv + 1] /\ CRecv < ServerMax(CSent)
  OBVIOUS
<1>1. wire["client"] \in Seq(Message) /\ wire["client"] # <<>>
  BY DEF TypeOK, NetType, CanRead
<1>2. Len(wire["client"]) \in Nat \ {0} /\ Head(wire["client"]) = wire["client"][1]
  BY <1>1
<1>3. Follows(wire["client"], FromServer, CRecv)
      /\ CRecv + Len(wire["client"]) <= ServerMax(CSent)
  BY DEF Talk, ClientInbox
<1>4. QED
  BY <1>2, <1>3, CountRange DEF Follows, ServerMax

LEMMA ServerHears ==
    TypeOK /\ Talk /\ CanRead("server") =>
        Head(wire["server"]) = FromClient[SRecv + 1] /\ SRecv < ClientMax(SSent)
<1> SUFFICES ASSUME TypeOK, Talk, CanRead("server")
             PROVE  Head(wire["server"]) = FromClient[SRecv + 1] /\ SRecv < ClientMax(SSent)
  OBVIOUS
<1>1. wire["server"] \in Seq(Message) /\ wire["server"] # <<>> /\ open["server"]
  BY DEF TypeOK, NetType, CanRead
<1>2. Len(wire["server"]) \in Nat \ {0} /\ Head(wire["server"]) = wire["server"][1]
  BY <1>1
<1>3. Follows(wire["server"], FromClient, SRecv)
      /\ SRecv + Len(wire["server"]) <= ClientMax(SSent)
  BY <1>1 DEF Talk, ServerInbox
<1>4. QED
  BY <1>2, <1>3, CountRange DEF Follows, ClientMax

LEMMA ClientTakes ==
    /\ TypeOK /\ Talk /\ ServerSame
    /\ Live /\ CanRead("client") /\ Consume("client")
    /\ Live' => CRecv' = CRecv + 1 /\ CSent' = CSent
    => Talk'
<1> SUFFICES ASSUME TypeOK, Talk, ServerSame, Live, CanRead("client"), Consume("client"),
                    Live' => CRecv' = CRecv + 1 /\ CSent' = CSent
             PROVE  Talk'
  OBVIOUS
<1>1. Follows(wire["client"], FromServer, CRecv)
      /\ CRecv + Len(wire["client"]) <= ServerMax(CSent)
  BY DEF Talk, ClientInbox
<1>2. /\ Len(wire["client"]) \in Nat \ {0}
      /\ Len(wire'["client"]) = Len(wire["client"]) - 1
      /\ Follows(wire'["client"], FromServer, CRecv + 1)
      /\ wire'["server"] = wire["server"]
  BY <1>1, ReadStep, CountRange
<1>3. ServerInbox'
  BY <1>2 DEF Talk, ServerSame, ServerInbox, Follows
<1>4. ClientInbox'
  <2> SUFFICES ASSUME Live' PROVE ClientInbox'
    BY DEF ClientInbox
  <2>1. (CRecv + Len(wire["client"]))' = CRecv + Len(wire["client"])
    BY <1>2, CountRange
  <2>2. Follows(wire["client"], FromServer, CRecv)'
    BY <1>2 DEF Follows
  <2>3. QED
    BY <1>1, <2>1, <2>2 DEF ClientInbox, ServerMax
<1>5. Counts'
  BY <1>2, CountRange DEF Talk, ServerSame, Counts
<1>6. QED
  BY <1>3, <1>4, <1>5 DEF Talk

LEMMA ClientSays ==
    ASSUME TypeOK, Talk, ServerSame, Live, Live', NEW x \in Message, WriteOk("client", x),
           x = FromClient[CSent + 1], CSent < ClientMax(CRecv),
           CSent' = CSent + 1, CRecv' = CRecv
    PROVE  Talk'
<1> USE CountRange
<1>1. wire'["client"] = wire["client"] /\ (~open["server"] => wire' = wire)
  BY WriteStep
<1>2. open["server"] => Len(wire'["server"]) = Len(wire["server"]) + 1
  BY WriteStep
<1>3. wire["server"] \in Seq(Message) /\ wire["client"] \in Seq(Message)
  BY DEF TypeOK, NetType
<1>4. open["server"] => SRecv + Len(wire["server"]) = CSent /\ CRecv <= SSent
  BY <1>3 DEF Talk, Counts
<1>5. ServerInbox'
  <2> SUFFICES ASSUME open'["server"] PROVE ServerInbox'
    BY DEF ServerInbox
  <2>1. open["server"] /\ SSent' = SSent /\ SRecv' = SRecv
    BY DEF ServerSame
  <2>2. /\ Follows(wire["server"], FromClient, SRecv)
        /\ x = FromClient[SRecv + Len(wire["server"]) + 1]
    BY <1>4, <2>1 DEF Talk, ServerInbox
  <2>3. Follows(wire'["server"], FromClient, SRecv)
    BY <2>1, <2>2, WriteStep
  <2>4. CSent + 1 <= ClientMax(SSent)
    BY <1>4, <2>1 DEF ClientMax
  <2>5. QED
    BY <1>2, <1>3, <1>4, <2>1, <2>3, <2>4 DEF ServerInbox, Follows, ClientMax
<1>6. ClientInbox'
  BY <1>1, <1>3 DEF Talk, ClientInbox, Follows, ServerMax
<1>7. Counts'
  BY <1>1, <1>2, <1>3, <1>4 DEF Talk, ServerSame, Counts
<1>8. QED
  BY <1>5, <1>6, <1>7 DEF Talk

LEMMA ServerTakes ==
    /\ TypeOK /\ Talk /\ ClientSame
    /\ CanRead("server") /\ Consume("server")
    /\ open'["server"] => SRecv' = SRecv + 1 /\ SSent' = SSent
    => Talk'
<1> SUFFICES ASSUME TypeOK, Talk, ClientSame, CanRead("server"), Consume("server"),
                    open'["server"] => SRecv' = SRecv + 1 /\ SSent' = SSent
             PROVE  Talk'
  OBVIOUS
<1>1. /\ open["server"] /\ Follows(wire["server"], FromClient, SRecv)
      /\ SRecv + Len(wire["server"]) <= ClientMax(SSent)
  BY DEF Talk, ServerInbox, CanRead
<1>2. /\ Len(wire["server"]) \in Nat \ {0}
      /\ Len(wire'["server"]) = Len(wire["server"]) - 1
      /\ Follows(wire'["server"], FromClient, SRecv + 1)
      /\ wire'["client"] = wire["client"]
  BY <1>1, ReadStep, CountRange
<1>3. ClientInbox'
  BY <1>2 DEF Talk, ClientSame, ClientInbox, Follows
<1>4. ServerInbox'
  <2> SUFFICES ASSUME open'["server"] PROVE ServerInbox'
    BY DEF ServerInbox
  <2>1. (SRecv + Len(wire["server"]))' = SRecv + Len(wire["server"])
    BY <1>2, CountRange
  <2>2. Follows(wire["server"], FromClient, SRecv)'
    BY <1>2 DEF Follows
  <2>3. QED
    BY <1>1, <2>1, <2>2 DEF ServerInbox, ClientMax
<1>5. Counts'
  BY <1>1, <1>2, CountRange DEF Talk, ClientSame, Counts
<1>6. QED
  BY <1>3, <1>4, <1>5 DEF Talk

LEMMA ServerSays ==
    ASSUME TypeOK, Talk, ClientSame, Live => open["client"],
            NEW x \in Message, WriteOk("server", x), x = FromServer[SSent + 1],
            SSent < ServerMax(SRecv),
           SSent' = SSent + 1, SRecv' = SRecv
    PROVE  Talk'
<1> USE CountRange
<1>1. wire'["server"] = wire["server"] /\ (~open["client"] => wire' = wire) /\ open["server"]
  BY WriteStep
<1>2. open["client"] => Len(wire'["client"]) = Len(wire["client"]) + 1
  BY WriteStep
<1>3. wire["server"] \in Seq(Message) /\ wire["client"] \in Seq(Message)
  BY DEF TypeOK, NetType
<1>4. Live => CRecv + Len(wire["client"]) = SSent /\ SRecv <= CSent
  BY <1>1, <1>3 DEF Talk, Counts
<1>5. ClientInbox'
  <2> SUFFICES ASSUME Live' PROVE ClientInbox'
    BY DEF ClientInbox
  <2>1. Live /\ open["client"] /\ CSent' = CSent /\ CRecv' = CRecv
    BY DEF ClientSame
  <2>2. /\ Follows(wire["client"], FromServer, CRecv)
        /\ x = FromServer[CRecv + Len(wire["client"]) + 1]
    BY <1>4, <2>1 DEF Talk, ClientInbox
  <2>3. Follows(wire'["client"], FromServer, CRecv)
    BY <2>1, <2>2, WriteStep
  <2>4. SSent + 1 <= ServerMax(CSent)
    BY <1>4, <2>1 DEF ServerMax
  <2>5. QED
    BY <1>2, <1>3, <1>4, <2>1, <2>3, <2>4 DEF ClientInbox, Follows, ServerMax
<1>6. ServerInbox'
  BY <1>1, <1>3 DEF Talk, ServerInbox, Follows, ClientMax
<1>7. Counts'
  BY <1>1, <1>2, <1>3, <1>4 DEF Talk, ClientSame, Counts
<1>8. QED
  BY <1>5, <1>6, <1>7 DEF Talk

-----------------------------------------------------------------------------
\* What a send and a receive on ctrlChan do to what is queued.
LEMMA PushStep ==
    ASSUME TypeOK, NEW s \in Side, NEW m \in State, Push(s, m)
    PROVE  /\ \A x : Queued(s, x)' <=> Queued(s, x) \/ x = m
           /\ \A x : x # m /\ Once(s, x) => Once(s, x)'
           /\ \A x : ~Queued(s, x) => Once(s, x)'
           /\ ctrlChan'[Peer(s)] = ctrlChan[Peer(s)]
<1>1. ctrlChan[s] \in Seq(State)
  BY DEF TypeOK, CtrlType
<1>2. ctrlChan'[s] = Append(ctrlChan[s], m) /\ ctrlChan'[Peer(s)] = ctrlChan[Peer(s)]
  BY DEF TypeOK, CtrlType, Push
<1>3. /\ Len(ctrlChan[s]) \in Nat /\ Len(ctrlChan'[s]) = Len(ctrlChan[s]) + 1
      /\ ctrlChan'[s][Len(ctrlChan[s]) + 1] = m
      /\ \A i \in 1..Len(ctrlChan[s]) : ctrlChan'[s][i] = ctrlChan[s][i]
  BY <1>1, <1>2
<1>4. \A i \in 1..Len(ctrlChan'[s]) : i \in 1..Len(ctrlChan[s]) \/ i = Len(ctrlChan[s]) + 1
  BY <1>3
<1>5. ASSUME NEW x PROVE Queued(s, x)' <=> Queued(s, x) \/ x = m
  <2>1. Queued(s, x)' => Queued(s, x) \/ x = m
    BY <1>3, <1>4 DEF Queued
  <2>2. Queued(s, x) => Queued(s, x)'
    BY <1>3 DEF Queued
  <2>3. x = m => Queued(s, x)'
    BY <1>3 DEF Queued
  <2>4. QED
    BY <2>1, <2>2, <2>3
<1>6. ASSUME NEW x, x # m, Once(s, x) PROVE Once(s, x)'
  BY <1>3, <1>4, <1>6 DEF Once
<1>7. ASSUME NEW x, ~Queued(s, x) PROVE Once(s, x)'
  BY <1>3, <1>4, <1>7 DEF Once, Queued
<1>8. QED
  BY <1>2, <1>5, <1>6, <1>7

LEMMA PopStep ==
    ASSUME TypeOK, NEW s \in Side, Pop(s)
    PROVE  /\ Head(ctrlChan[s]) \in State /\ Queued(s, Head(ctrlChan[s]))
           /\ \A x : Queued(s, x)' => Queued(s, x)
           /\ \A x : Queued(s, x) /\ x # Head(ctrlChan[s]) => Queued(s, x)'
           /\ \A x : Once(s, x) => Once(s, x)' /\ (x = Head(ctrlChan[s]) => ~Queued(s, x)')
           /\ ctrlChan'[Peer(s)] = ctrlChan[Peer(s)]
<1>1. ctrlChan[s] \in Seq(State) /\ ctrlChan[s] # <<>>
  BY DEF TypeOK, CtrlType, Pop, CanPop
<1>2. ctrlChan'[s] = Tail(ctrlChan[s]) /\ ctrlChan'[Peer(s)] = ctrlChan[Peer(s)]
  BY DEF TypeOK, CtrlType, Pop
<1>3. /\ Len(ctrlChan[s]) \in Nat \ {0} /\ Len(ctrlChan'[s]) = Len(ctrlChan[s]) - 1
      /\ Head(ctrlChan[s]) = ctrlChan[s][1] /\ Head(ctrlChan[s]) \in State
      /\ \A i \in 1..Len(ctrlChan'[s]) : ctrlChan'[s][i] = ctrlChan[s][i + 1]
  BY <1>1, <1>2
<1>4. Queued(s, Head(ctrlChan[s]))
  BY <1>3 DEF Queued
<1>5. ASSUME NEW x, Queued(s, x)' PROVE Queued(s, x)
  <2>1. PICK i \in 1..Len(ctrlChan'[s]) : ctrlChan'[s][i] = x
    BY <1>5 DEF Queued
  <2>2. i + 1 \in 1..Len(ctrlChan[s]) /\ ctrlChan[s][i + 1] = x
    BY <1>3, <2>1
  <2>3. QED
    BY <2>2 DEF Queued
<1>6. ASSUME NEW x, Queued(s, x), x # Head(ctrlChan[s]) PROVE Queued(s, x)'
  <2>1. PICK i \in 1..Len(ctrlChan[s]) : ctrlChan[s][i] = x
    BY <1>6 DEF Queued
  <2>2. i - 1 \in 1..Len(ctrlChan'[s]) /\ (i - 1) + 1 = i
    BY <1>3, <1>6, <2>1
  <2>3. ctrlChan'[s][i - 1] = x
    BY <1>3, <2>1, <2>2
  <2>4. QED
    BY <2>2, <2>3 DEF Queued
<1>7. ASSUME NEW x, Once(s, x) PROVE Once(s, x)' /\ (x = Head(ctrlChan[s]) => ~Queued(s, x)')
  <2>1. \A i \in 1..Len(ctrlChan'[s]) : i + 1 \in 1..Len(ctrlChan[s]) /\ i + 1 # 1
    BY <1>3
  <2>2. 1 \in 1..Len(ctrlChan[s])
    BY <1>3
  <2>3. Once(s, x)'
    <3> SUFFICES ASSUME NEW i \in 1..Len(ctrlChan'[s]), NEW j \in 1..Len(ctrlChan'[s]),
                        ctrlChan'[s][i] = x, ctrlChan'[s][j] = x
                 PROVE  i = j
      BY DEF Once
    <3>1. i + 1 = j + 1
      BY <1>3, <1>7, <2>1 DEF Once
    <3>2. QED
      BY <3>1
  <2>4. x = Head(ctrlChan[s]) => ~Queued(s, x)'
    <3> SUFFICES ASSUME x = Head(ctrlChan[s]), NEW i \in 1..Len(ctrlChan'[s]), ctrlChan'[s][i] = x
                 PROVE  FALSE
      BY DEF Queued
    <3>1. ctrlChan[s][i + 1] = x /\ ctrlChan[s][1] = x
      BY <1>3
    <3>2. QED
      BY <1>7, <2>1, <2>2, <3>1 DEF Once
  <2>5. QED
    BY <2>3, <2>4
<1>8. QED
  BY <1>2, <1>3, <1>4, <1>5, <1>6, <1>7

\* A client that has heard all it can have been told has nothing to read.
LEMMA NoneLeft ==
    TypeOK /\ Talk /\ Live /\ CRecv = ServerMax(CSent) => wire["client"] = <<>>
<1> SUFFICES ASSUME TypeOK, Talk, Live, CRecv = ServerMax(CSent), wire["client"] # <<>>
             PROVE  FALSE
  OBVIOUS
<1>1. wire["client"] \in Seq(Message)
  BY DEF TypeOK, NetType
<1>2. Len(wire["client"]) \in Nat \ {0}
  BY <1>1
<1>3. CRecv + Len(wire["client"]) <= CRecv
  BY DEF Talk, ClientInbox
<1>4. QED
  BY <1>2, <1>3, CountRange

-----------------------------------------------------------------------------
\* The end of a process.
LEMMA ClientGone ==
    TypeOK /\ Conversation /\ Gone("client") => ServerPart' /\ ClientPart' /\ Talk'
<1> SUFFICES ASSUME TypeOK, Conversation, Gone("client")
             PROVE  ServerPart' /\ ClientPart' /\ Talk'
  OBVIOUS
<1> USE DEF TypeOK, CtrlType, NetType, DataType, Gone, CloseCtrl
<1>1. UNCHANGED ServerView /\ wire'["server"] = wire["server"]
  BY DEF ServerView
<1>2. CMain' = "exited" /\ CCtrl' = "exited" /\ ctrlChan'["client"] = <<>> /\ ~open'["client"]
  BY DEF CMain, CCtrl
<1>3. Running' = {}
  BY DEF Running, End
<1>4. ClientPart'
  BY <1>2, <1>3 DEF ClientPart, Before, After, Telling, Live
<1>5. QED
  BY <1>1, <1>2, <1>4, ServerStays, Quiet DEF Conversation, ClientSame, Live

LEMMA ServerGone ==
    TypeOK /\ Conversation /\ Gone("server") => ServerPart' /\ ClientPart' /\ Talk'
<1> SUFFICES ASSUME TypeOK, Conversation, Gone("server")
             PROVE  ServerPart' /\ ClientPart' /\ Talk'
  OBVIOUS
<1> USE DEF TypeOK, CtrlType, NetType, DataType, Gone, CloseCtrl
<1>1. Running' = Running
  BY DEF Running, End
<1>2. UNCHANGED ClientView /\ wire'["client"] = wire["client"]
  BY <1>1 DEF ClientView
<1>3. SMain' = "exited" /\ SCtrl' = "exited" /\ ctrlChan'["server"] = <<>> /\ ~open'["server"]
  BY DEF SMain, SCtrl
<1>4. ServerPart'
  BY <1>3 DEF ServerPart, MainLeads, Creating, Once, Queued
<1>5. QED
  BY <1>2, <1>3, <1>4, ClientStays, Quiet DEF Conversation, ServerSame

-----------------------------------------------------------------------------
\* runClient.  Taking a state from ctrlChan says and hears nothing.
LEMMA ClientPopTalk ==
    TypeOK /\ Conversation /\ (ClientStart \/ ClientContinue \/ ClientAllEnded)
        => ServerPart' /\ ClientPart' /\ Talk'
<1> SUFFICES ASSUME TypeOK, Conversation, ClientStart \/ ClientContinue \/ ClientAllEnded
             PROVE  ServerPart' /\ ClientPart' /\ Talk'
  OBVIOUS
<1> USE DEF Conversation, TypeOK, CtrlType, NetType, ctrlVars, netVars, CMain, CCtrl
<1> DEFINE m == Head(ctrlChan["client"])
<1>1. /\ CMain = "loop" /\ Pop("client") /\ UNCHANGED <<wire, open, state, arg>>
      /\ UNCHANGED <<pc["sMain"], pc["sCtrl"], pc["cCtrl"]>>
  BY DEF ClientStart, ClientContinue, ClientAllEnded, ClientPops
<1>2. /\ Queued("client", m) /\ m \in State
      /\ \A x : Queued("client", x)' => Queued("client", x)
      /\ ctrlChan'["server"] = ctrlChan["server"]
  BY <1>1, PopStep
<1>3. UNCHANGED ServerView
  BY <1>1, <1>2 DEF ServerView
<1>4. ends \in Nat /\ NumStreams \in Nat \ {0}
  BY DEF TestType
<1> HIDE DEF m
<1>5. ClientPart' /\ ClientSame
  <2>1. CASE ClientStart
    <3>1. m = "TEST_RUNNING" /\ UNCHANGED <<pc, ends>>
      BY <2>1 DEF ClientStart, ClientPops, Verdict, m, testVars
    <3>2. ~NotRunning
      BY <1>2, <3>1 DEF NotRunning
    <3>3. QED
      BY <1>1, <3>1, <3>2
         DEF ClientPart, ClientSame, CSent, CRecv, Live, Before, After, Telling
  <2>2. CASE ClientContinue
    <3>1. /\ UNCHANGED <<pc, strm>> /\ ends' \in Nat /\ ends' >= ends
          /\ m # "TEST_END" => ends' = ends
      BY <1>4, <2>2 DEF ClientContinue, Counted, m, dataVars
    <3>2. NotRunning => NotRunning'
      BY <1>2, <3>1 DEF NotRunning, Running
    <3>3. QED
      BY <1>1, <1>4, <3>1, <3>2
         DEF ClientPart, ClientSame, CSent, CRecv, Live, Before, After, Telling
  <2>3. CASE ClientAllEnded
    <3>1. /\ m = "TEST_END" /\ ends + 1 = NumStreams /\ ends' = NumStreams
          /\ CMain' = "stats"
      BY <1>4, <2>3 DEF ClientAllEnded, ClientPops, Verdict, Counted, m
    <3>2. ~NotRunning /\ ~(ends >= NumStreams)
      BY <1>2, <1>4, <3>1 DEF NotRunning
    <3>3. CCtrl = "read" => state["client"] = "TEST_RUNNING" /\ CRecv = 4 /\ CSent = 1
      BY <3>2 DEF ClientPart, Before, After, CSent, CRecv
    <3>4. CCtrl = "read" => wire["client"] = <<>>
      <4>1. CCtrl = "read" => Live /\ CRecv = ServerMax(CSent)
        BY <3>3 DEF Live, ServerMax
      <4>2. QED
        BY <4>1, NoneLeft
    <3>5. CCtrl \in {"read", "pushDone", "exited"}
      BY <1>1, <3>2 DEF ClientPart, Before, After
    <3>6. QED
      BY <1>1, <1>4, <3>1, <3>2, <3>3, <3>4, <3>5
         DEF ClientPart, ClientSame, CSent, CRecv, Live, Before, After, Telling
  <2>4. QED
    BY <2>1, <2>2, <2>3
<1>6. QED
  BY <1>1, <1>3, <1>5, ServerStays, Quiet

LEMMA ClientSendsEndTalk ==
    TypeOK /\ Conversation /\ ClientSendsEnd => ServerPart' /\ ClientPart' /\ Talk'
<1> SUFFICES ASSUME TypeOK, Conversation, ClientSendsEnd
             PROVE  ServerPart' /\ ClientPart' /\ Talk'
  OBVIOUS
<1> USE DEF Conversation, ClientSendsEnd, TypeOK, CtrlType, NetType, netVars, CMain, CCtrl
<1>1. /\ CMain = "stats" /\ CMain' = "push" /\ CCtrl' = CCtrl
      /\ state'["client"] = "TEST_END" /\ arg'["cMain"] = "TEST_END"
      /\ UNCHANGED <<wire, open, ctrlChan, ends, strm>>
  BY DEF dataVars, testVars
<1>2. UNCHANGED ServerView
  BY <1>1 DEF ServerView
<1>3. CCtrl = "read" => state["client"] = "TEST_RUNNING"
  BY <1>1 DEF ClientPart, Before, After
<1>4. ClientSame
  BY <1>1, <1>3 DEF ClientSame, CSent, CRecv, Live, ClientPart, Telling
<1>5. ClientPart'
  BY <1>1, <1>3 DEF ClientPart, Live, Before, After, Telling, Running
<1>6. QED
  BY <1>1, <1>2, <1>4, <1>5, ServerStays, Quiet

LEMMA ClientMainPushTalk ==
    TypeOK /\ Conversation /\ SendPush("cMain") => ServerPart' /\ ClientPart' /\ Talk'
<1> SUFFICES ASSUME TypeOK, Conversation, SendPush("cMain")
             PROVE  ServerPart' /\ ClientPart' /\ Talk'
  OBVIOUS
<1> USE DEF Conversation, SendPush, TypeOK, CtrlType, NetType, netVars, CMain, CCtrl
<1>1. /\ CMain = "push" /\ CMain' = "write" /\ CCtrl' = CCtrl
      /\ UNCHANGED <<wire, open, state, arg, ends, strm>>
      /\ ctrlChan'["server"] = ctrlChan["server"]
  BY DEF dataVars, testVars, Push
<1>2. UNCHANGED ServerView
  BY <1>1 DEF ServerView
<1>3. ClientSame
  BY <1>1 DEF ClientSame, CSent, CRecv, Live
<1>4. ClientPart'
  BY <1>1 DEF ClientPart, Live, Before, After, Telling, Running
<1>5. QED
  BY <1>1, <1>2, <1>3, <1>4, ServerStays, Quiet

\* TEST_END is the second thing the client says, once all it was told is read.
LEMMA ClientEndWrittenTalk ==
    TypeOK /\ Conversation /\ ClientEndWritten => ServerPart' /\ ClientPart' /\ Talk'
<1> SUFFICES ASSUME TypeOK, Conversation, ClientEndWritten
             PROVE  ServerPart' /\ ClientPart' /\ Talk'
  OBVIOUS
<1> USE DEF Conversation, ClientEndWritten, TypeOK, CtrlType, NetType, CMain, CCtrl
<1>1. /\ CMain = "write" /\ CMain' = "loop" /\ CCtrl' = CCtrl /\ WriteOk("client", "TEST_END")
      /\ UNCHANGED <<open, state, arg, ctrlChan, ends, strm>>
  BY DEF dataVars, testVars, ClientPart
<1>2. UNCHANGED ServerView
  BY <1>1 DEF ServerView
<1>3. CCtrl = "read" /\ open["client"] /\ state["client"] = "TEST_END"
  BY <1>1 DEF ClientPart, Telling, WriteOk
<1>4. Live /\ Live' /\ CSent = 1 /\ CSent' = 2 /\ CRecv = 4 /\ CRecv' = 4
  BY <1>1, <1>3 DEF CSent, CRecv, Live
<1>5. ClientPart'
  BY <1>1, <1>3 DEF ClientPart, Live, Before, After, Telling, Running
<1>6. "TEST_END" \in Message /\ "TEST_END" = FromClient[CSent + 1] /\ CSent < ClientMax(CRecv)
  BY <1>4, Words DEF Message, State, ClientMax
<1>7. Talk'
  BY <1>1, <1>2, <1>4, <1>6, ServerStays, ClientSays
<1>8. QED
  BY <1>2, <1>5, <1>7, ServerStays

LEMMA ClientMainTalk ==
    TypeOK /\ Conversation /\ ClientMain => ServerPart' /\ ClientPart' /\ Talk'
  BY ClientPopTalk, ClientSendsEndTalk, ClientMainPushTalk, ClientEndWrittenTalk, ClientGone
     DEF ClientMain, ClientEndNotWritten, ClientExit, Exit

-----------------------------------------------------------------------------
\* handleClientCtrlMsg.  What it reads is the next word of the server, and is
\* what its state waits for.
ClientWord ==
    \/ /\ CRecv = 0 /\ state["client"] = "ZERO"
       /\ state'["client"] = "IPERF_EXCHANGE_PARAMS"
    \/ /\ CRecv = 1 /\ state["client"] = "IPERF_EXCHANGE_PARAMS"
       /\ state'["client"] = "IPERF_CREATE_STREAM"
    \/ CRecv = 2 /\ state["client"] = "IPERF_CREATE_STREAM" /\ state'["client"] = "TEST_START"
    \/ CRecv = 3 /\ state["client"] = "TEST_START" /\ state'["client"] = "TEST_RUNNING"
    \/ CRecv = 4 /\ state["client"] = "TEST_END" /\ state'["client"] = "IPERF_EXCHANGE_RESULT"
    \/ /\ CRecv = 6 /\ state["client"] = "IPERF_EXCHANGE_RESULT"
       /\ state'["client"] = "IPERF_DISPLAY_RESULT"

LEMMA ClientReadsWord ==
    TypeOK /\ Conversation /\ ClientReads =>
        CMain = "loop" /\ CCtrl' = ClientOn(state'["client"]) /\ ClientWord
<1> SUFFICES ASSUME TypeOK, Conversation, ClientReads
             PROVE  CMain = "loop" /\ CCtrl' = ClientOn(state'["client"]) /\ ClientWord
  OBVIOUS
<1> DEFINE m == Head(wire["client"])
<1>1. /\ CCtrl = "read" /\ CanRead("client") /\ Live /\ CCtrl' = ClientOn(m)
      /\ state'["client"] = (IF m \in State THEN m ELSE "ZERO")
  BY DEF ClientReads, TypeOK, CtrlType, CCtrl, Live
<1>2. m = FromServer[CRecv + 1] /\ CRecv < ServerMax(CSent)
  BY <1>1, ClientHears DEF Conversation
<1> HIDE DEF m
<1>3. CMain = "loop"
  BY <1>1 DEF Conversation, ClientPart, Telling, CanRead
<1>4. \/ CRecv = 0 /\ m = "IPERF_EXCHANGE_PARAMS" /\ state["client"] = "ZERO"
      \/ CRecv = 1 /\ m = "IPERF_CREATE_STREAM" /\ state["client"] = "IPERF_EXCHANGE_PARAMS"
      \/ CRecv = 2 /\ m = "TEST_START" /\ state["client"] = "IPERF_CREATE_STREAM"
      \/ CRecv = 3 /\ m = "TEST_RUNNING" /\ state["client"] = "TEST_START"
      \/ CRecv = 4 /\ m = "IPERF_EXCHANGE_RESULT" /\ state["client"] = "TEST_END"
      \/ CRecv = 6 /\ m = "IPERF_DISPLAY_RESULT" /\ state["client"] = "IPERF_EXCHANGE_RESULT"
  BY <1>1, <1>2, <1>3, Words DEF Conversation, ClientPart, CRecv, CSent, ServerMax
<1>5. QED
  BY <1>1, <1>3, <1>4 DEF State, ClientWord

LEMMA ClientReadsTalk ==
    TypeOK /\ Conversation /\ ClientReads => ServerPart' /\ ClientPart' /\ Talk'
<1> SUFFICES ASSUME TypeOK, Conversation, ClientReads
             PROVE  ServerPart' /\ ClientPart' /\ Talk'
  OBVIOUS
<1>1. /\ CCtrl = "read" /\ CanRead("client") /\ Consume("client") /\ Live
      /\ CMain' = CMain /\ state'["server"] = state["server"]
      /\ UNCHANGED <<open, arg, ctrlChan, ends, strm, pc["sMain"], pc["sCtrl"]>>
  BY DEF ClientReads, dataVars, testVars, TypeOK, CtrlType, Live, CMain, CCtrl
<1>2. UNCHANGED ServerView
  BY <1>1 DEF ServerView
<1>3. CRecv' = CRecv + 1 /\ CSent' = CSent
  BY <1>1, ClientReadsWord DEF ClientWord, CRecv, CSent, ClientOn
<1>4. ClientPart'
  BY <1>1, ClientReadsWord
     DEF ClientWord, Conversation, ClientPart, ClientOn, Live, Before, After, Telling,
         NotRunning, Queued, Running
<1>5. QED
  BY <1>1, <1>2, <1>3, <1>4, ServerStays, ClientTakes DEF Conversation, Live, ClientPart

\* PARAMS, RESULTS and IPERF_DONE are said when it is the client's turn.
LEMMA ClientSendsTalk ==
    TypeOK /\ Conversation /\ (ClientSendParams \/ ClientSendResults \/ ClientSendsDone)
        => ServerPart' /\ ClientPart' /\ Talk'
<1> SUFFICES ASSUME TypeOK, Conversation,
                    ClientSendParams \/ ClientSendResults \/ ClientSendsDone
             PROVE  ServerPart' /\ ClientPart' /\ Talk'
  OBVIOUS
<1> USE DEF Conversation, CMain, CCtrl
<1> DEFINE m == IF CCtrl = "sendParams" THEN "PARAMS" ELSE
                IF CCtrl = "sendResults" THEN "RESULTS" ELSE "IPERF_DONE"
<1>1. /\ CCtrl \in {"sendParams", "sendResults", "write"} /\ CMain' = CMain
      /\ UNCHANGED <<state, open, arg, ctrlChan, ends, strm, pc["sMain"], pc["sCtrl"]>>
      /\ \/ WriteOk("client", m)
            /\ CCtrl' = (IF CCtrl = "sendParams" THEN "read" ELSE
                         IF CCtrl = "sendResults" THEN "getResults" ELSE "close")
         \/ WriteErr("client") /\ CCtrl' = (IF CCtrl = "write" THEN "close" ELSE "pushDone")
            /\ wire' = wire
  BY DEF ClientSendParams, ClientSendResults, ClientSendsDone, ClientSends, CtrlTop, ClientPart,
         dataVars, testVars, TypeOK, CtrlType
<1>2. UNCHANGED ServerView
  BY <1>1 DEF ServerView
<1>3. CMain = "loop" /\ Live /\ CSent < ClientMax(CRecv)
  BY <1>1 DEF ClientPart, Live, CSent, CRecv, ClientMax, Before, After
<1>4. ClientPart'
  BY <1>1, <1>3
     DEF ClientPart, Live, Before, After, Telling, NotRunning, Queued, Running
<1>5. m = FromClient[CSent + 1] /\ m \in Message
  BY <1>1, Words DEF CSent, Message, State
<1> HIDE DEF m
<1>6. Talk'
  <2>1. CASE /\ WriteOk("client", m)
             /\ CCtrl' = (IF CCtrl = "sendParams" THEN "read" ELSE
                          IF CCtrl = "sendResults" THEN "getResults" ELSE "close")
    <3>1. Live' /\ CSent' = CSent + 1 /\ CRecv' = CRecv
      BY <1>1, <1>3, <2>1 DEF Live, CSent, CRecv, ClientPart
    <3>2. QED
      BY <1>2, <1>3, <1>5, <2>1, <3>1, ServerStays, ClientSays
  <2>2. CASE WriteErr("client") /\ wire' = wire
             /\ CCtrl' = (IF CCtrl = "write" THEN "close" ELSE "pushDone")
    <3>1. Live' => ~open'["server"] /\ CCtrl = "write"
      BY <1>1, <1>3, <2>2 DEF Live, WriteErr, ClientPart
    <3>2. ClientInbox'
      BY <1>1, <2>2, <3>1, Words DEF Talk, ClientInbox, Live, CRecv, CSent, Follows, ServerMax
    <3>3. ServerInbox' /\ Counts'
      BY <1>2, <2>2, <3>1, ServerStays DEF Talk, ServerSame, ServerInbox, Counts, Follows
    <3>4. QED
      BY <3>2, <3>3 DEF Talk
  <2>3. QED
    BY <1>1, <2>1, <2>2
<1>7. QED
  BY <1>2, <1>4, <1>6, ServerStays

LEMMA ClientGetsResultsTalk ==
    TypeOK /\ Conversation /\ ClientGetResults => ServerPart' /\ ClientPart' /\ Talk'
<1> SUFFICES ASSUME TypeOK, Conversation, ClientGetResults
             PROVE  ServerPart' /\ ClientPart' /\ Talk'
  OBVIOUS
<1> USE DEF Conversation, CMain, CCtrl
<1>1. /\ CCtrl = "getResults" /\ CanRead("client") /\ Consume("client") /\ Live
      /\ CMain' = CMain /\ CSent = 3 /\ CRecv = 5
      /\ UNCHANGED <<state, open, arg, ctrlChan, ends, strm, pc["sMain"], pc["sCtrl"]>>
  BY DEF ClientGetResults, dataVars, testVars, TypeOK, CtrlType, Live, CSent, CRecv
<1>2. UNCHANGED ServerView
  BY <1>1 DEF ServerView
<1>3. Head(wire["client"]) = "RESULTS"
  BY <1>1, ClientHears, Words
<1>4. CCtrl' = "read" /\ state["client"] = "IPERF_EXCHANGE_RESULT"
  BY <1>1, <1>3 DEF ClientGetResults, ClientPart, CtrlTop, TypeOK, CtrlType
<1>5. Live' /\ CSent' = 3 /\ CRecv' = 6
  BY <1>1, <1>4 DEF Live, CSent, CRecv
<1>6. ClientPart'
  BY <1>1, <1>4 DEF ClientPart, Live, Before, After, Telling, Running
<1>7. QED
  BY <1>1, <1>2, <1>5, <1>6, ServerStays, ClientTakes

\* The ways out of the handler, which leave its connection open or close it.
LEMMA ClientLeavesTalk ==
    /\ TypeOK /\ Conversation
    /\ \/ ClientReadFails \/ ClientResultsFail \/ ClientConnectRefused
       \/ ClientClosesCtrl \/ ClientPushesDone
    => ServerPart' /\ ClientPart' /\ Talk'
<1> SUFFICES ASSUME TypeOK, Conversation,
                    \/ ClientReadFails \/ ClientResultsFail \/ ClientConnectRefused
                    \/ ClientClosesCtrl \/ ClientPushesDone
             PROVE  ServerPart' /\ ClientPart' /\ Talk'
  OBVIOUS
<1> USE DEF Conversation, CMain, CCtrl
<1>1. /\ CMain' = CMain /\ ~Live'
      /\ UNCHANGED <<state, arg, wire, ends, strm, open["server"], pc["sMain"], pc["sCtrl"]>>
      /\ ctrlChan'["server"] = ctrlChan["server"]
  BY DEF ClientReadFails, ClientResultsFail, ClientConnectRefused, ClientClosesCtrl,
         ClientPushesDone, CloseCtrl, Push, CtrlTop, ClientPart, Live, TypeOK, CtrlType, NetType,
         dataVars, testVars, netVars
<1>2. UNCHANGED ServerView
  BY <1>1 DEF ServerView
<1>3. ClientPart'
  <2>1. CASE ClientReadFails \/ ClientResultsFail \/ ClientConnectRefused
    <3>1. /\ CCtrl' = "pushDone" /\ UNCHANGED ctrlChan
          /\ IF CCtrl = "read" THEN ~open'["client"] ELSE UNCHANGED open
          /\ CCtrl \in {"read", "getResults", "connect"}
      BY <2>1 DEF ClientReadFails, ClientResultsFail, ClientConnectRefused, CloseCtrl, TypeOK,
                  CtrlType, NetType, netVars
    <3>2. QED
      BY <1>1, <3>1 DEF ClientPart, Live, Before, After, Telling, NotRunning, Queued, Running
  <2>2. CASE ClientClosesCtrl
    <3>1. CCtrl = "close" /\ CCtrl' = "endPush" /\ UNCHANGED ctrlChan /\ ~open'["client"]
      BY <2>2 DEF ClientClosesCtrl, CloseCtrl, TypeOK, CtrlType, NetType
    <3>2. QED
      BY <1>1, <3>1 DEF ClientPart, Live, Before, After, Telling, Running
  <2>3. CASE ClientPushesDone
    <3>1. /\ UNCHANGED open /\ Push("client", "IPERF_DONE")
          /\ \/ CCtrl = "endPush" /\ CCtrl' = "pushDone"
             \/ CCtrl = "pushDone" /\ CCtrl' = "exited"
      BY <2>3 DEF ClientPushesDone, CtrlTop, ClientPart, TypeOK, CtrlType, NetType, netVars
    <3>2. \A x : Queued("client", x)' <=> Queued("client", x) \/ x = "IPERF_DONE"
      BY <3>1, PushStep DEF State
    <3>3. NotRunning => NotRunning'
      BY <1>1, <3>2 DEF NotRunning, Running
    <3>4. QED
      BY <1>1, <3>1, <3>3 DEF ClientPart, Live, Before, After, Telling, Running
  <2>4. QED
    BY <2>1, <2>2, <2>3
<1>4. QED
  BY <1>1, <1>2, <1>3, ServerStays, Quiet DEF ClientSame

\* What the handler does between two messages.
LEMMA ClientWorksTalk ==
    /\ TypeOK /\ Conversation
    /\ \/ ClientConnects \/ ClientInits \/ ClientPushesRunning \/ ClientClosesStreams
       \/ ClientReports \/ SendPush("cCtrl")
    => ServerPart' /\ ClientPart' /\ Talk'
<1> SUFFICES ASSUME TypeOK, Conversation, ~Gone("client"),
                    \/ ClientConnects \/ ClientInits \/ ClientPushesRunning
                    \/ ClientClosesStreams \/ ClientReports \/ SendPush("cCtrl")
             PROVE  ServerPart' /\ ClientPart' /\ Talk'
  BY ClientGone
<1> USE DEF Conversation, CMain, CCtrl
<1>1. /\ CMain' = CMain /\ UNCHANGED <<wire, open, ends, strm, pc["sMain"], pc["sCtrl"]>>
      /\ UNCHANGED <<state["server"], arg["sMain"], arg["sCtrl"], arg["cMain"]>>
      /\ ctrlChan'["server"] = ctrlChan["server"]
  BY DEF ClientConnects, ClientInits, ClientPushesRunning, ClientClosesStreams, ClientReports,
         SendPush, Panic, Push, TypeOK, CtrlType, dataVars, testVars, netVars
<1>2. UNCHANGED ServerView
  BY <1>1 DEF ServerView
<1>3. ClientPart' /\ ClientSame
  <2> USE DEF ClientPart, ClientSame, CSent, CRecv, Live, Before, After, Telling, NotRunning,
              Running
  <2>1. CASE ClientConnects
    <3>1. /\ UNCHANGED <<ctrlChan, state, arg>> /\ state["client"] = "IPERF_CREATE_STREAM"
          /\ CCtrl = "connect" /\ CCtrl' \in {"connect", "read"}
      BY <2>1 DEF ClientConnects, CtrlTop, TypeOK, CtrlType
    <3>2. QED
      BY <1>1, <3>1 DEF Queued
  <2>2. CASE ClientInits
    <3>1. /\ UNCHANGED <<ctrlChan, state, arg>> /\ state["client"] = "TEST_START"
          /\ CCtrl = "init" /\ CCtrl' = "read"
      BY <2>2 DEF ClientInits, CtrlTop, TypeOK, CtrlType
    <3>2. QED
      BY <1>1, <3>1 DEF Queued
  <2>3. CASE ClientPushesRunning
    <3>1. /\ UNCHANGED <<state, arg>> /\ state["client"] = "TEST_RUNNING"
          /\ CCtrl = "pushRunning" /\ CCtrl' = "read"
      BY <2>3 DEF ClientPushesRunning, CtrlTop, TypeOK, CtrlType
    <3>2. QED
      BY <1>1, <3>1
  <2>4. CASE ClientClosesStreams
    <3>1. UNCHANGED <<ctrlChan, state, arg>> /\ CCtrl = "clientEnd" /\ CCtrl' = "report"
      BY <2>4 DEF ClientClosesStreams, TypeOK, CtrlType
    <3>2. QED
      BY <1>1, <3>1
  <2>5. CASE ClientReports
    <3>1. /\ CCtrl = "report" /\ CCtrl' = "push" /\ UNCHANGED ctrlChan
          /\ state'["client"] = "IPERF_DONE" /\ arg'["cCtrl"] = "IPERF_DONE"
      BY <2>5 DEF ClientReports, Panic, TypeOK, CtrlType
    <3>2. QED
      BY <1>1, <3>1
  <2>6. CASE SendPush("cCtrl")
    <3>1. UNCHANGED <<state, arg>> /\ CCtrl = "push" /\ CCtrl' = "write"
      BY <2>6 DEF SendPush, TypeOK, CtrlType
    <3>2. QED
      BY <1>1, <3>1
  <2>7. QED
    BY <2>1, <2>2, <2>3, <2>4, <2>5, <2>6
<1>4. QED
  BY <1>1, <1>2, <1>3, ServerStays, Quiet

LEMMA ClientCtrlTalk ==
    TypeOK /\ Conversation /\ ClientCtrl => ServerPart' /\ ClientPart' /\ Talk'
  BY ClientReadsTalk, ClientSendsTalk, ClientGetsResultsTalk, ClientLeavesTalk, ClientWorksTalk
     DEF ClientCtrl

-----------------------------------------------------------------------------
\* runServer and handleServerCtrlMsg: what they share.
LEMMA ServerLocal ==
    TypeOK /\ Conversation /\ (ServerMain \/ ServerCtrl) /\ ~Gone("server") => UNCHANGED ClientView
<1> SUFFICES ASSUME TypeOK, Conversation, ServerMain \/ ServerCtrl, ~Gone("server")
             PROVE  UNCHANGED ClientView
  OBVIOUS
<1> USE DEF TypeOK, CtrlType, NetType, ctrlVars, netVars, dataVars, testVars, CloseCtrl, Panic,
            Push, Pop
<1>1. ServerMain => /\ UNCHANGED <<pc["cMain"], pc["cCtrl"], arg["cMain"], arg["cCtrl"]>>
                    /\ UNCHANGED <<state["client"], ctrlChan["client"], open["client"], ends>>
  BY DEF ServerMain, ServerResets, ServerGetsParams, ServerParamsFail, ServerListens,
         ServerListenFails, ServerPops, ServerAccepts, ServerInits, SendPush, ServerWritten,
         ServerNotWritten, ServerCtrlDone
<1>2. ServerCtrl => /\ UNCHANGED <<pc["cMain"], pc["cCtrl"], arg["cMain"], arg["cCtrl"]>>
                    /\ UNCHANGED <<state["client"], ctrlChan["client"], open["client"], ends>>
  BY DEF ServerCtrl, ServerReadsEnd, ServerReadsOther, ServerClosesStreams, ServerGetsResults,
         ServerSendsResults, ServerReports, SendPush, ServerWritten, ServerNotWritten,
         ServerHandlerFails, ServerHandlerReturns
<1>3. UNCHANGED Running
  BY DEF ServerMain, ServerResets, ServerGetsParams, ServerParamsFail, ServerListens,
         ServerListenFails, ServerPops, ServerAccepts, ServerInits, SendPush, ServerWritten,
         ServerNotWritten, ServerCtrlDone, ServerCtrl, ServerReadsEnd, ServerReadsOther,
         ServerClosesStreams, ServerGetsResults, ServerSendsResults, ServerReports,
         ServerHandlerFails, ServerHandlerReturns, StartStreams, Streams, Running, End, DataType
<1>4. QED
  BY <1>1, <1>2, <1>3 DEF ClientView

\* While the client is about to say TEST_END the server has nothing to say.
LEMMA ServerSilent ==
    TypeOK /\ Conversation /\ Telling /\ CCtrl = "read" /\ open["server"]
        => ~(SSent < ServerMax(SRecv))
<1> SUFFICES ASSUME TypeOK, Conversation, Telling, CCtrl = "read", open["server"]
             PROVE  ~(SSent < ServerMax(SRecv))
  OBVIOUS
<1>1. wire["client"] = <<>> /\ Live /\ CRecv = 4 /\ CSent = 1
  BY DEF Conversation, ClientPart, Live, Telling, Before, After, CRecv, CSent
<1>2. SSent = 4
  BY <1>1 DEF Conversation, Talk, Counts
<1>3. wire["server"] \in Seq(Message)
  BY DEF TypeOK, NetType
<1>4. SRecv + Len(wire["server"]) = 1 /\ Len(wire["server"]) \in Nat
  BY <1>1, <1>3 DEF Conversation, Talk, Counts
<1>5. QED
  BY <1>2, <1>4, CountRange DEF ServerMax

\* The ways in which the main goroutine ends a session.
LEMMA ServerLeavesTalk ==
    /\ TypeOK /\ Conversation
    /\ \/ ServerResets \/ ServerParamsFail \/ ServerListenFails \/ ServerNotWritten("sMain")
       \/ ServerCtrlDone
    => ServerPart' /\ ClientPart' /\ Talk'
<1> SUFFICES ASSUME TypeOK, Conversation, ~Gone("server"),
                    \/ ServerResets \/ ServerParamsFail \/ ServerListenFails
                    \/ ServerNotWritten("sMain") \/ ServerCtrlDone
             PROVE  ServerPart' /\ ClientPart' /\ Talk'
  BY ServerGone
<1> USE DEF Conversation, SMain, SCtrl
<1>1. /\ SCtrl' = SCtrl /\ UNCHANGED <<wire, arg>> /\ ~open'["server"]
      /\ SMain' \in {"accept", "reset", "waitCtrl", "waitReset"}
      /\ SMain' = "accept" => ctrlChan'["server"] = <<>>
      /\ SMain' # "accept" => UNCHANGED <<state, ctrlChan>>
      /\ SMain' \in {"accept", "reset"} => SCtrl = "exited"
  BY DEF ServerResets, ServerParamsFail, ServerListenFails, ServerNotWritten, ServerCtrlDone,
         AfterSendFailed, CtrlDone, Panic, CloseCtrl, HandlerInv, NoHandlerYet, BetweenSessions,
         TypeOK, CtrlType, NetType, netVars
<1>2. ServerPart'
  BY <1>1 DEF ServerPart, MainLeads, Creating, Queued, Once
<1>3. UNCHANGED ClientView
  BY ServerLocal DEF ServerMain
<1>4. QED
  BY <1>1, <1>2, <1>3, ClientStays, Quiet DEF ServerSame

\* What it does between two messages.
LEMMA ServerWorksTalk ==
    /\ TypeOK /\ Conversation
    /\ ServerListens \/ ServerAccepts \/ ServerInits \/ SendPush("sMain") \/ ServerPops
    => ServerPart' /\ ClientPart' /\ Talk'
<1> SUFFICES ASSUME TypeOK, Conversation,
                    \/ ServerListens \/ ServerAccepts \/ ServerInits
                    \/ SendPush("sMain") \/ ServerPops
             PROVE  ServerPart' /\ ClientPart' /\ Talk'
  OBVIOUS
<1> USE DEF Conversation, SMain, SCtrl
<1>1. SCtrl' = SCtrl /\ UNCHANGED <<wire, open, arg["sCtrl"]>>
  BY DEF ServerListens, ServerAccepts, ServerInits, SendPush, ServerPops, TypeOK, CtrlType, netVars
<1>2. UNCHANGED ClientView
  <2>1. ~Gone("server")
    BY <1>1 DEF ServerListens, ServerAccepts, ServerInits, SendPush, ServerPops, Gone, TypeOK,
                CtrlType, ServerOn
  <2>2. QED
    BY <2>1, ServerLocal DEF ServerMain
<1>3. ServerPart' /\ ServerSame
  <2> USE DEF ServerPart, ServerSame, SSent, SRecv, MainLeads, Creating, NoHandlerYet,
              BetweenSessions
  <2>1. CASE ServerListens \/ ServerAccepts \/ ServerInits
    <3>1. UNCHANGED ctrlChan
      BY <2>1 DEF ServerListens, ServerAccepts, ServerInits
    <3>2. \/ /\ SMain = "listen" /\ SMain' = "push"
             /\ state'["server"] = "IPERF_CREATE_STREAM" /\ arg'["sMain"] = "IPERF_CREATE_STREAM"
          \/ /\ SMain = "acceptStreams" /\ SMain' = "push"
             /\ state'["server"] = "TEST_START" /\ arg'["sMain"] = "TEST_START"
          \/ SMain = "acceptStreams" /\ SMain' = SMain /\ UNCHANGED <<state, arg>>
          \/ /\ SMain = "init" /\ SMain' = "push"
             /\ state'["server"] = "TEST_RUNNING" /\ arg'["sMain"] = "TEST_RUNNING"
      BY <2>1 DEF ServerListens, ServerAccepts, ServerInits, TypeOK, CtrlType
    <3>3. QED
      BY <1>1, <3>1, <3>2 DEF Queued, Once
  <2>2. CASE SendPush("sMain")
    <3>1. /\ SMain = "push" /\ SMain' = "write" /\ UNCHANGED <<state, arg>>
          /\ Push("server", arg["sMain"])
      BY <2>2 DEF SendPush, TypeOK, CtrlType
    <3>2. arg["sMain"] \in State
      BY DEF TypeOK, CtrlType
    <3>3. /\ \A x : Queued("server", x)' <=> Queued("server", x) \/ x = arg["sMain"]
          /\ \A x : x # arg["sMain"] /\ Once("server", x) => Once("server", x)'
          /\ \A x : ~Queued("server", x) => Once("server", x)'
      BY <3>1, <3>2, PushStep
    <3>4. QED
      BY <1>1, <3>1, <3>3
  <2>3. CASE ServerPops
    <3> DEFINE m == Head(ctrlChan["server"])
    <3>1. /\ SMain = "loop" /\ Pop("server") /\ UNCHANGED <<state, arg>>
          /\ SMain' = (IF m = "IPERF_DONE" THEN "waitCtrl" ELSE
                       IF m = "IPERF_CREATE_STREAM" THEN "acceptStreams" ELSE "loop")
      BY <2>3 DEF ServerPops, ServerOn, TypeOK, CtrlType
    <3>2. /\ Queued("server", m)
          /\ \A x : Queued("server", x)' => Queued("server", x)
          /\ \A x : Queued("server", x) /\ x # m => Queued("server", x)'
          /\ \A x : Once("server", x) => Once("server", x)' /\ (x = m => ~Queued("server", x)')
      BY <3>1, PopStep
    <3> HIDE DEF m
    <3>3. QED
      BY <1>1, <3>1, <3>2
  <2>4. QED
    BY <2>1, <2>2, <2>3
<1>4. QED
  BY <1>1, <1>2, <1>3, ClientStays, Quiet

LEMMA ServerGetsParamsTalk ==
    TypeOK /\ Conversation /\ ServerGetsParams => ServerPart' /\ ClientPart' /\ Talk'
<1> SUFFICES ASSUME TypeOK, Conversation, ServerGetsParams
             PROVE  ServerPart' /\ ClientPart' /\ Talk'
  OBVIOUS
<1> USE DEF Conversation, SMain, SCtrl
<1>1. /\ SMain = "getParams" /\ CanRead("server") /\ Consume("server")
      /\ SMain' = "listen" /\ SCtrl' = "read" /\ UNCHANGED <<state, ctrlChan, arg, open>>
      /\ UNCHANGED wire["client"]
  BY DEF ServerGetsParams, Consume, TypeOK, CtrlType, NetType
<1>2. UNCHANGED ClientView
  <2>1. ~Gone("server")
    BY <1>1 DEF Gone, TypeOK, CtrlType
  <2>2. QED
    BY <2>1, ServerLocal DEF ServerMain
<1>3. ServerPart'
  BY <1>1 DEF ServerPart, MainLeads, Creating, Queued, Once
<1>4. SRecv = 0 /\ SRecv' = 1 /\ SSent = 1 /\ SSent' = 1
  BY <1>1 DEF ServerPart, MainLeads, Creating, SRecv, SSent, NoHandlerYet, BetweenSessions
<1>5. QED
  BY <1>1, <1>2, <1>3, <1>4, ClientStays, ServerTakes

\* The two ends of setSendState of either goroutine: the words of the server.
LEMMA ServerWrittenTalk ==
    TypeOK /\ Conversation /\ (ServerWritten("sMain") \/ ServerWritten("sCtrl"))
        => ServerPart' /\ ClientPart' /\ Talk'
<1> SUFFICES ASSUME TypeOK, Conversation, NEW g \in {"sMain", "sCtrl"}, ServerWritten(g)
             PROVE  ServerPart' /\ ClientPart' /\ Talk'
  OBVIOUS
<1> USE DEF Conversation, SMain, SCtrl
<1>1. /\ pc[g] = "write" /\ WriteOk("server", arg[g]) /\ open["server"]
      /\ pc' = [pc EXCEPT ![g] = AfterSend(arg[g])]
      /\ UNCHANGED <<state, ctrlChan, arg, open>>
  BY DEF ServerWritten, WriteOk
<1>2. UNCHANGED ClientView
  <2>1. ~Gone("server")
    BY <1>1 DEF Gone, AfterSend, TypeOK, CtrlType, NetType
  <2>2. QED
    BY <2>1, ServerLocal DEF ServerMain, ServerCtrl
<1>3. /\ ServerPart' /\ SSent' = SSent + 1 /\ SRecv' = SRecv
      /\ arg[g] = FromServer[SSent + 1] /\ SSent < ServerMax(SRecv)
  <2> USE DEF ServerPart, SSent, SRecv, MainLeads, Creating, NoHandlerYet, BetweenSessions,
              HandlerInv, AfterSend, ServerMax, Queued, Once
  <2>1. CASE g = "sMain"
    <3>1. /\ SMain = "write" /\ SMain' = AfterSend(arg["sMain"]) /\ SCtrl' = SCtrl
          /\ arg["sMain"] = "IPERF_EXCHANGE_PARAMS" \/ SCtrl = "read"
      BY <1>1, <2>1 DEF TypeOK, CtrlType
    <3>2. QED
      BY <1>1, <2>1, <3>1, Words
  <2>2. CASE g = "sCtrl"
    <3>1. /\ SCtrl = "write" /\ SCtrl' = AfterSend(arg["sCtrl"]) /\ SMain' = SMain
          /\ SMain \in {"loop", "waitCtrl", "waitReset"} /\ ~MainLeads
      BY <1>1, <2>2 DEF TypeOK, CtrlType
    <3>2. QED
      BY <1>1, <2>2, <3>1, Words
  <2>3. QED
    BY <2>1, <2>2
<1>4. arg[g] \in Message
  BY DEF TypeOK, CtrlType, Message
<1>5. Talk'
  BY <1>1, <1>2, <1>3, <1>4, ClientStays, ServerSays DEF ClientPart
<1>6. ClientPart'
  BY <1>1, <1>2, <1>3, ClientStays, ServerSilent
<1>7. QED
  BY <1>3, <1>5, <1>6

LEMMA ServerMainTalk ==
    TypeOK /\ Conversation /\ ServerMain => ServerPart' /\ ClientPart' /\ Talk'
  BY ServerLeavesTalk, ServerWorksTalk, ServerGetsParamsTalk, ServerWrittenTalk DEF ServerMain

-----------------------------------------------------------------------------
\* What the server's handler reads is the next word of the client.
ServerWord ==
    \/ /\ SCtrl = "read" /\ SRecv = 1 /\ state["server"] # "IPERF_DONE"
       /\ SCtrl' = "stats" /\ state'["server"] = "TEST_END"
    \/ /\ SCtrl = "read" /\ SRecv = 3 /\ state["server"] = "IPERF_DONE"
       /\ SCtrl' = "pushDone" /\ state'["server"] = "IPERF_DONE"
    \/ SCtrl = "getResults" /\ SRecv = 2 /\ SCtrl' = "sendResults" /\ UNCHANGED state

LEMMA ServerReadsWord ==
    TypeOK /\ Conversation /\ (ServerReadsEnd \/ ServerReadsOther \/ ServerGetsResults) =>
        /\ SMain \in {"loop", "waitCtrl", "waitReset"} /\ ~MainLeads /\ ~NoHandlerYet
        /\ ServerWord
<1> SUFFICES ASSUME TypeOK, Conversation, ServerReadsEnd \/ ServerReadsOther \/ ServerGetsResults
             PROVE  /\ SMain \in {"loop", "waitCtrl", "waitReset"} /\ ~MainLeads /\ ~NoHandlerYet
                    /\ ServerWord
  OBVIOUS
<1> USE DEF Conversation, SMain, SCtrl
<1> DEFINE m == Head(wire["server"])
<1>1. SCtrl \in {"read", "getResults"} /\ CanRead("server")
  BY DEF ServerReadsEnd, ServerReadsOther, ServerGetsResults
<1>2. m = FromClient[SRecv + 1] /\ SRecv < ClientMax(SSent)
  BY <1>1, ServerHears
<1>3. ~NoHandlerYet
  BY <1>1 DEF HandlerInv
<1>4. \/ SCtrl = "read" /\ SRecv = 1 /\ m = "TEST_END" /\ state["server"] # "IPERF_DONE"
      \/ SCtrl = "read" /\ SRecv = 3 /\ m = "IPERF_DONE" /\ state["server"] = "IPERF_DONE"
      \/ SCtrl = "getResults" /\ SRecv = 2 /\ m = "RESULTS"
  BY <1>1, <1>2, <1>3, Words DEF SRecv
<1>5. \/ SCtrl = "read" /\ m = "TEST_END" /\ SCtrl' = "stats" /\ state'["server"] = "TEST_END"
      \/ /\ SCtrl = "read" /\ m = "IPERF_DONE"
         /\ SCtrl' = "pushDone" /\ state'["server"] = "IPERF_DONE"
      \/ SCtrl = "getResults" /\ SCtrl' = "sendResults" /\ UNCHANGED state
  BY <1>1, <1>4
     DEF ServerReadsEnd, ServerReadsOther, ServerGetsResults, ServerHandles, State, TypeOK, CtrlType
<1> HIDE DEF m
<1>6. ~MainLeads
  <2>1. SCtrl = "read" /\ SRecv = 1 => ClientMax(SSent) > 1
    BY <1>2, CountRange DEF ClientMax
  <2>2. MainLeads => SSent \in 0..3
    BY DEF SSent, MainLeads, Creating
  <2>3. QED
    BY <1>4, <2>1, <2>2 DEF ServerPart, ClientMax
<1>7. SMain \in {"loop", "waitCtrl", "waitReset"}
  BY <1>1, <1>3, <1>6 DEF ServerPart, MainLeads, NoHandlerYet, BetweenSessions
<1>8. QED
  BY <1>3, <1>4, <1>5, <1>6, <1>7 DEF ServerWord

LEMMA ServerReadsTalk ==
    TypeOK /\ Conversation /\ (ServerReadsEnd \/ ServerReadsOther \/ ServerGetsResults)
        => ServerPart' /\ ClientPart' /\ Talk'
<1> SUFFICES ASSUME TypeOK, Conversation, ServerReadsEnd \/ ServerReadsOther \/ ServerGetsResults
             PROVE  ServerPart' /\ ClientPart' /\ Talk'
  OBVIOUS
<1> USE DEF Conversation, SMain, SCtrl
<1>1. /\ CanRead("server") /\ Consume("server")
      /\ SMain' = SMain /\ UNCHANGED <<ctrlChan, arg, open>> /\ UNCHANGED wire["client"]
  BY DEF ServerReadsEnd, ServerReadsOther, ServerGetsResults, Consume, TypeOK, CtrlType, NetType
<1>2. UNCHANGED ClientView
  <2>1. ~Gone("server")
    BY <1>1 DEF Gone, CloseCtrl, CanRead, TypeOK, CtrlType, NetType
  <2>2. QED
    BY <2>1, ServerLocal DEF ServerCtrl
<1>3. ServerPart'
  BY <1>1, ServerReadsWord DEF ServerWord, ServerPart, MainLeads, Creating, Queued, Once
<1>4. SRecv' = SRecv + 1
  BY <1>1, ServerReadsWord DEF ServerWord, SRecv, NoHandlerYet, BetweenSessions
<1>5. SSent' = SSent
  BY <1>1, ServerReadsWord DEF ServerWord, SSent, MainLeads, Creating, Queued
<1>6. QED
  BY <1>1, <1>2, <1>3, <1>4, <1>5, ClientStays, ServerTakes

\* What it does between two messages.
LEMMA ServerHandlesTalk ==
    TypeOK /\ Conversation /\ (ServerClosesStreams \/ ServerReports \/ SendPush("sCtrl"))
        => ServerPart' /\ ClientPart' /\ Talk'
<1> SUFFICES ASSUME TypeOK, Conversation, ~Gone("server"),
                    ServerClosesStreams \/ ServerReports \/ SendPush("sCtrl")
             PROVE  ServerPart' /\ ClientPart' /\ Talk'
  BY ServerGone
<1> USE DEF Conversation, SMain, SCtrl
<1>1. SMain' = SMain /\ UNCHANGED <<wire, open, arg["sMain"]>>
  BY DEF ServerClosesStreams, ServerReports, SendPush, Panic, TypeOK, CtrlType, netVars
<1>2. UNCHANGED ClientView
  BY ServerLocal DEF ServerCtrl
<1>3. \/ /\ SCtrl = "stats" /\ SCtrl' = "push" /\ UNCHANGED ctrlChan
         /\ arg'["sCtrl"] = "IPERF_EXCHANGE_RESULT" /\ state'["server"] = "IPERF_EXCHANGE_RESULT"
      \/ /\ SCtrl = "report" /\ SCtrl' = "push" /\ UNCHANGED ctrlChan
         /\ arg'["sCtrl"] = "IPERF_DONE" /\ state'["server"] = "IPERF_DONE"
      \/ /\ SCtrl = "push" /\ SCtrl' = "write" /\ UNCHANGED <<arg, state>>
         /\ Push("server", arg["sCtrl"])
  BY DEF ServerClosesStreams, ServerReports, SendPush, Panic, ServerPart, TypeOK, CtrlType
<1>4. SMain \in {"loop", "waitCtrl", "waitReset"} /\ ~MainLeads
  BY <1>3 DEF ServerPart
<1>5. /\ Queued("server", "IPERF_CREATE_STREAM")' <=> Queued("server", "IPERF_CREATE_STREAM")
      /\ Once("server", "IPERF_CREATE_STREAM")'
  <2>1. CASE UNCHANGED ctrlChan
    BY <2>1 DEF Queued, Once, ServerPart
  <2>2. CASE SCtrl = "push" /\ Push("server", arg["sCtrl"])
    <3>1. arg["sCtrl"] \in State /\ arg["sCtrl"] # "IPERF_CREATE_STREAM"
      BY <2>2 DEF ServerPart, TypeOK, CtrlType
    <3>2. QED
      BY <2>2, <3>1, PushStep DEF ServerPart
  <2>3. QED
    BY <1>3, <2>1, <2>2
<1>6. ServerPart'
  BY <1>1, <1>3, <1>4, <1>5 DEF ServerPart, MainLeads, Creating
<1>7. SRecv' = SRecv
  BY <1>1, <1>3, <1>4 DEF SRecv, NoHandlerYet, BetweenSessions
<1>8. SSent' = SSent
  BY <1>1, <1>3, <1>4, <1>5 DEF SSent, MainLeads, Creating
<1>9. QED
  BY <1>1, <1>2, <1>6, <1>7, <1>8, ClientStays, Quiet DEF ServerSame

LEMMA ServerSendsResultsTalk ==
    TypeOK /\ Conversation /\ ServerSendsResults => ServerPart' /\ ClientPart' /\ Talk'
<1> SUFFICES ASSUME TypeOK, Conversation, ServerSendsResults
             PROVE  ServerPart' /\ ClientPart' /\ Talk'
  OBVIOUS
<1> USE DEF Conversation, SMain, SCtrl
<1>1. /\ SCtrl = "sendResults" /\ SCtrl' = "push" /\ WriteOk("server", "RESULTS")
      /\ SMain' = SMain /\ UNCHANGED <<open, ctrlChan, arg["sMain"]>>
      /\ arg'["sCtrl"] = "IPERF_DISPLAY_RESULT" /\ state'["server"] = "IPERF_DISPLAY_RESULT"
  BY DEF ServerSendsResults, TypeOK, CtrlType
<1>2. UNCHANGED ClientView
  <2>1. ~Gone("server")
    BY <1>1 DEF Gone, TypeOK, CtrlType
  <2>2. QED
    BY <2>1, ServerLocal DEF ServerCtrl
<1>3. SMain \in {"loop", "waitCtrl", "waitReset"} /\ ~MainLeads
  BY <1>1 DEF ServerPart
<1>4. ServerPart'
  BY <1>1, <1>3 DEF ServerPart, MainLeads, Creating, Queued, Once
<1>5. SRecv = 3 /\ SRecv' = 3
  BY <1>1, <1>3 DEF SRecv, NoHandlerYet, BetweenSessions
<1>6. SSent = 5 /\ SSent' = 6
  BY <1>1, <1>3 DEF SSent, MainLeads, Creating, Queued
<1>7. "RESULTS" = FromServer[SSent + 1] /\ SSent < ServerMax(SRecv) /\ "RESULTS" \in Message
  BY <1>5, <1>6, Words DEF ServerMax, Message
<1>8. Talk'
  BY <1>1, <1>2, <1>5, <1>6, <1>7, ClientStays, ServerSays DEF ClientPart
<1>9. ClientPart'
  BY <1>1, <1>2, <1>7, ClientStays, ServerSilent DEF WriteOk
<1>10. QED
  BY <1>4, <1>8, <1>9

LEMMA ServerExitsTalk ==
    /\ TypeOK /\ Conversation
    /\ ServerNotWritten("sCtrl") \/ ServerHandlerFails \/ ServerHandlerReturns
    => ServerPart' /\ ClientPart' /\ Talk'
<1> SUFFICES ASSUME TypeOK, Conversation, ~Gone("server"),
                    ServerNotWritten("sCtrl") \/ ServerHandlerFails \/ ServerHandlerReturns
             PROVE  ServerPart' /\ ClientPart' /\ Talk'
  BY ServerGone
<1> USE DEF Conversation, SMain, SCtrl
<1>1. /\ SCtrl # "exited" /\ SCtrl' = "exited" /\ SMain' = SMain /\ ~open'["server"]
      /\ UNCHANGED <<wire, arg, state>>
      /\ UNCHANGED ctrlChan \/ (SCtrl = "pushDone" /\ Push("server", "IPERF_DONE"))
  BY DEF ServerNotWritten, ServerHandlerFails, ServerHandlerReturns, CloseCtrl, TypeOK, CtrlType,
         NetType
<1>2. UNCHANGED ClientView
  BY ServerLocal DEF ServerCtrl
<1>3. ServerPart'
  <2>1. CASE UNCHANGED ctrlChan
    BY <1>1, <2>1 DEF ServerPart, MainLeads, Creating, Queued, Once
  <2>2. CASE SCtrl = "pushDone" /\ Push("server", "IPERF_DONE")
    <3>1. /\ \A x : Queued("server", x)' <=> Queued("server", x) \/ x = "IPERF_DONE"
          /\ \A x : x # "IPERF_DONE" /\ Once("server", x) => Once("server", x)'
      BY <2>2, PushStep DEF State
    <3>2. QED
      BY <1>1, <2>2, <3>1 DEF ServerPart, MainLeads, Creating
  <2>3. QED
    BY <1>1, <2>1, <2>2
<1>4. QED
  BY <1>1, <1>2, <1>3, ClientStays, Quiet DEF ServerSame

LEMMA ServerCtrlTalk ==
    TypeOK /\ Conversation /\ ServerCtrl => ServerPart' /\ ClientPart' /\ Talk'
  BY ServerReadsTalk, ServerHandlesTalk, ServerSendsResultsTalk, ServerWrittenTalk, ServerExitsTalk
     DEF ServerCtrl

-----------------------------------------------------------------------------
\* Timers and tickers say nothing; a stream goroutine of the client that ends
\* was running.
LEMMA BackgroundTalk ==
    /\ TypeOK /\ Conversation
    /\ \/ \E n \in Session : ClientTimer(n) \/ ServerTimer(n)
       \/ \E e \in End : Stream(e)
       \/ \E t \in Ticker : TickerStep(t)
    => ServerPart' /\ ClientPart' /\ Talk'
<1> SUFFICES ASSUME TypeOK, Conversation,
                    \/ \E n \in Session : ClientTimer(n) \/ ServerTimer(n)
                    \/ \E e \in End : Stream(e)
                    \/ \E t \in Ticker : TickerStep(t)
             PROVE  ServerPart' /\ ClientPart' /\ Talk'
  OBVIOUS
<1>1. ASSUME UNCHANGED ServerView, UNCHANGED ClientView, UNCHANGED wire
      PROVE  ServerPart' /\ ClientPart' /\ Talk'
  BY <1>1, ServerStays, ClientStays, Quiet DEF Conversation
<1>2. ASSUME NEW n \in Session, ClientTimer(n) \/ ServerTimer(n)
      PROVE  ServerPart' /\ ClientPart' /\ Talk'
  BY <1>1, <1>2 DEF ClientTimer, ServerTimer, ServerView, ClientView, Running, netVars,
                   dataVars, testVars
<1>3. ASSUME NEW t \in Ticker, TickerStep(t) PROVE ServerPart' /\ ClientPart' /\ Talk'
  <2>1. t[1] \in Side
    BY DEF Ticker
  <2>2. \/ Gone(t[1])
        \/ UNCHANGED ServerView /\ UNCHANGED ClientView /\ UNCHANGED wire
    BY <1>3 DEF TickerStep, Tick, StatsTickEnds, ReportTickEnds, Panic, ServerView, ClientView,
                Running, ctrlVars, netVars, dataVars, testVars
  <2>3. QED
    BY <1>1, <2>1, <2>2, ClientGone, ServerGone
<1>4. ASSUME NEW e \in End, Stream(e) PROVE ServerPart' /\ ClientPart' /\ Talk'
  <2> USE DEF Stream, StreamSends, StreamReceives, StreamFails, StreamEnds, Turn, Quit
  <2>1. e[1] \in Side /\ strm[e] # "none"
    BY <1>4 DEF End
  <2>2. /\ UNCHANGED <<pc, arg, state, wire, open, ends>>
        /\ UNCHANGED ctrlChan \/ Push(e[1], "TEST_END")
        /\ \A d \in End : d # e => strm'[d] = strm[d]
    BY <1>4 DEF ctrlVars, netVars, testVars, TypeOK, DataType
  <2>3. /\ UNCHANGED ctrlChan["client"] \/ e[1] = "client"
        /\ UNCHANGED ctrlChan["server"] \/ Push("server", "TEST_END")
    BY <2>1, <2>2 DEF Push, TypeOK, CtrlType
  <2>4. ServerPart' /\ ServerSame
    <3>1. CASE UNCHANGED ctrlChan["server"]
      BY <2>2, <3>1, ServerStays DEF ServerView, Conversation
    <3>2. CASE Push("server", "TEST_END")
      <4>1. /\ \A x : Queued("server", x)' <=> Queued("server", x) \/ x = "TEST_END"
            /\ \A x : x # "TEST_END" /\ Once("server", x) => Once("server", x)'
        BY <3>2, PushStep DEF State
      <4>2. QED
        BY <2>2, <4>1 DEF Conversation, ServerPart, ServerSame, SMain, SCtrl, MainLeads, Creating,
                          SSent, SRecv, NoHandlerYet, BetweenSessions
    <3>3. QED
      BY <2>3, <3>1, <3>2
  <2>5. ClientPart' /\ ClientSame
    <3>1. CASE e[1] = "client"
      <4>1. ~NotRunning /\ CMain # "exited"
        BY <2>1, <3>1 DEF NotRunning, Running, Conversation, ClientPart
      <4>2. QED
        BY <2>2, <4>1 DEF Conversation, ClientPart, ClientSame, CSent, CRecv, CMain, CCtrl, Live,
                          Before, After, Telling
    <3>2. CASE e[1] = "server"
      <4>1. UNCHANGED Running
        BY <2>2, <3>2 DEF Running
      <4>2. QED
        BY <2>2, <2>3, <3>2, <4>1, ClientStays DEF ClientView, Conversation
    <3>3. QED
      BY <2>1, <3>1, <3>2
  <2>6. QED
    BY <2>2, <2>4, <2>5, Quiet DEF Conversation
<1>5. QED
  BY <1>2, <1>3, <1>4

-----------------------------------------------------------------------------
\* A new session starts the conversation from its beginning.
LEMMA ConnectTalk == TypeOK /\ Conversation /\ Connect => ServerPart' /\ ClientPart' /\ Talk'
<1> SUFFICES ASSUME TypeOK, Conversation, Connect PROVE ServerPart' /\ ClientPart' /\ Talk'
  OBVIOUS
<1> USE DEF Conversation, Connect, TypeOK, CtrlType, NetType, SMain, SCtrl, CMain, CCtrl
<1>1. ServerPart'
  BY DEF ServerPart, MainLeads, Creating, HandlerInv, NoHandlerYet, BetweenSessions, Queued, Once
<1>2. ctrlChan["client"] = <<>> /\ Running = {}
  BY DEF ClientPart
<1>3. ClientPart'
  BY <1>2 DEF ClientPart, Live, Before, After, Telling, NotRunning, Queued, Running
<1>4. wire'["server"] = <<>> /\ wire'["client"] = <<>>
  OBVIOUS
<1>5. SSent' = 0 /\ SRecv' = 0
  BY DEF SSent, SRecv, Creating, NoHandlerYet
<1>6. CSent' = 0 /\ CRecv' = 0
  BY DEF CSent, CRecv
<1> HIDE DEF Connect
<1>7. Talk'
  BY <1>4, <1>5, <1>6
     DEF Talk, ServerInbox, ClientInbox, Counts, Follows, ClientMax, ServerMax
<1>8. QED
  BY <1>1, <1>3, <1>7

LEMMA TalkInit == Init => Conversation
<1> SUFFICES ASSUME Init PROVE Conversation
  OBVIOUS
<1> USE DEF Init, SMain, SCtrl, CMain, CCtrl
<1>1. ServerPart
  BY DEF ServerPart, MainLeads, Creating, Queued, Once
<1>2. ClientPart
  BY DEF ClientPart, Live, Before, After, Telling, Running
<1>3. Talk
  BY DEF Talk, ServerInbox, ClientInbox, Counts, Live
<1>4. QED
  BY <1>1, <1>2, <1>3, HandlerInit DEF Conversation

LEMMA TalkNext == TypeOK /\ Conversation /\ [Next]_vars => Conversation'
<1> SUFFICES ASSUME TypeOK, Conversation, [Next]_vars PROVE Conversation'
  OBVIOUS
<1>1. HandlerInv'
  BY HandlerNext DEF Conversation
<1>2. ServerPart' /\ ClientPart' /\ Talk'
  <2>1. CASE Connect
    BY <2>1, ConnectTalk
  <2>2. CASE ClientMain \/ ClientCtrl \/ ServerMain \/ ServerCtrl
    BY <2>2, ClientMainTalk, ClientCtrlTalk, ServerMainTalk, ServerCtrlTalk
  <2>3. CASE ClientCrash \/ ServerCrash
    BY <2>3, ClientGone, ServerGone DEF ClientCrash, ServerCrash, Exit
  <2>4. CASE \/ \E n \in Session : ClientTimer(n) \/ ServerTimer(n)
             \/ \E e \in End : Stream(e)
             \/ \E t \in Ticker : TickerStep(t)
    BY <2>4, BackgroundTalk
  <2>5. CASE Rest \/ UNCHANGED vars
    <3>1. UNCHANGED ServerView /\ UNCHANGED ClientView /\ UNCHANGED wire
      BY <2>5 DEF Rest, vars, ServerView, ClientView, Running, ctrlVars, netVars, dataVars, testVars
    <3>2. QED
      BY <3>1, ServerStays, ClientStays, Quiet DEF Conversation
  <2>6. QED
    BY <2>1, <2>2, <2>3, <2>4, <2>5 DEF Next
<1>3. QED
  BY <1>1, <1>2 DEF Conversation

-----------------------------------------------------------------------------
\* The control connection of every session carries one fixed conversation, and
\* each goroutine of either process knows by where it stands how much of it has
\* been said and heard, whoever dies, is refused or is late.
THEOREM Converses == Spec => []Conversation
  BY TalkInit, TalkNext, TypeCorrect, PTL DEF Spec

\* So the next message is always of the kind its reader expects: getParams and
\* getResults never read a state, and no handler reads JSON as one.
THEOREM Framed == Spec => []Framing
<1>1. TypeOK /\ Conversation => Framing
  <2> SUFFICES ASSUME TypeOK, Conversation PROVE Framing
    OBVIOUS
  <2> USE DEF Conversation, SMain, SCtrl, CMain, CCtrl
  <2>1. ASSUME CanRead("server")
        PROVE  /\ pc["sMain"] = "getParams" => Head(wire["server"]) = "PARAMS"
               /\ pc["sCtrl"] = "getResults" => Head(wire["server"]) = "RESULTS"
               /\ pc["sCtrl"] = "read" => Head(wire["server"]) \in State
    <3>1. Head(wire["server"]) = FromClient[SRecv + 1]
      BY <2>1, ServerHears
    <3>2. pc["sMain"] = "getParams" => SRecv = 0
      BY DEF SRecv, NoHandlerYet
    <3>3. pc["sCtrl"] = "getResults" => SRecv = 2
      BY DEF SRecv, HandlerInv
    <3>4. pc["sCtrl"] = "read" => SRecv \in {1, 3}
      BY DEF SRecv, HandlerInv
    <3>5. QED
      BY <3>1, <3>2, <3>3, <3>4, Words DEF State
  <2>2. ASSUME CanRead("client")
        PROVE  /\ pc["cCtrl"] = "getResults" => Head(wire["client"]) = "RESULTS"
               /\ pc["cCtrl"] = "read" => Head(wire["client"]) \in State
    <3>1. pc["cCtrl"] = "getResults" => CRecv = 5
      BY DEF CRecv
    <3>2. pc["cCtrl"] = "read" => CRecv \in {0, 1, 2, 3, 4, 6}
      BY DEF CRecv, ClientPart
    <3>3. pc["cCtrl"] \in {"read", "getResults"} => Head(wire["client"]) = FromServer[CRecv + 1]
      BY <2>2, ClientHears DEF Live
    <3>4. QED
      BY <3>1, <3>2, <3>3, Words DEF State
  <2>3. QED
    BY <2>1, <2>2 DEF Framing
<1>2. QED
  BY <1>1, Converses, TypeCorrect, PTL

\* And setSendState, which reads test.state again when it puts it in ctrlChan,
\* puts there the state it was given: no other goroutine has changed it since.
THEOREM QueuedAsSent == Spec => []QueuedIsSent
<1>1. Conversation => QueuedIsSent
  <2> SUFFICES ASSUME Conversation, NEW g \in Goroutine, pc[g] = "push"
               PROVE  state[SideOf(g)] = arg[g]
    BY DEF QueuedIsSent
  <2>1. CASE g \in {"sMain", "sCtrl"}
    BY <2>1 DEF Conversation, ServerPart, SMain, SCtrl
  <2>2. CASE g \in {"cMain", "cCtrl"}
    BY <2>2 DEF Conversation, ClientPart, CMain, CCtrl
  <2>3. QED
    BY <2>1, <2>2
<1>2. QED
  BY <1>1, Converses, PTL
=============================================================================
