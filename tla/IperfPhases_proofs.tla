-------------------------- MODULE IperfPhases_proofs --------------------------
(* Undisturbed, the two processes go through the phases of TestPhases: every  *)
(* step that changes test.state of a side is a step of the abstract protocol, *)
(* for any number of streams, clients and ticks, over any transport.  And the *)
(* server: its handler comes to its last report without an error while no     *)
(* client is killed, and its listen finds the port free.                      *)
EXTENDS IperfResults_proofs

USE ParamsAssumption

USE DEF Side, Goroutine, SideOf, Peer, Goto, SetSend

-----------------------------------------------------------------------------
\* The two processes, as long as nothing but the client's end ends a session.

\* How much the server has said when it is in a state.
Said(st) ==
    CASE st = "IPERF_EXCHANGE_PARAMS" -> 1
      [] st = "IPERF_CREATE_STREAM"   -> 2
      [] st = "TEST_START"            -> 3
      [] st = "TEST_RUNNING"          -> 4
      [] st = "TEST_END"              -> 4
      [] st = "IPERF_EXCHANGE_RESULT" -> 6
      [] st = "IPERF_DISPLAY_RESULT"  -> 7
      [] st = "IPERF_DONE"            -> 8
      [] OTHER                        -> 0

\* Its process has not ended; a session is on; the handler leads.
Alive == SMain # "exited"
InSession == SMain \notin {"accept", "exited"}
HandlerLeads == SMain \in {"loop", "waitCtrl"} /\ ~Creating

\* test.state of the server at each control point.
Standing ==
    /\ SMain # "waitReset"
    /\ SMain = "accept" => state["server"] = "IPERF_START"
    /\ SMain \in {"push", "write"} => state["server"] = arg["sMain"]
    /\ SMain \in {"getParams", "listen"} => state["server"] = "IPERF_EXCHANGE_PARAMS"
    /\ SMain = "acceptStreams" \/ Creating => state["server"] = "IPERF_CREATE_STREAM"
    /\ SMain = "init" => state["server"] = "TEST_START"
    /\ SMain = "reset" => state["server"] = "IPERF_DONE"
    /\ HandlerLeads =>
           /\ SCtrl = "read" => state["server"] \in {"TEST_RUNNING", "IPERF_DONE"}
           /\ SCtrl = "stats" => state["server"] = "TEST_END"
           /\ SCtrl \in {"getResults", "sendResults"} => state["server"] = "IPERF_EXCHANGE_RESULT"
           /\ SCtrl = "report" => state["server"] = "IPERF_DISPLAY_RESULT"
           /\ SCtrl \in {"pushDone", "exited"} => state["server"] = "IPERF_DONE"
    /\ NoHandlerYet \/ SMain = "listen" => ~protoOpen

\* A client that is done, and a server that is.
ServerEnds ==
    /\ HandlerLeads \/ SMain = "reset"
    /\ state["server"] = "IPERF_DONE" \/ (HandlerLeads /\ SCtrl = "report")

\* Each side ends a session when it has gone through the test: the client before
\* its connection closes or its process ends, the server after the client.
Together ==
    /\ Alive => Standing
    /\ Alive /\ Queued("client", "IPERF_DONE") => state["client"] = "IPERF_DONE"
    /\ SMain = "accept" => CMain = "exited" \/ state["client"] = "IPERF_DONE"
    /\ InSession /\ ~Live => state["client"] = "IPERF_DONE"
    /\ InSession /\ ~open["server"] =>
           state["client"] = "IPERF_DONE" /\ state["server"] = "IPERF_DONE"
    /\ InSession /\ state["client"] = "IPERF_DONE" => ServerEnds
    /\ Live /\ state["client"] # "IPERF_DONE" =>
           CRecv + Len(wire["client"]) <= Said(state["server"])
-----------------------------------------------------------------------------
\* All that is known of a session.
Known == Conversation /\ Counting /\ Sampled /\ Course /\ LastEnd /\ Together

\* What a side finds while it is not at its end.
LEMMA InTouch ==
    TypeOK /\ Known /\ InSession /\ (state["client"] # "IPERF_DONE" \/ ~ServerEnds) =>
        /\ Live /\ open["client"] /\ open["server"] /\ state["client"] # "IPERF_DONE"
        /\ SRecv + Len(wire["server"]) = CSent /\ CRecv + Len(wire["client"]) = SSent
        /\ Len(wire["server"]) \in Nat /\ Len(wire["client"]) \in Nat
  BY DEF Known, Together, Conversation, ClientPart, Talk, Counts, TypeOK, NetType

\* A client whose server lives, and which is not at its end, is in the session.
LEMMA ClientInSession ==
    TypeOK /\ Known /\ Alive /\ state["client"] # "IPERF_DONE" /\ CMain # "exited" => InSession
  BY DEF Known, Together, Alive, InSession

\* The server has not said more than its state tells.
LEMMA SaidEnough ==
    Conversation /\ Standing /\ Alive /\ open["server"] => SSent <= Said(state["server"])
<1> SUFFICES ASSUME Conversation, Standing, Alive, open["server"]
             PROVE  SSent <= Said(state["server"])
  OBVIOUS
<1> USE DEF Conversation, Standing, Alive, SSent, Said
<1>1. CASE SMain \in {"push", "write"}
  BY <1>1 DEF ServerPart
<1>2. CASE SMain \in {"getParams", "listen", "acceptStreams", "init"} \/ Creating
  BY <1>2 DEF Creating
<1>3. CASE HandlerLeads
  BY <1>3 DEF HandlerLeads, ServerPart
<1>4. QED
  BY <1>1, <1>2, <1>3 DEF HandlerLeads, ServerPart, HandlerInv, BetweenSessions, SMain

\* When it has told the client to display its results, the server is at its end.
LEMMA LateServer ==
    Conversation /\ Standing /\ InSession /\ open["server"] /\ SSent >= 7 => ServerEnds
<1> SUFFICES ASSUME Conversation, Standing, InSession, open["server"], SSent >= 7 PROVE ServerEnds
  OBVIOUS
<1>1. ~MainLeads
  BY DEF MainLeads, SSent, Creating
<1>2. HandlerLeads
  BY <1>1 DEF HandlerLeads, MainLeads, Conversation, ServerPart, HandlerInv, BetweenSessions, SMain,
              Standing, InSession
<1>3. QED
  BY <1>2 DEF ServerEnds, SSent, HandlerLeads, Standing, Conversation, ServerPart

-----------------------------------------------------------------------------
\* A step of the client, seen from Together; a step of the server.
LEMMA ClientTogether ==
    ASSUME TypeOK, Known, Conversation', UNCHANGED ServerView, UNCHANGED protoOpen,
           SMain = "accept" /\ CMain = "exited" => CMain' = "exited",
           state["client"] = "IPERF_DONE" => state'["client"] = "IPERF_DONE",
           InSession /\ state'["client"] = "IPERF_DONE" => ServerEnds,
           Alive /\ Queued("client", "IPERF_DONE")' => state'["client"] = "IPERF_DONE",
           InSession /\ ~Live' => state'["client"] = "IPERF_DONE",
           ~Alive /\ Live' /\ state'["client"] # "IPERF_DONE" =>
               CRecv' + Len(wire'["client"]) <= Said(state["server"])
    PROVE  Together'
<1>1. /\ (Standing <=> Standing') /\ (Alive <=> Alive') /\ (InSession <=> InSession')
      /\ (ServerEnds <=> ServerEnds') /\ UNCHANGED <<state["server"], open["server"]>>
      /\ SMain' = SMain
  BY DEF ServerView, Standing, Alive, InSession, ServerEnds, HandlerLeads, Creating, Queued,
         SMain, SCtrl, NoHandlerYet, BetweenSessions
<1>2. Alive /\ Live' /\ state'["client"] # "IPERF_DONE" =>
          CRecv' + Len(wire'["client"]) <= Said(state'["server"])
  <2> SUFFICES ASSUME Alive, Live', state'["client"] # "IPERF_DONE"
               PROVE  CRecv' + Len(wire'["client"]) <= Said(state'["server"])
    OBVIOUS
  <2>1. CMain' # "exited"
    BY DEF Conversation, ClientPart, Live
  <2>2. InSession /\ open["server"]
    BY <2>1 DEF Known, Together, Alive, InSession
  <2>3. SSent' <= Said(state'["server"])
    BY <1>1, <2>2, SaidEnough DEF Known, Together, ServerView, SSent, Creating, Queued, SMain, SCtrl
  <2>4. CRecv' + Len(wire'["client"]) = SSent'
    BY <1>1, <2>2 DEF Conversation, Talk, Counts
  <2>5. QED
    BY <2>3, <2>4
<1>3. QED
  BY <1>1, <1>2 DEF Known, Together

LEMMA ServerTogether ==
    ASSUME TypeOK, Known, Conversation', UNCHANGED ClientView, Alive, Alive', Standing',
           InSession' => InSession,
           SMain' = "accept" => SMain = "accept" \/ state["client"] = "IPERF_DONE",
           InSession' /\ ~open'["server"] =>
               state["client"] = "IPERF_DONE" /\ state'["server"] = "IPERF_DONE",
           InSession' /\ state["client"] = "IPERF_DONE" => ServerEnds'
    PROVE  Together'
<1>1. /\ CMain' = CMain /\ (Live <=> Live') /\ state'["client"] = state["client"]
      /\ Queued("client", "IPERF_DONE")' <=> Queued("client", "IPERF_DONE")
  BY DEF ClientView, CMain, CCtrl, Live, Queued
<1>2. Live' /\ state'["client"] # "IPERF_DONE" =>
          CRecv' + Len(wire'["client"]) <= Said(state'["server"])
  <2> SUFFICES ASSUME Live', state'["client"] # "IPERF_DONE"
               PROVE  CRecv' + Len(wire'["client"]) <= Said(state'["server"])
    OBVIOUS
  <2>1. CMain' # "exited"
    BY DEF Conversation, ClientPart, Live
  <2>2. InSession' /\ open'["server"]
    BY <1>1, <2>1 DEF Known, Together, Alive, InSession
  <2>3. (Conversation /\ Standing /\ Alive /\ open["server"] => SSent <= Said(state["server"]))'
    BY SaidEnough, PTL
  <2>4. SSent' <= Said(state'["server"])
    BY <2>2, <2>3
  <2>5. CRecv' + Len(wire'["client"]) = SSent'
    BY <2>2 DEF Conversation, Talk, Counts
  <2>6. QED
    BY <2>4, <2>5
<1>3. QED
  BY <1>1, <1>2 DEF Known, Together

LEMMA TogetherClientGone ==
    TypeOK /\ Known /\ Conversation' /\ Gone("client") /\ (Alive => state["client"] = "IPERF_DONE")
        => Together'
<1> SUFFICES ASSUME TypeOK, Known, Conversation', Gone("client"),
                    Alive => state["client"] = "IPERF_DONE"
             PROVE  Together'
  OBVIOUS
<1>1. UNCHANGED ServerView /\ UNCHANGED protoOpen /\ UNCHANGED state
      /\ CMain' = "exited" /\ ~Live' /\ ctrlChan'["client"] = <<>>
  BY DEF Gone, CloseCtrl, ServerView, CMain, CCtrl, Live, TypeOK, CtrlType, NetType, TestType
<1>2. ~Queued("client", "IPERF_DONE")'
  BY <1>1 DEF Queued
<1>3. QED
  BY <1>1, <1>2, ClientTogether DEF Known, Together, InSession, Alive

LEMMA TogetherServerGone == TypeOK /\ Known /\ Gone("server") => Together'
<1> SUFFICES ASSUME TypeOK, Known, Gone("server") PROVE Together'
  OBVIOUS
<1>1. SMain' = "exited" /\ UNCHANGED <<state, wire["client"], CCtrl, CMain>>
  BY DEF Gone, SMain, CCtrl, CMain, TypeOK, CtrlType, NetType
<1>2. QED
  BY <1>1 DEF Known, Together, Alive, InSession, Live, CRecv


-----------------------------------------------------------------------------
\* The client, undisturbed: it does not crash and is not refused a connection.

\* A step at which it hears nothing and stays in its state.
LEMMA TogetherRests ==
    ASSUME TypeOK, Known, Conversation', UNCHANGED ServerView, UNCHANGED protoOpen,
           CMain # "exited", UNCHANGED state["client"], UNCHANGED wire["client"],
           Live' => Live /\ CRecv' = CRecv,
           InSession /\ Live /\ ~Live' => state["client"] = "IPERF_DONE",
           Alive /\ Queued("client", "IPERF_DONE")' =>
               Queued("client", "IPERF_DONE") \/ state["client"] = "IPERF_DONE"
    PROVE  Together'
  BY ClientTogether DEF Known, Together

\* The main goroutine leaves when the handler tells it, or at one end too many.
LEMMA LeavesWhen ==
    ASSUME NEW m, ends \in Nat, Verdict(m, Counted(m)) = "exit"
    PROVE  m = "IPERF_DONE" \/ (m = "TEST_END" /\ ends > NumStreams)
<1>1. CASE m = "TEST_END"
  <2>1. Counted(m) = ends + 1 /\ NumStreams \in Nat
    BY <1>1 DEF Counted
  <2>2. Verdict(m, Counted(m)) = (CASE ends + 1 = NumStreams -> "stats"
                                    [] ends + 1 > NumStreams + 1 -> "exit"
                                    [] OTHER -> "continue")
    BY <1>1, <2>1 DEF Verdict
  <2>3. QED
    BY <1>1, <2>1, <2>2
<1>2. CASE m # "TEST_END"
  BY <1>2 DEF Verdict
<1>3. QED
  BY <1>1, <1>2

LEMMA TogetherMain == TypeOK /\ Known /\ Conversation' /\ ClientMain => Together'
<1> SUFFICES ASSUME TypeOK, Known, Conversation', ClientMain PROVE Together'
  OBVIOUS
<1> USE DEF TypeOK, CtrlType, NetType, CMain, CCtrl
<1>1. UNCHANGED ServerView /\ UNCHANGED protoOpen
  BY ClientLeavesServer
<1>2. CMain # "exited"
  BY DEF ClientMain, ClientStart, ClientContinue, ClientAllEnded, ClientSendsEnd, SendPush,
         ClientEndWritten, ClientEndNotWritten, ClientExit, ClientPops
<1>3. CASE ClientStart \/ ClientContinue \/ ClientAllEnded
  <2>1. Pop("client") /\ UNCHANGED <<state, wire, CCtrl>>
    BY <1>3 DEF ClientStart, ClientContinue, ClientAllEnded, netVars
  <2>2. \A x : Queued("client", x)' => Queued("client", x)
    BY <2>1, PopStep
  <2>3. QED
    BY <1>1, <1>2, <2>1, <2>2, TogetherRests DEF Live, CRecv
<1>4. CASE SendPush("cMain")
  <2>1. /\ CMain = "push" /\ state["client"] = "TEST_END" /\ Push("client", "TEST_END")
        /\ UNCHANGED <<state, wire, CCtrl>>
    BY <1>4 DEF SendPush, Known, Conversation, ClientPart, netVars
  <2>2. Queued("client", "IPERF_DONE")' <=> Queued("client", "IPERF_DONE")
    BY <2>1, PushStep DEF State
  <2>3. QED
    BY <1>1, <1>2, <2>1, <2>2, TogetherRests DEF Live, CRecv
<1>5. CASE ClientEndWritten
  <2>1. UNCHANGED <<state, wire["client"], ctrlChan, CCtrl>>
    BY <1>5 DEF ClientEndWritten, WriteOk
  <2>2. QED
    BY <1>1, <1>2, <2>1, TogetherRests DEF Live, CRecv, Queued
<1>6. CASE ClientSendsEnd
  <2>1. /\ CMain = "stats" /\ state["client"] = "TEST_RUNNING" /\ state'["client"] = "TEST_END"
        /\ UNCHANGED <<wire, ctrlChan, CCtrl>> /\ CMain' = "push"
    BY <1>6 DEF ClientSendsEnd, netVars, Known, Course
  <2>2. Live <=> Live'
    BY <2>1 DEF Live
  <2>3. CRecv' = CRecv
    BY <2>1 DEF CRecv
  <2>4. Queued("client", "IPERF_DONE")' <=> Queued("client", "IPERF_DONE")
    BY <2>1 DEF Queued
  <2>5. QED
    BY <1>1, <2>1, <2>2, <2>3, <2>4, ClientTogether DEF Known, Together
<1>7. CASE ClientEndNotWritten
  <2>1. Gone("client") /\ WriteErr("client") /\ state["client"] = "TEST_END"
    BY <1>7 DEF ClientEndNotWritten, Exit, Known, Conversation, ClientPart
  <2>2. ~Alive
    BY <1>2, <2>1, ClientInSession, InTouch DEF WriteErr
  <2>3. QED
    BY <2>1, <2>2, TogetherClientGone
<1>8. CASE ClientExit
  <2> DEFINE m == Head(ctrlChan["client"])
  <2>1. Gone("client") /\ ctrlChan["client"] # <<>> /\ Verdict(m, Counted(m)) = "exit"
    BY <1>8 DEF ClientExit, Exit, ClientPops, CanPop
  <2>2. Queued("client", m)
    <3>1. ctrlChan["client"] \in Seq(State)
      OBVIOUS
    <3>2. 1 \in 1..Len(ctrlChan["client"]) /\ ctrlChan["client"][1] = m
      BY <2>1, <3>1
    <3>3. QED
      BY <3>2 DEF Queued
  <2> HIDE DEF m
  <2>3. m = "IPERF_DONE" \/ (m = "TEST_END" /\ ends > NumStreams)
    <3>1. ends \in Nat
      BY DEF TestType
    <3>2. QED
      BY <2>1, <3>1, LeavesWhen
  <2>4. m = "IPERF_DONE"
    BY <2>2, <2>3 DEF Known, LastEnd
  <2>5. QED
    BY <2>1, <2>2, <2>4, TogetherClientGone DEF Known, Together
<1>9. QED
  BY <1>3, <1>4, <1>5, <1>6, <1>7, <1>8 DEF ClientMain

LEMMA TogetherReads ==
    TypeOK /\ Known /\ Conversation' /\ (ClientReads \/ ClientGetResults) => Together'
<1> SUFFICES ASSUME TypeOK, Known, Conversation', ClientReads \/ ClientGetResults PROVE Together'
  OBVIOUS
<1> USE DEF CMain, CCtrl
<1>1. UNCHANGED ServerView /\ UNCHANGED protoOpen
  BY ClientLeavesServer DEF ClientCtrl
<1>2. /\ CCtrl \in {"read", "getResults"} /\ CanRead("client") /\ Consume("client") /\ Live
      /\ UNCHANGED ctrlChan /\ Conversation
  BY DEF ClientReads, ClientGetResults, Live, Known
<1>3. /\ CMain # "exited" /\ state["client"] # "IPERF_DONE" /\ state'["client"] # "IPERF_DONE"
      /\ Live' /\ CRecv' = CRecv + 1
  <2>1. CASE ClientReads
    BY <1>2, <2>1, ClientReadsWord DEF ClientWord, ClientOn, Live, CRecv, ClientReads
  <2>2. CASE ClientGetResults
    <3>1. CCtrl = "getResults" /\ UNCHANGED state /\ CRecv = 5
      BY <2>2 DEF ClientGetResults, CRecv
    <3>2. Head(wire["client"]) = "RESULTS"
      BY <1>2, <3>1, ClientHears, Words DEF Conversation
    <3>3. CCtrl' = "read" /\ state["client"] = "IPERF_EXCHANGE_RESULT"
      BY <1>2, <2>2, <3>1, <3>2
         DEF ClientGetResults, CtrlTop, Conversation, ClientPart, TypeOK, CtrlType
    <3>4. QED
      BY <1>2, <3>1, <3>3 DEF Live, CRecv, Conversation, ClientPart
  <2>3. QED
    BY <2>1, <2>2
<1>4. Len(wire["client"]) \in Nat \ {0} /\ Len(wire'["client"]) = Len(wire["client"]) - 1
  BY <1>2, ReadStep, CountRange DEF Conversation, Talk, ClientInbox
<1>5. CRecv' + Len(wire'["client"]) = CRecv + Len(wire["client"])
  <2>1. CRecv \in Nat
    BY CountRange
  <2>2. \A a \in Nat : \A b \in Nat \ {0} : (a + 1) + (b - 1) = a + b
    OBVIOUS
  <2>3. CRecv' + Len(wire'["client"]) = (CRecv + 1) + (Len(wire["client"]) - 1)
    BY <1>3, <1>4
  <2>4. QED
    BY <1>4, <2>1, <2>2, <2>3
<1>6. Queued("client", "IPERF_DONE")' <=> Queued("client", "IPERF_DONE")
  BY <1>2 DEF Queued
<1>7. QED
  BY <1>1, <1>2, <1>3, <1>5, <1>6, ClientTogether DEF Known, Together

LEMMA TogetherCtrl ==
    TypeOK /\ Known /\ Conversation' /\ ClientCtrl /\ "refused" \notin Faults => Together'
<1> SUFFICES ASSUME TypeOK, Known, Conversation', ClientCtrl, "refused" \notin Faults
             PROVE  Together'
  OBVIOUS
<1> USE DEF CMain, CCtrl
<1>1. UNCHANGED ServerView /\ UNCHANGED protoOpen
  BY ClientLeavesServer
<1>2. ClientPart /\ Conversation /\ CCtrl # "exited"
  BY DEF ClientCtrl, ClientReads, ClientReadFails, ClientSendParams, ClientSendResults,
         ClientGetResults, ClientResultsFail, ClientConnects, ClientConnectRefused, ClientInits,
         ClientPushesRunning, ClientClosesStreams, ClientReports, SendPush, ClientSendsDone,
         ClientClosesCtrl, ClientPushesDone, ClientSends, Known, Conversation
<1>3. CMain # "exited"
  BY <1>2 DEF ClientPart
<1>4. Alive /\ state["client"] # "IPERF_DONE" =>
          Live /\ ~ReadErr("client") /\ ~WriteErr("client")
  BY <1>3, ClientInSession, InTouch DEF ReadErr, WriteErr
<1>5. InSession => Alive
  BY DEF InSession, Alive
<1>6. CASE ClientReads \/ ClientGetResults
  BY <1>6, TogetherReads
<1>7. CASE ClientReadFails \/ ClientResultsFail \/ ClientConnectRefused
  <2>1. /\ UNCHANGED <<state, wire, ctrlChan>> /\ CCtrl' = "pushDone"
        /\ CCtrl \in {"read", "getResults", "connect"}
        /\ ReadErr("client") \/ ~Dialable
    BY <1>7 DEF ClientReadFails, ClientResultsFail, ClientConnectRefused, netVars, TypeOK, CtrlType
  <2>2. ~Alive
    BY <1>2, <1>4, <2>1 DEF ClientPart, Dialable, Alive, SMain
  <2>3. QED
    BY <1>1, <1>3, <1>5, <2>1, <2>2, TogetherRests DEF Live, Queued
<1>8. CASE ClientSendParams \/ ClientSendResults \/ ClientSendsDone
  <2>1. /\ UNCHANGED <<state, wire["client"], ctrlChan>>
        /\ CCtrl \in {"sendParams", "sendResults", "write"}
        /\ \/ CCtrl' = (IF CCtrl = "sendParams" THEN "read" ELSE
                        IF CCtrl = "sendResults" THEN "getResults" ELSE "close")
           \/ WriteErr("client") /\ CCtrl # "write" /\ CCtrl' = "pushDone"
    BY <1>2, <1>8 DEF ClientSendParams, ClientSendResults, ClientSendsDone, ClientSends, CtrlTop,
                      WriteOk, ClientPart, TypeOK, CtrlType, NetType
  <2>2. Live /\ (Live' => CRecv' = CRecv)
    BY <1>2, <2>1 DEF Live, CRecv, ClientPart
  <2>3. ~Live' => ~Alive
    BY <1>2, <1>4, <2>1 DEF Live, ClientPart
  <2>4. QED
    BY <1>1, <1>3, <1>5, <2>1, <2>2, <2>3, TogetherRests DEF Queued
<1>9. CASE ClientConnects \/ ClientInits \/ ClientClosesStreams
  <2>1. /\ UNCHANGED <<state, wire, ctrlChan>>
        /\ \/ CCtrl = "connect" /\ CCtrl' \in {"connect", "read"}
           \/ CCtrl = "init" /\ CCtrl' = "read"
           \/ CCtrl = "clientEnd" /\ CCtrl' = "report"
    BY <1>2, <1>9 DEF ClientConnects, ClientInits, ClientClosesStreams, CtrlTop, netVars,
                      ClientPart, TypeOK, CtrlType
  <2>2. Live /\ Live' /\ CRecv' = CRecv
    BY <1>2, <2>1 DEF Live, CRecv, ClientPart
  <2>3. QED
    BY <1>1, <1>3, <2>1, <2>2, TogetherRests DEF Queued
<1>10. CASE ClientPushesRunning \/ SendPush("cCtrl")
  <2>1. /\ UNCHANGED <<state, wire>>
        /\ \/ /\ CCtrl = "pushRunning" /\ CCtrl' = "read" /\ Push("client", "TEST_RUNNING")
           \/ /\ CCtrl = "push" /\ CCtrl' = "write" /\ Push("client", "IPERF_DONE")
              /\ state["client"] = "IPERF_DONE"
    BY <1>2, <1>10 DEF ClientPushesRunning, SendPush, CtrlTop, netVars, ClientPart, TypeOK, CtrlType
  <2>2. Live /\ Live' /\ CRecv' = CRecv
    BY <1>2, <2>1 DEF Live, CRecv, ClientPart
  <2>3. Queued("client", "IPERF_DONE")' =>
            Queued("client", "IPERF_DONE") \/ state["client"] = "IPERF_DONE"
    BY <2>1, PushStep DEF State
  <2>4. QED
    BY <1>1, <1>3, <2>1, <2>2, <2>3, TogetherRests
<1>11. CASE ClientReports
  <2>1. /\ CCtrl = "report" /\ CCtrl' = "push" /\ state'["client"] = "IPERF_DONE"
        /\ UNCHANGED <<wire, ctrlChan>>
    BY <1>11, ReportsSampled DEF ClientReports, Known, netVars, TypeOK, CtrlType
  <2>2. Live /\ Live' /\ CRecv = 7
    BY <2>1 DEF Live, CRecv
  <2>3. InSession => ServerEnds
    <3> SUFFICES ASSUME InSession, ~ServerEnds PROVE FALSE
      OBVIOUS
    <3>1. open["server"] /\ SSent >= 7
      BY <2>2, InTouch
    <3>2. QED
      BY <1>2, <1>5, <3>1, LateServer DEF Known, Together
  <2>4. QED
    BY <1>1, <1>3, <2>1, <2>2, <2>3, ClientTogether
<1>12. CASE ClientClosesCtrl
  <2>1. UNCHANGED <<state, wire, ctrlChan>> /\ CCtrl = "close" /\ CCtrl' = "endPush"
    BY <1>12 DEF ClientClosesCtrl, TypeOK, CtrlType
  <2>2. QED
    BY <1>1, <1>2, <1>3, <2>1, TogetherRests DEF Live, Queued, ClientPart
<1>13. CASE ClientPushesDone
  <2>1. UNCHANGED <<state, wire>> /\ ~Live /\ ~Live' /\ Push("client", "IPERF_DONE")
    BY <1>2, <1>13 DEF ClientPushesDone, CtrlTop, ClientPart, Live, netVars, TypeOK, CtrlType
  <2>2. QED
    BY <1>1, <1>3, <1>4, <2>1, TogetherRests
<1>14. QED
  BY <1>6, <1>7, <1>8, <1>9, <1>10, <1>11, <1>12, <1>13 DEF ClientCtrl

-----------------------------------------------------------------------------
\* The server, undisturbed: it reads the parameters whole.  While its main
\* goroutine leads, the client is not at its end, and neither side is gone.
LEMMA MainInTouch ==
    TypeOK /\ Known /\ Alive /\ SMain # "accept" /\ SMain # "reset" /\ ~HandlerLeads =>
        /\ InSession /\ state["client"] # "IPERF_DONE"
        /\ open["client"] /\ open["server"]
  BY InTouch DEF ServerEnds, InSession, Alive

LEMMA TogetherLeads ==
    /\ TypeOK /\ Known /\ Conversation'
    /\ \/ ServerGetsParams \/ ServerListens \/ ServerAccepts \/ ServerInits \/ SendPush("sMain")
       \/ ServerWritten("sMain")
    => Together'
<1> SUFFICES ASSUME TypeOK, Known, Conversation',
                    \/ ServerGetsParams \/ ServerListens \/ ServerAccepts \/ ServerInits
                    \/ SendPush("sMain") \/ ServerWritten("sMain")
             PROVE  Together'
  OBVIOUS
<1> USE DEF TypeOK, CtrlType, NetType, SMain, SCtrl
<1>1. /\ SMain \in {"push", "write", "getParams", "listen", "acceptStreams", "init"}
      /\ SMain' \in {"push", "write", "getParams", "listen", "loop", "acceptStreams", "init"}
      /\ UNCHANGED open
  <2>1. ServerPart
    BY DEF Known, Conversation
  <2>2. ServerWritten("sMain") =>
            SMain = "write" /\ SMain' \in {"getParams", "init", "loop"} /\ UNCHANGED open
    BY <2>1 DEF ServerWritten, AfterSend, ServerPart
  <2>3. QED
    BY <2>2 DEF ServerGetsParams, ServerListens, ServerAccepts, ServerInits, SendPush, netVars
<1>2. Alive /\ Alive' /\ InSession /\ ~HandlerLeads /\ ServerPart /\ HandlerInv /\ Standing
      /\ Conversation
  BY <1>1 DEF Alive, InSession, HandlerLeads, Known, Conversation, Together
<1>3. state["client"] # "IPERF_DONE" /\ open["server"]
  BY <1>1, <1>2, MainInTouch
<1>4. UNCHANGED ClientView
  <2>1. ~Gone("server")
    BY <1>1 DEF Gone
  <2>2. QED
    BY <1>2, <2>1, ServerLocal DEF ServerMain
<1>5. Standing'
  <2> USE DEF Standing, HandlerLeads, Creating, NoHandlerYet, BetweenSessions
  <2>1. CASE ServerGetsParams
    BY <1>2, <2>1 DEF ServerGetsParams, testVars
  <2>2. CASE ServerListens \/ ServerAccepts \/ ServerInits
    BY <1>2, <2>2 DEF ServerListens, ServerAccepts, ServerInits, testVars
  <2>3. CASE SendPush("sMain")
    BY <1>2, <2>3 DEF SendPush, testVars
  <2>4. CASE ServerWritten("sMain")
    <3>1. /\ SMain = "write" /\ SMain' = AfterSend(arg["sMain"]) /\ state'["server"] = arg["sMain"]
          /\ UNCHANGED <<SCtrl, arg, ctrlChan, protoOpen>>
      BY <1>2, <2>4 DEF ServerWritten, testVars
    <3>2. Queued("server", "IPERF_CREATE_STREAM")' <=> arg["sMain"] = "IPERF_CREATE_STREAM"
      BY <1>2, <3>1 DEF ServerPart, Queued
    <3>3. arg["sMain"] # "IPERF_EXCHANGE_PARAMS" => SCtrl = "read"
      BY <1>2, <1>3, <3>1 DEF ServerPart, MainLeads, HandlerInv
    <3>4. QED
      BY <1>2, <3>1, <3>2, <3>3 DEF AfterSend, ServerPart
  <2>5. QED
    BY <2>1, <2>2, <2>3, <2>4
<1>6. QED
  BY <1>1, <1>2, <1>3, <1>4, <1>5, ServerTogether

LEMMA TogetherPops == TypeOK /\ Known /\ Conversation' /\ ServerPops => Together'
<1> SUFFICES ASSUME TypeOK, Known, Conversation', ServerPops PROVE Together'
  OBVIOUS
<1> USE DEF SMain, SCtrl
<1> DEFINE m == Head(ctrlChan["server"])
<1>1. /\ SMain = "loop" /\ Pop("server")
      /\ UNCHANGED <<state, arg, open, protoOpen, SCtrl>>
      /\ SMain' = (IF m = "IPERF_DONE" THEN "waitCtrl" ELSE
                   IF m = "IPERF_CREATE_STREAM" THEN "acceptStreams" ELSE "loop")
  BY DEF ServerPops, ServerOn, TypeOK, CtrlType, netVars, testVars
<1>2. /\ Queued("server", m)
      /\ \A x : Queued("server", x)' => Queued("server", x)
      /\ \A x : Queued("server", x) /\ x # m => Queued("server", x)'
  BY <1>1, PopStep
<1> HIDE DEF m
<1>3. Alive /\ Alive' /\ InSession /\ ServerPart /\ Standing /\ Conversation
  BY <1>1 DEF Alive, InSession, Known, Conversation, Together
<1>4. UNCHANGED ClientView
  <2>1. ~Gone("server")
    BY <1>1 DEF Gone, TypeOK, CtrlType
  <2>2. QED
    BY <1>3, <2>1, ServerLocal DEF ServerMain
<1>5. IF Creating THEN SMain' = "acceptStreams" \/ Creating' ELSE HandlerLeads /\ HandlerLeads'
  BY <1>1, <1>2, <1>3 DEF Creating, HandlerLeads, ServerPart, MainLeads
<1>6. Standing'
  BY <1>1, <1>2, <1>3, <1>5 DEF Standing, HandlerLeads, Creating, NoHandlerYet, BetweenSessions
<1>7. ServerEnds => ServerEnds'
  BY <1>1, <1>5 DEF ServerEnds, HandlerLeads
<1>8. QED
  BY <1>1, <1>3, <1>4, <1>6, <1>7, ServerTogether DEF Known, Together

\* The ways in which the main goroutine ends a session: only after the client.
LEMMA TogetherLeaves ==
    /\ TypeOK /\ Known /\ Conversation' /\ "shortRead" \notin Faults
    /\ \/ ServerResets \/ ServerParamsFail \/ ServerListenFails \/ ServerNotWritten("sMain")
       \/ ServerCtrlDone
    => Together'
<1> SUFFICES ASSUME TypeOK, Known, Conversation', "shortRead" \notin Faults,
                    \/ ServerResets \/ ServerParamsFail \/ ServerListenFails
                    \/ ServerNotWritten("sMain") \/ ServerCtrlDone
             PROVE  Together'
  OBVIOUS
<1> USE DEF TypeOK, CtrlType, NetType, SMain, SCtrl
<1>1. /\ SMain \in {"reset", "getParams", "listen", "write", "loop", "waitCtrl", "waitReset"}
      /\ Alive /\ InSession /\ ServerPart /\ HandlerInv /\ Standing /\ Conversation
  BY DEF ServerResets, ServerParamsFail, ServerListenFails, ServerNotWritten, ServerCtrlDone,
         Alive, InSession, Known, Conversation, Together
<1>2. ~(ServerParamsFail \/ ServerListenFails \/ ServerNotWritten("sMain"))
  <2>1. SMain \in {"getParams", "write"} => open["client"] /\ open["server"]
    BY <1>1, MainInTouch DEF HandlerLeads
  <2>2. ~ServerListenFails
    BY <1>1 DEF ServerListenFails, Standing
  <2>3. ~ServerParamsFail /\ ~ServerNotWritten("sMain")
    BY <2>1 DEF ServerParamsFail, ServerNotWritten, ReadErr, WriteErr
  <2>4. QED
    BY <2>2, <2>3
<1>3. /\ ServerResets \/ ServerCtrlDone
      /\ SMain' \in {"accept", "reset"} /\ UNCHANGED <<open, SCtrl>>
  BY <1>2 DEF ServerResets, ServerCtrlDone, netVars
<1>4. UNCHANGED ClientView
  <2>1. ~Gone("server")
    BY <1>3 DEF Gone
  <2>2. QED
    BY <1>1, <2>1, ServerLocal DEF ServerMain
<1>5. ~open["server"]
  BY <1>1, <1>3 DEF ServerResets, ServerCtrlDone, CtrlDone, HandlerInv, NoHandlerYet,
                    BetweenSessions
<1>6. state["client"] = "IPERF_DONE" /\ state["server"] = "IPERF_DONE"
  BY <1>1, <1>5 DEF Known, Together
<1>7. CASE ServerResets
  <2>1. /\ SMain = "reset" /\ SMain' = "accept" /\ state'["server"] = "IPERF_START"
        /\ UNCHANGED protoOpen
    BY <1>7 DEF ServerResets, testVars
  <2>2. Standing'
    BY <1>1, <2>1 DEF Standing, HandlerLeads, Creating, NoHandlerYet, BetweenSessions
  <2>3. QED
    BY <1>1, <1>4, <1>6, <2>1, <2>2, ServerTogether DEF Alive, InSession
<1>8. CASE ServerCtrlDone
  <2>1. SMain' = "reset" /\ UNCHANGED state /\ ~protoOpen'
    BY <1>1, <1>8 DEF ServerCtrlDone, Standing
  <2>2. Standing' /\ ServerEnds'
    BY <1>6, <2>1
       DEF Standing, HandlerLeads, Creating, NoHandlerYet, BetweenSessions, ServerEnds
  <2>3. QED
    BY <1>1, <1>4, <1>6, <2>1, <2>2, ServerTogether DEF Alive, InSession
<1>9. QED
  BY <1>3, <1>7, <1>8

LEMMA TogetherServerMain ==
    TypeOK /\ Known /\ Conversation' /\ ServerMain /\ "shortRead" \notin Faults => Together'
  BY TogetherLeads, TogetherPops, TogetherLeaves DEF ServerMain

\* The handler, once it leads.
LEMMA HandlerLed ==
    ASSUME TypeOK, Known, Alive, SCtrl # "exited", SCtrl # "read" \/ ~MainLeads, ~NoHandlerYet
    PROVE  HandlerLeads /\ InSession /\ ~Creating
<1>1. ServerPart /\ Standing
  BY DEF Known, Conversation, Together
<1>2. ~MainLeads
  BY <1>1 DEF ServerPart
<1>3. QED
  BY <1>1, <1>2 DEF ServerPart, MainLeads, Standing, NoHandlerYet, BetweenSessions, HandlerLeads,
                    InSession, Alive, SMain

LEMMA TogetherHandler ==
    /\ TypeOK /\ Known /\ Conversation'
    /\ \/ ServerReadsEnd \/ ServerReadsOther \/ ServerGetsResults \/ ServerClosesStreams
       \/ ServerSendsResults \/ ServerReports \/ SendPush("sCtrl") \/ ServerWritten("sCtrl")
    => Together'
<1> SUFFICES ASSUME TypeOK, Known, Conversation', ~Gone("server"),
                    \/ ServerReadsEnd \/ ServerReadsOther \/ ServerGetsResults
                    \/ ServerClosesStreams \/ ServerSendsResults \/ ServerReports
                    \/ SendPush("sCtrl") \/ ServerWritten("sCtrl")
             PROVE  Together'
  BY TogetherServerGone
<1> USE DEF TypeOK, CtrlType, NetType, SMain, SCtrl
<1>1. UNCHANGED ClientView
  BY ServerLocal DEF Known, ServerCtrl
<1>2. /\ UNCHANGED <<open, protoOpen, SMain>> /\ SCtrl # "exited"
      /\ Conversation /\ ServerPart /\ HandlerInv /\ Standing
  <2>1. UNCHANGED <<open, protoOpen, SMain>> /\ SCtrl # "exited"
    BY DEF ServerReadsEnd, ServerReadsOther, ServerGetsResults, ServerClosesStreams,
           ServerSendsResults, ServerReports, SendPush, ServerWritten, Panic, netVars, testVars
  <2>2. Conversation /\ ServerPart /\ HandlerInv
    BY DEF Known, Conversation
  <2>3. QED
    BY <2>1, <2>2 DEF Known, Together, Alive, ServerPart
<1>3. HandlerLeads /\ InSession /\ ~Creating
  <2>1. SCtrl # "read" \/ ~MainLeads
    BY ServerReadsWord DEF Known, ServerClosesStreams, ServerSendsResults, ServerReports,
         SendPush, ServerWritten
  <2>2. Alive /\ ~NoHandlerYet
    BY <1>2 DEF ServerPart, HandlerInv, Alive
  <2>3. QED
    BY <1>2, <2>1, <2>2, HandlerLed
<1>4. Alive /\ Alive' /\ InSession' /\ (HandlerLeads' <=> ~Creating')
  BY <1>2, <1>3 DEF Alive, InSession, HandlerLeads
<1>5. /\ ~Creating'
      /\ \/ SCtrl = "read" /\ state["server"] # "IPERF_DONE" /\ SCtrl' = "stats"
            /\ state'["server"] = "TEST_END"
         \/ SCtrl = "read" /\ state["server"] = "IPERF_DONE" /\ SCtrl' = "pushDone"
            /\ state'["server"] = "IPERF_DONE"
         \/ SCtrl = "getResults" /\ SCtrl' = "sendResults" /\ UNCHANGED state
         \/ SCtrl = "stats" /\ SCtrl' = "push"
         \/ SCtrl = "sendResults" /\ SCtrl' = "push"
         \/ SCtrl = "report" /\ SCtrl' = "push" /\ state'["server"] = "IPERF_DONE"
         \/ SCtrl = "push" /\ SCtrl' = "write" /\ UNCHANGED state
         \/ SCtrl = "write" /\ UNCHANGED state /\ SCtrl' = AfterSend(arg["sCtrl"])
  <2>1. CASE ServerReadsEnd \/ ServerReadsOther \/ ServerGetsResults
    <3>1. UNCHANGED ctrlChan
      BY <2>1 DEF ServerReadsEnd, ServerReadsOther, ServerGetsResults
    <3>2. QED
      BY <1>2, <1>3, <2>1, <3>1, ServerReadsWord DEF ServerWord, Creating, Queued
  <2>2. CASE ServerClosesStreams \/ ServerSendsResults \/ ServerReports \/ ServerWritten("sCtrl")
    BY <1>2, <1>3, <2>2 DEF ServerClosesStreams, ServerSendsResults, ServerReports, ServerWritten,
                            Panic, Creating, Queued
  <2>3. CASE SendPush("sCtrl")
    <3>1. /\ SCtrl = "push" /\ SCtrl' = "write" /\ UNCHANGED state
          /\ Push("server", state["server"])
      BY <2>3 DEF SendPush
    <3>2. state["server"] \in State /\ state["server"] # "IPERF_CREATE_STREAM"
      BY <1>2, <3>1 DEF ServerPart
    <3>3. ~Creating'
      BY <1>2, <1>3, <3>1, <3>2, PushStep DEF Creating
    <3>4. QED
      BY <3>1, <3>3
  <2>4. QED
    BY <2>1, <2>2, <2>3
<1>6. Standing'
  BY <1>2, <1>3, <1>4, <1>5
     DEF Standing, HandlerLeads, NoHandlerYet, BetweenSessions, ServerPart, AfterSend
<1>7. ServerEnds => ServerEnds'
  BY <1>2, <1>3, <1>4, <1>5 DEF ServerEnds, Standing
<1>8. SMain' # "accept" /\ UNCHANGED <<open["server"]>>
  BY <1>2, <1>3 DEF InSession
<1>9. InSession /\ ~open["server"] =>
          state["client"] = "IPERF_DONE" /\ state'["server"] = "IPERF_DONE"
  BY <1>2, <1>3, <1>5 DEF Known, Together, Standing
<1>10. QED
  BY <1>1, <1>3, <1>4, <1>6, <1>7, <1>8, <1>9, ServerTogether DEF Known, Together

\* It returns when the client has said that it is done, and closed.
LEMMA TogetherReturns ==
    /\ TypeOK /\ Known /\ Conversation'
    /\ ServerNotWritten("sCtrl") \/ ServerHandlerFails \/ ServerHandlerReturns
    => Together'
<1> SUFFICES ASSUME TypeOK, Known, Conversation',
                    ServerNotWritten("sCtrl") \/ ServerHandlerFails \/ ServerHandlerReturns
             PROVE  Together'
  OBVIOUS
<1> USE DEF TypeOK, CtrlType, NetType, SMain, SCtrl
<1>1. /\ UNCHANGED <<state, protoOpen, SMain>> /\ SCtrl' = "exited" /\ ~open'["server"]
      /\ SCtrl \in {"write", "read", "getResults", "sendResults", "pushDone"}
      /\ SCtrl # "pushDone" => ReadErr("server") \/ WriteErr("server")
      /\ UNCHANGED ctrlChan \/ Push("server", "IPERF_DONE")
      /\ UNCHANGED arg
      /\ Conversation /\ ServerPart /\ HandlerInv /\ Standing
  BY DEF ServerNotWritten, ServerHandlerFails, ServerHandlerReturns, CloseCtrl, testVars,
         Known, Conversation, Together, Alive, ServerPart
<1>2. Alive /\ Alive' /\ ~NoHandlerYet /\ InSession
  BY <1>1 DEF ServerPart, HandlerInv, Alive, InSession, NoHandlerYet, BetweenSessions
<1>3. UNCHANGED ClientView
  <2>1. ~Gone("server")
    BY <1>1, <1>2 DEF Gone, Alive
  <2>2. QED
    BY <1>1, <2>1, ServerLocal DEF ServerCtrl
<1>4. state["client"] = "IPERF_DONE"
  <2> SUFFICES ASSUME state["client"] # "IPERF_DONE" PROVE FALSE
    OBVIOUS
  <2>1. /\ open["client"] /\ open["server"] /\ SRecv + Len(wire["server"]) = CSent
        /\ Len(wire["server"]) \in Nat
    BY <1>2, InTouch
  <2>2. SCtrl = "pushDone"
    BY <1>1, <2>1 DEF ReadErr, WriteErr
  <2>3. SRecv = 4
    BY <1>2, <2>2 DEF SRecv
  <2>4. CSent >= 4
    BY <2>1, <2>3, CountRange
  <2>5. CCtrl = "close"
    BY <2>4 DEF CSent
  <2>6. QED
    BY <1>1, <2>5 DEF Conversation, ClientPart
<1>5. ServerEnds
  BY <1>2, <1>4 DEF Known, Together
<1>6. state["server"] = "IPERF_DONE" /\ HandlerLeads
  BY <1>1, <1>2, <1>5 DEF ServerEnds, NoHandlerYet, BetweenSessions
<1>7. Creating' <=> Creating
  BY <1>1, PushStep DEF Creating, Queued, State
<1>8. Standing' /\ ServerEnds'
  BY <1>1, <1>2, <1>6, <1>7
     DEF Standing, HandlerLeads, ServerEnds, NoHandlerYet, BetweenSessions
<1>9. QED
  BY <1>1, <1>2, <1>3, <1>4, <1>6, <1>8, ServerTogether DEF InSession

LEMMA TogetherServerCtrl == TypeOK /\ Known /\ Conversation' /\ ServerCtrl => Together'
  BY TogetherHandler, TogetherReturns DEF ServerCtrl

-----------------------------------------------------------------------------
\* A new session, and what goes on beside the control goroutines.
LEMMA TogetherConnect == TypeOK /\ Known /\ Conversation' /\ Connect => Together'
<1> SUFFICES ASSUME TypeOK, Known, Conversation', Connect PROVE Together'
  OBVIOUS
<1> USE DEF TypeOK, CtrlType, NetType
<1>1. /\ SMain = "accept" /\ SMain' = "push" /\ CMain' = "loop" /\ CCtrl' = "read"
      /\ state' = [client |-> "ZERO", server |-> "IPERF_EXCHANGE_PARAMS"]
      /\ arg'["sMain"] = "IPERF_EXCHANGE_PARAMS"
      /\ wire'["client"] = <<>> /\ open'["server"] /\ UNCHANGED <<ctrlChan, protoOpen>>
      /\ CMain = "exited"
  BY DEF Connect, SMain, CMain, CCtrl
<1>2. Standing /\ ctrlChan["client"] = <<>>
  BY <1>1 DEF Known, Together, Alive, Conversation, ClientPart
<1>3. Standing'
  BY <1>1, <1>2 DEF Standing, HandlerLeads, Creating, NoHandlerYet, BetweenSessions, SMain
<1>4. ~Queued("client", "IPERF_DONE")'
  BY <1>1, <1>2 DEF Queued
<1>5. CRecv' + Len(wire'["client"]) = 0
  BY <1>1 DEF CRecv
<1>6. Live'
  BY <1>1 DEF Live
<1>7. QED
  BY <1>1, <1>3, <1>4, <1>5, <1>6 DEF Together, InSession, ServerEnds, HandlerLeads, Said

\* A step of neither control goroutine.
LEMMA TogetherStays ==
    /\ Known /\ UNCHANGED <<pc, arg, state, wire, open, protoOpen>>
    /\ Queued("client", "IPERF_DONE")' => Queued("client", "IPERF_DONE")
    /\ Queued("server", "IPERF_CREATE_STREAM")' <=> Queued("server", "IPERF_CREATE_STREAM")
    => Together'
<1> SUFFICES ASSUME Known, UNCHANGED <<pc, arg, state, wire, open, protoOpen>>,
                    Queued("client", "IPERF_DONE")' => Queued("client", "IPERF_DONE"),
                    Queued("server", "IPERF_CREATE_STREAM")' <=>
                        Queued("server", "IPERF_CREATE_STREAM")
             PROVE  Together'
  OBVIOUS
<1> USE DEF SMain, SCtrl, CMain, CCtrl
<1>1. /\ Standing <=> Standing'
      /\ Alive <=> Alive'
      /\ InSession <=> InSession'
      /\ ServerEnds <=> ServerEnds'
      /\ Live <=> Live'
  BY DEF Standing, Alive, InSession, ServerEnds, HandlerLeads, Creating, NoHandlerYet,
         BetweenSessions, Live
<1>2. CRecv' = CRecv
  BY DEF CRecv
<1>3. QED
  BY <1>1, <1>2 DEF Known, Together

LEMMA TogetherBackground ==
    /\ TypeOK /\ Known
    /\ \/ \E n \in Session : ClientTimer(n) \/ ServerTimer(n)
       \/ \E e \in End : Stream(e)
       \/ \E t \in Ticker : TickerStep(t)
    => \/ Together'
       \/ \E t \in Ticker : t[1] = "client" /\ Gone("client") /\ TickerStep(t)
<1> SUFFICES ASSUME TypeOK, Known,
                    \/ \E n \in Session : ClientTimer(n) \/ ServerTimer(n)
                    \/ \E e \in End : Stream(e)
                    \/ \E t \in Ticker : TickerStep(t)
             PROVE  \/ Together'
                    \/ \E t \in Ticker : t[1] = "client" /\ Gone("client") /\ TickerStep(t)
  OBVIOUS
<1> USE DEF ctrlVars, netVars, testVars
<1>1. ASSUME NEW n \in Session, ClientTimer(n) \/ ServerTimer(n) PROVE Together'
  <2>1. UNCHANGED <<pc, arg, state, wire, open, protoOpen, ctrlChan>>
    BY <1>1 DEF ClientTimer, ServerTimer
  <2>2. QED
    BY <2>1, TogetherStays DEF Queued
<1>2. ASSUME NEW e \in End, Stream(e) PROVE Together'
  <2>1. /\ e[1] \in Side /\ UNCHANGED <<pc, arg, state, wire, open, protoOpen>>
        /\ UNCHANGED ctrlChan \/ Push(e[1], "TEST_END")
    BY <1>2 DEF Stream, StreamSends, StreamReceives, StreamFails, StreamEnds, Turn, Quit, End
  <2>2. /\ Queued("client", "IPERF_DONE")' => Queued("client", "IPERF_DONE")
        /\ Queued("server", "IPERF_CREATE_STREAM")' <=> Queued("server", "IPERF_CREATE_STREAM")
    <3>1. CASE UNCHANGED ctrlChan
      BY <3>1 DEF Queued
    <3>2. CASE Push("client", "TEST_END")
      BY <3>2, PushStep DEF State, Queued
    <3>3. CASE Push("server", "TEST_END")
      BY <3>3, PushStep DEF State, Queued
    <3>4. QED
      BY <2>1, <3>1, <3>2, <3>3
  <2>3. QED
    BY <2>1, <2>2, TogetherStays
<1>3. ASSUME NEW t \in Ticker, TickerStep(t), ~(t[1] = "client" /\ Gone("client"))
      PROVE  Together'
  <2>1. t[1] \in Side
    BY DEF Ticker
  <2>2. \/ Gone("server")
        \/ UNCHANGED <<pc, arg, state, wire, open, protoOpen, ctrlChan>>
    BY <1>3, <2>1 DEF TickerStep, Tick, StatsTickEnds, ReportTickEnds, Panic
  <2>3. QED
    BY <2>2, TogetherStays, TogetherServerGone DEF Queued
<1>4. QED
  BY <1>1, <1>2, <1>3

\* No report of the client panics.
LEMMA TickerPrints ==
    \A t \in Ticker : TypeOK /\ Sampled /\ t[1] = "client" /\ TickerStep(t) => ~Gone("client")
<1> SUFFICES ASSUME NEW t \in Ticker, TypeOK, Sampled, t[1] = "client", TickerStep(t),
                    Gone("client")
             PROVE  FALSE
  OBVIOUS
<1>1. CMain' = "exited" /\ CMain # "exited"
  BY DEF Gone, CMain, TypeOK, CtrlType, Sampled, Untimed, TickerStep, Tick, StatsTickEnds,
         ReportTickEnds
<1>2. UNCHANGED pc
  BY ReportsSampled DEF TickerStep, Tick, StatsTickEnds, ReportTickEnds, ctrlVars
<1>3. QED
  BY <1>1, <1>2 DEF CMain

\* Nothing ends a session before its client is through: no client crashes, no
\* connection is refused, the parameters are read whole.
Undisturbed == Faults \cap {"crash", "refused", "shortRead"} = {}

LEMMA TogetherNext ==
    TypeOK /\ Known /\ Conversation' /\ [Next]_vars /\ Undisturbed => Together'
<1> SUFFICES ASSUME TypeOK, Known, Conversation', [Next]_vars, Undisturbed PROVE Together'
  OBVIOUS
<1> USE DEF Undisturbed
<1>1. CASE Connect
  BY <1>1, TogetherConnect
<1>2. CASE ClientMain \/ ClientCtrl \/ ServerMain \/ ServerCtrl
  BY <1>2, TogetherMain, TogetherCtrl, TogetherServerMain, TogetherServerCtrl
<1>3. CASE ClientCrash \/ ServerCrash
  BY <1>3, TogetherServerGone DEF ClientCrash, ServerCrash, Exit
<1>4. CASE \/ \E n \in Session : ClientTimer(n) \/ ServerTimer(n)
           \/ \E e \in End : Stream(e)
           \/ \E t \in Ticker : TickerStep(t)
  BY <1>4, TogetherBackground, TickerPrints DEF Known
<1>5. CASE Rest \/ UNCHANGED vars
  BY <1>5, TogetherStays DEF Rest, vars, ctrlVars, netVars, testVars, Queued
<1>6. QED
  BY <1>1, <1>2, <1>3, <1>4, <1>5 DEF Next

LEMMA TogetherInit == Init => Together
<1> SUFFICES ASSUME Init PROVE Together
  OBVIOUS
<1>1. /\ SMain = "accept" /\ SCtrl = "exited" /\ CMain = "exited" /\ CCtrl = "exited"
      /\ state["server"] = "IPERF_START" /\ ctrlChan["client"] = <<>> /\ ~protoOpen
  BY DEF Init, SMain, SCtrl, CMain, CCtrl
<1>2. Standing
  BY <1>1 DEF Standing, HandlerLeads, Creating, NoHandlerYet, BetweenSessions
<1>3. QED
  BY <1>1, <1>2 DEF Together, InSession, Live, Queued

-----------------------------------------------------------------------------
\* A step of the phases, for each step that changes a state.
PhaseStep == Phases!Next \/ UNCHANGED state

LEMMA ConnectPhase == TypeOK /\ Known /\ Connect => PhaseStep
<1> SUFFICES ASSUME TypeOK, Known, Connect PROVE PhaseStep
  OBVIOUS
<1>1. state["server"] = "IPERF_START"
  BY DEF Connect, Known, Together, Standing, Alive, SMain
<1>2. state' = [client |-> "ZERO", server |-> "IPERF_EXCHANGE_PARAMS"]
  BY DEF Connect
<1>3. Phases!Connect
  BY <1>1, <1>2 DEF Phases!Connect, Phases!Start, Phases!Params, PhaseOf
<1>4. QED
  BY <1>3 DEF PhaseStep, Phases!Next

\* The client follows a server that is ahead.
LEMMA ClientReadsPhase == TypeOK /\ Known /\ ClientReads => PhaseStep
<1> SUFFICES ASSUME TypeOK, Known, ClientReads PROVE PhaseStep
  OBVIOUS
<1>1. /\ Live /\ CanRead("client") /\ Consume("client")
      /\ UNCHANGED state["server"]
  BY DEF ClientReads, Live, CCtrl, TypeOK, CtrlType
<1>2. ClientWord
  BY ClientReadsWord DEF Known
<1>3. Len(wire["client"]) \in Nat \ {0}
  BY <1>1, ReadStep, CountRange DEF Known, Conversation, Talk, ClientInbox
<1>4. CRecv + Len(wire["client"]) <= Said(state["server"])
  BY <1>1, <1>2 DEF Known, Together, ClientWord
<1>5. Said(state["server"]) \in 0..8
  BY DEF Said
<1>6. CRecv < Said(state["server"])
  BY <1>3, <1>4, <1>5, CountRange
<1>7. PhaseOf(state["client"]) < PhaseOf(state["server"])
  BY <1>2, <1>6 DEF ClientWord, Said, PhaseOf
<1>8. /\ PhaseOf(state["client"]) \notin {4, 7, 8}
      /\ PhaseOf(state'["client"]) = PhaseOf(state["client"]) + 1
  BY <1>2 DEF ClientWord, PhaseOf
<1>9. Phases!ClientFollows
  BY <1>1, <1>7, <1>8 DEF Phases!ClientFollows, Phases!TestRunning, Phases!Display, Phases!Done
<1>10. QED
  BY <1>9 DEF PhaseStep, Phases!Next

\* The client leads into the end of the test and into its own.
LEMMA ClientEndsPhase == TypeOK /\ Known /\ (ClientSendsEnd \/ ClientReports) => PhaseStep
<1> SUFFICES ASSUME TypeOK, Known, ClientSendsEnd \/ ClientReports, ~UNCHANGED state
             PROVE  PhaseStep
  BY DEF PhaseStep
<1>1. /\ UNCHANGED state["server"]
      /\ \/ state["client"] = "TEST_RUNNING" /\ state'["client"] = "TEST_END"
         \/ state["client"] = "IPERF_DISPLAY_RESULT" /\ state'["client"] = "IPERF_DONE"
  BY DEF ClientSendsEnd, ClientReports, Panic, Gone, Known, Course, CMain, CCtrl, TypeOK, CtrlType
<1>2. Phases!ClientLeads
  BY <1>1 DEF Phases!ClientLeads, Phases!TestRunning, Phases!Display, PhaseOf
<1>3. QED
  BY <1>2 DEF PhaseStep, Phases!Next

\* The server takes the next client when this one is done.
LEMMA ServerResetsPhase == TypeOK /\ Known /\ ServerResets => PhaseStep
<1> SUFFICES ASSUME TypeOK, Known, ServerResets PROVE PhaseStep
  OBVIOUS
<1>1. /\ SMain = "reset" /\ state'["server"] = "IPERF_START" /\ UNCHANGED state["client"]
  BY DEF ServerResets, SMain, TypeOK, CtrlType
<1>2. state["client"] = "IPERF_DONE" /\ state["server"] = "IPERF_DONE"
  BY <1>1 DEF Known, Together, InSession, Conversation, HandlerInv, BetweenSessions, SMain
<1>3. Phases!ServerResets
  BY <1>1, <1>2 DEF Phases!ServerResets, Phases!Done, Phases!Start, PhaseOf
<1>4. QED
  BY <1>3 DEF PhaseStep, Phases!Next

\* What each side must have said when the other has heard it.
LEMMA ServerHeard ==
    TypeOK /\ Known /\ InSession /\ (state["client"] # "IPERF_DONE" \/ ~ServerEnds) =>
        Live /\ open["server"] /\ SRecv <= CSent /\ CRecv <= SSent
  BY InTouch, CountRange

\* The server leads into the next phase, having waited for the client where it must.
LEMMA ServerLeadsPhase ==
    ASSUME TypeOK, UNCHANGED state["client"],
           NEW n \in 1..7, n # 4, PhaseOf(state["server"]) = n, PhaseOf(state'["server"]) = n + 1,
           n = 1 => state["client"] = "IPERF_EXCHANGE_PARAMS",
           n = 2 => state["client"] = "IPERF_CREATE_STREAM",
           n = 6 => state["client"] = "IPERF_EXCHANGE_RESULT"
    PROVE  PhaseStep
<1>1. Phases!ClientReady(n + 1)
  BY DEF Phases!ClientReady, Phases!Create, Phases!TestStart, Phases!Display, PhaseOf
<1>2. Phases!ServerLeads
  BY <1>1 DEF Phases!ServerLeads, Phases!Start, Phases!TestRunning, Phases!Done
<1>3. QED
  BY <1>2 DEF PhaseStep, Phases!Next

LEMMA ServerListensPhase == TypeOK /\ Known /\ ServerListens => PhaseStep
<1> SUFFICES ASSUME TypeOK, Known, ServerListens PROVE PhaseStep
  OBVIOUS
<1>1. /\ SMain = "listen" /\ state'["server"] = "IPERF_CREATE_STREAM"
      /\ UNCHANGED state["client"]
  BY DEF ServerListens, SMain, TypeOK, CtrlType
<1>2. Alive /\ InSession /\ ~ServerEnds /\ ~NoHandlerYet /\ MainLeads /\ Standing /\ ServerPart
      /\ HandlerInv /\ ClientPart
  BY <1>1 DEF Alive, InSession, ServerEnds, HandlerLeads, NoHandlerYet, BetweenSessions, MainLeads,
              Known, Together, Conversation, SMain
<1>3. Live /\ open["server"] /\ SRecv <= CSent /\ CRecv <= SSent
  BY <1>2, ServerHeard
<1>4. SRecv = 1 /\ SSent = 1
  BY <1>1, <1>2, <1>3 DEF SRecv, SSent, ServerPart, HandlerInv, SCtrl, Creating
<1>5. state["client"] = "IPERF_EXCHANGE_PARAMS"
  <2>1. CSent >= 1 /\ CRecv <= 1
    BY <1>3, <1>4, CountRange
  <2>2. QED
    BY <1>2, <2>1 DEF CSent, CRecv, ClientPart
<1>6. state["server"] = "IPERF_EXCHANGE_PARAMS"
  BY <1>1, <1>2 DEF Standing
<1>7. QED
  BY <1>1, <1>5, <1>6, ServerLeadsPhase DEF PhaseOf

LEMMA ServerAcceptsPhase == TypeOK /\ Known /\ ServerAccepts => PhaseStep
<1> SUFFICES ASSUME TypeOK, Known, ServerAccepts, ~UNCHANGED state PROVE PhaseStep
  BY DEF PhaseStep
<1>1. /\ SMain = "acceptStreams" /\ state'["server"] = "TEST_START"
      /\ UNCHANGED state["client"] /\ nstreams["server"] < nstreams["client"]
  BY DEF ServerAccepts, SMain, TypeOK, CtrlType
<1>2. Alive /\ InSession /\ ~ServerEnds /\ Standing /\ ClientPart
  BY <1>1 DEF Alive, InSession, ServerEnds, HandlerLeads, Known, Together, Conversation, SMain
<1>3. Live /\ CRecv <= SSent
  BY <1>2, ServerHeard
<1>4. CRecv <= 2
  BY <1>1, <1>3, CountRange DEF SSent
<1>5. state["client"] \notin {"ZERO", "IPERF_EXCHANGE_PARAMS"}
  <2>1. nstreams["server"] \in Nat /\ nstreams["client"] \in Nat
    BY DEF TypeOK, DataType
  <2>2. nstreams["client"] > 0
    BY <1>1, <2>1
  <2>3. QED
    BY <2>2 DEF Known, Course
<1>6. state["client"] = "IPERF_CREATE_STREAM"
  BY <1>2, <1>3, <1>4, <1>5 DEF CRecv, ClientPart, Live
<1>7. state["server"] = "IPERF_CREATE_STREAM"
  BY <1>1, <1>2 DEF Standing
<1>8. QED
  BY <1>1, <1>6, <1>7, ServerLeadsPhase DEF PhaseOf

LEMMA ServerInitsPhase == TypeOK /\ Known /\ ServerInits => PhaseStep
<1> SUFFICES ASSUME TypeOK, Known, ServerInits PROVE PhaseStep
  OBVIOUS
<1>1. /\ SMain = "init" /\ state'["server"] = "TEST_RUNNING" /\ UNCHANGED state["client"]
  BY DEF ServerInits, SMain, TypeOK, CtrlType
<1>2. state["server"] = "TEST_START"
  BY <1>1 DEF Known, Together, Alive, Standing
<1>3. QED
  BY <1>1, <1>2, ServerLeadsPhase DEF PhaseOf

\* The handler follows the client into the end of the test, and leads out of it.
LEMMA ServerReadsPhase ==
    TypeOK /\ Known /\ (ServerReadsEnd \/ ServerReadsOther) => PhaseStep
<1> SUFFICES ASSUME TypeOK, Known, ServerReadsEnd \/ ServerReadsOther PROVE PhaseStep
  OBVIOUS
<1>1. /\ SCtrl = "read" /\ CanRead("server") /\ UNCHANGED state["client"]
  BY DEF ServerReadsEnd, ServerReadsOther, SCtrl, TypeOK, CtrlType
<1>2. ServerWord /\ ~MainLeads /\ ~NoHandlerYet
  BY ServerReadsWord DEF Known
<1>3. Alive /\ Standing /\ ServerPart /\ ClientPart
  BY <1>1 DEF Known, Together, Conversation, ServerPart, Alive
<1>4. HandlerLeads /\ InSession /\ ~Creating
  BY <1>1, <1>2, <1>3, HandlerLed
<1>5. CASE SRecv = 3
  <2>1. state'["server"] = state["server"]
    BY <1>1, <1>2, <1>5 DEF ServerWord
  <2>2. UNCHANGED state
    BY <1>1, <2>1 DEF ServerReadsEnd, ServerReadsOther, TypeOK, CtrlType
  <2>3. QED
    BY <2>2 DEF PhaseStep
<1>6. CASE SRecv = 1
  <2>1. state["server"] # "IPERF_DONE" /\ state'["server"] = "TEST_END"
    BY <1>1, <1>2, <1>6 DEF ServerWord
  <2>2. state["server"] = "TEST_RUNNING"
    BY <1>1, <1>3, <1>4, <2>1 DEF Standing
  <2>3. ~ServerEnds
    BY <1>1, <2>1 DEF ServerEnds
  <2>4. SSent = 4
    BY <1>1, <1>2, <1>4, <2>1 DEF SSent, MainLeads, HandlerLeads
  <2>5. wire["server"] \in Seq(Message) /\ wire["server"] # <<>>
    BY <1>1 DEF TypeOK, NetType, CanRead
  <2>6. Len(wire["server"]) \in Nat \ {0}
    BY <2>5
  <2>7. SRecv + Len(wire["server"]) = CSent /\ CRecv <= SSent /\ Live
    BY <1>4, <2>3, InTouch, ServerHeard
  <2>8. CSent >= 2 /\ CRecv <= 4
    BY <1>6, <2>4, <2>6, <2>7, CountRange
  <2>9. state["client"] = "TEST_END"
    BY <1>3, <2>8 DEF CSent, CRecv, ClientPart
  <2>10. Phases!ServerFollows
    BY <1>1, <2>1, <2>2, <2>9 DEF Phases!ServerFollows, Phases!TestRunning, Phases!TestEnd, PhaseOf
  <2>11. QED
    BY <2>10 DEF PhaseStep, Phases!Next
<1>7. QED
  BY <1>1, <1>2, <1>5, <1>6 DEF ServerWord

LEMMA ServerHandlesPhase ==
    TypeOK /\ Known /\ (ServerClosesStreams \/ ServerSendsResults \/ ServerReports) => PhaseStep
<1> SUFFICES ASSUME TypeOK, Known, ServerClosesStreams \/ ServerSendsResults \/ ServerReports,
                    ~UNCHANGED state
             PROVE  PhaseStep
  BY DEF PhaseStep
<1>1. /\ UNCHANGED state["client"]
      /\ \/ SCtrl = "stats" /\ state'["server"] = "IPERF_EXCHANGE_RESULT"
         \/ SCtrl = "sendResults" /\ state'["server"] = "IPERF_DISPLAY_RESULT"
         \/ SCtrl = "report" /\ state'["server"] = "IPERF_DONE"
  BY DEF ServerClosesStreams, ServerSendsResults, ServerReports, Panic, Gone, SCtrl, TypeOK,
         CtrlType
<1>2. Alive /\ Standing /\ ServerPart /\ ClientPart /\ HandlerInv
  BY <1>1 DEF Known, Together, Conversation, ServerPart, Alive
<1>3. ~MainLeads /\ ~NoHandlerYet
  BY <1>1, <1>2 DEF ServerPart, HandlerInv, SCtrl
<1>4. HandlerLeads /\ InSession /\ ~Creating
  BY <1>1, <1>2, <1>3, HandlerLed
<1>5. CASE SCtrl = "stats"
  <2>1. state["server"] = "TEST_END"
    BY <1>2, <1>4, <1>5 DEF Standing
  <2>2. QED
    BY <1>1, <1>5, <2>1, ServerLeadsPhase DEF PhaseOf
<1>6. CASE SCtrl = "report"
  <2>1. state["server"] = "IPERF_DISPLAY_RESULT"
    BY <1>2, <1>4, <1>6 DEF Standing
  <2>2. QED
    BY <1>1, <1>6, <2>1, ServerLeadsPhase DEF PhaseOf
<1>7. CASE SCtrl = "sendResults"
  <2>1. state["server"] = "IPERF_EXCHANGE_RESULT"
    BY <1>2, <1>4, <1>7 DEF Standing
  <2>2. ~ServerEnds
    BY <1>7, <2>1 DEF ServerEnds
  <2>3. SRecv = 3
    BY <1>3, <1>7 DEF SRecv
  <2>4. SSent = 5
    BY <1>3, <1>7 DEF SSent, MainLeads
  <2>5. CSent >= 3 /\ CRecv <= 5
    BY <1>4, <2>2, <2>3, <2>4, ServerHeard, CountRange
  <2>6. state["client"] = "IPERF_EXCHANGE_RESULT"
    BY <1>2, <2>5 DEF CSent, CRecv, ClientPart
  <2>7. QED
    BY <1>1, <1>7, <2>1, <2>6, ServerLeadsPhase DEF PhaseOf
<1>8. QED
  BY <1>1, <1>5, <1>6, <1>7

\* All other steps leave both states alone.
LEMMA PhasesNext == TypeOK /\ Known /\ [Next]_vars => PhaseStep
<1> SUFFICES ASSUME TypeOK, Known, [Next]_vars PROVE PhaseStep
  OBVIOUS
<1> USE DEF ctrlVars
<1>1. CASE Connect
  BY <1>1, ConnectPhase
<1>2. CASE ClientMain
  <2>1. ClientSendsEnd \/ UNCHANGED state
    BY <1>2 DEF ClientMain, ClientStart, ClientContinue, ClientAllEnded, SendPush,
                ClientEndWritten, ClientEndNotWritten, ClientExit, Exit, Gone
  <2>2. QED
    BY <2>1, ClientEndsPhase DEF PhaseStep
<1>3. CASE ClientCtrl
  <2>1. ClientReads \/ ClientReports \/ UNCHANGED state
    BY <1>3 DEF ClientCtrl, ClientReadFails, ClientSendParams, ClientSendResults,
                ClientGetResults, ClientResultsFail, ClientConnects, ClientConnectRefused,
                ClientInits, ClientPushesRunning, ClientClosesStreams, SendPush, ClientSendsDone,
                ClientClosesCtrl, ClientPushesDone, ClientSends
  <2>2. QED
    BY <2>1, ClientReadsPhase, ClientEndsPhase DEF PhaseStep
<1>4. CASE ServerMain
  <2>1. \/ ServerResets \/ ServerListens \/ ServerAccepts \/ ServerInits
        \/ UNCHANGED state
    BY <1>4 DEF ServerMain, ServerGetsParams, ServerParamsFail, ServerListenFails, ServerPops,
                SendPush, ServerWritten, ServerNotWritten, ServerCtrlDone, Panic, Gone
  <2>2. QED
    BY <2>1, ServerResetsPhase, ServerListensPhase, ServerAcceptsPhase, ServerInitsPhase
       DEF PhaseStep
<1>5. CASE ServerCtrl
  <2>1. \/ ServerReadsEnd \/ ServerReadsOther \/ ServerClosesStreams \/ ServerSendsResults
        \/ ServerReports \/ UNCHANGED state
    BY <1>5 DEF ServerCtrl, ServerGetsResults, SendPush, ServerWritten, ServerNotWritten,
                ServerHandlerFails, ServerHandlerReturns
  <2>2. QED
    BY <2>1, ServerReadsPhase, ServerHandlesPhase DEF PhaseStep
<1>6. CASE ClientCrash \/ ServerCrash \/ Rest \/ UNCHANGED vars
  BY <1>6 DEF ClientCrash, ServerCrash, Exit, Gone, Rest, vars, PhaseStep
<1>7. CASE \/ \E n \in Session : ClientTimer(n) \/ ServerTimer(n)
           \/ \E e \in End : Stream(e)
           \/ \E t \in Ticker : TickerStep(t)
  BY <1>7 DEF ClientTimer, ServerTimer, Stream, StreamSends, StreamReceives, StreamFails,
              StreamEnds, Turn, Quit, TickerStep, Tick, StatsTickEnds, ReportTickEnds, Panic, Gone,
              PhaseStep
<1>8. QED
  BY <1>1, <1>2, <1>3, <1>4, <1>5, <1>6, <1>7 DEF Next

-----------------------------------------------------------------------------
\* Then the two sides are always where each takes the other to be.
THEOREM StaysTogether == Undisturbed => (Spec => []Known)
<1> SUFFICES ASSUME Undisturbed PROVE Spec => []Known
  OBVIOUS
<1> DEFINE Kept == Course /\ LastEnd /\ Sampled /\ Together
<1>1. Init => Kept
  BY CourseInit, SampledInit, TogetherInit
<1>2. TypeOK /\ Conversation /\ Conversation' /\ Counting /\ Kept /\ [Next]_vars => Kept'
  BY CourseNext, SampledNext, TogetherNext DEF Known
<1>3. Conversation /\ Counting /\ Kept => Known
  BY DEF Known
<1> HIDE DEF Kept
<1>4. QED
  BY <1>1, <1>2, <1>3, TypeCorrect, Converses, EndsCounted, PTL DEF Spec

\* Undisturbed, the two processes go through the phases of a test in step, each
\* waiting where it has to for what the other does: for any number of streams and
\* clients, over any transport, however late a timer is, and even if the server
\* crashes.
THEOREM PhasesRefined == Undisturbed => (Spec => InPhases)
<1> SUFFICES ASSUME Undisturbed PROVE Spec => InPhases
  OBVIOUS
<1>1. TypeOK /\ Known /\ [Next]_vars => [Phases!Next]_(Phases!vars)
  BY PhasesNext DEF PhaseStep, Phases!vars
<1>2. Init => Phases!Init
  BY DEF Init, Phases!Init, Phases!Start, PhaseOf
<1>3. QED
  BY <1>1, <1>2, TypeCorrect, StaysTogether, PTL DEF Spec, InPhases, Phases!Spec

-----------------------------------------------------------------------------
\* The handler of the server between TEST_END and the end of its test, and after.
Ending == SCtrl = "stats" \/ OnTheWay
Displays ==
    \/ SCtrl \in {"report", "pushDone"}
    \/ SCtrl \in {"push", "write"} /\ arg["sCtrl"] = "IPERF_DONE"
    \/ SCtrl = "read" /\ state["server"] = "IPERF_DONE"

\* A client that does not crash and has told the server of its end stays until the
\* server has told it to display its results.  What may end it earlier, a refused
\* connection or a server that gives up, comes before or closes the connection.
Stays ==
    /\ Ending => open["server"]
    /\ open["server"] /\ (Told \/ Ending) => Live \/ Displays
    /\ Queued("client", "IPERF_DONE") => ~Live \/ CCtrl \in {"write", "close"}

LEMMA StaysAlike ==
    ASSUME Stays, UNCHANGED <<SCtrl, arg["sCtrl"], state["server"], open["server"], CCtrl>>,
           Told' => Told, Queued("client", "IPERF_DONE")' => Queued("client", "IPERF_DONE")
    PROVE  Stays'
  BY DEF Stays, Ending, OnTheWay, SCtrl, Displays, Live

\* When the client is through, the server has told it to display its results.
LEMMA DisplaysWhen ==
    TypeOK /\ Conversation /\ Live /\ open["server"] /\ CRecv = 7 => Displays
<1> SUFFICES ASSUME TypeOK, Conversation, Live, open["server"], CRecv = 7 PROVE Displays
  OBVIOUS
<1>1. wire["client"] \in Seq(Message)
  BY DEF TypeOK, NetType
<1>2. SSent >= 7
  BY <1>1, CountRange DEF Conversation, Talk, Counts
<1>3. ~MainLeads
  BY <1>2 DEF MainLeads, SSent, Creating
<1>4. ~NoHandlerYet /\ SCtrl # "exited"
  BY <1>3 DEF NoHandlerYet, MainLeads, Conversation, HandlerInv, SMain, SCtrl, BetweenSessions
<1>5. QED
  BY <1>2, <1>3, <1>4 DEF SSent, MainLeads, Displays, Conversation, ServerPart

\* Before it is refused a connection it has not told the server of its end.
LEMMA UntoldYet ==
    TypeOK /\ Conversation /\ Live /\ open["server"] /\ CSent <= 1 => ~Told /\ ~Ending
<1> SUFFICES ASSUME TypeOK, Conversation, Live, open["server"], CSent <= 1 PROVE ~Told /\ ~Ending
  OBVIOUS
<1>1. Len(wire["server"]) \in Nat
  BY DEF TypeOK, NetType
<1>2. SRecv + Len(wire["server"]) <= 1 /\ Follows(wire["server"], FromClient, SRecv)
  BY DEF Conversation, Talk, Counts, ServerInbox
<1>3. ~Told
  <2> SUFFICES ASSUME NEW i \in 1..Len(wire["server"]) PROVE wire["server"][i] # "TEST_END"
    BY DEF Told
  <2>1. SRecv + i = 1
    BY <1>1, <1>2, CountRange
  <2>2. wire["server"][i] = FromClient[1]
    BY <1>2, <2>1 DEF Follows
  <2>3. QED
    BY <2>2, Words
<1>4. ~Ending
  <2>1. SRecv <= 1
    BY <1>1, <1>2, CountRange
  <2>2. Ending => ~NoHandlerYet
    BY DEF Ending, OnTheWay, Conversation, HandlerInv, SCtrl
  <2>3. QED
    BY <2>1, <2>2 DEF SRecv, Ending, OnTheWay, SCtrl
<1>5. QED
  BY <1>3, <1>4

LEMMA StaysMain ==
    TypeOK /\ Conversation /\ LastEnd /\ Stays /\ ClientMain => Stays'
<1> SUFFICES ASSUME TypeOK, Conversation, LastEnd, Stays, ClientMain PROVE Stays'
  OBVIOUS
<1> USE DEF TypeOK, CtrlType, CMain, CCtrl
<1>1. UNCHANGED <<SCtrl, arg["sCtrl"], state["server"], open["server"]>>
  BY ClientLeavesServer DEF ServerView, SCtrl
<1>2. CASE ClientStart \/ ClientContinue \/ ClientAllEnded
  <2>1. Pop("client") /\ UNCHANGED <<wire, CCtrl>>
    BY <1>2 DEF ClientStart, ClientContinue, ClientAllEnded, netVars
  <2>2. Queued("client", "IPERF_DONE")' => Queued("client", "IPERF_DONE")
    BY <2>1, PopStep
  <2>3. QED
    BY <1>1, <2>1, <2>2, StaysAlike DEF Told
<1>3. CASE SendPush("cMain")
  <2>1. Push("client", "TEST_END") /\ UNCHANGED <<wire, CCtrl>>
    BY <1>3 DEF SendPush, Conversation, ClientPart, netVars
  <2>2. Queued("client", "IPERF_DONE")' <=> Queued("client", "IPERF_DONE")
    BY <2>1, PushStep DEF State
  <2>3. QED
    BY <1>1, <2>1, <2>2, StaysAlike DEF Told
<1>4. CASE ClientSendsEnd
  BY <1>1, <1>4, StaysAlike DEF ClientSendsEnd, netVars, Told, Queued
<1>5. CASE ClientEndWritten
  <2>1. Telling /\ open["client"] /\ UNCHANGED <<ctrlChan, CCtrl>>
    BY <1>5 DEF ClientEndWritten, WriteOk, Telling
  <2>2. CCtrl = "read"
    BY <2>1 DEF Conversation, ClientPart
  <2>3. QED
    BY <1>1, <2>1, <2>2 DEF Stays, Ending, OnTheWay, SCtrl, Displays, Live, Queued
<1>6. CASE Gone("client")
  <2>1. /\ CCtrl' = "exited" /\ UNCHANGED wire["server"]
        /\ ~Queued("client", "IPERF_DONE")'
    <3>1. ctrlChan'["client"] = <<>>
      BY <1>6 DEF Gone
    <3>2. Len(ctrlChan'["client"]) = 0
      BY <3>1
    <3>3. QED
      BY <1>6, <3>2 DEF Gone, NetType, Queued
  <2>2. open["server"] /\ Live => Displays
    <3>1. CASE ClientEndNotWritten
      <4>1. Telling /\ WriteErr("client")
        BY <3>1 DEF ClientEndNotWritten, Telling
      <4>2. QED
        BY <4>1 DEF WriteErr, Conversation, ClientPart
    <3>2. CASE ClientExit
      <4> DEFINE m == Head(ctrlChan["client"])
      <4>1. ctrlChan["client"] # <<>> /\ Verdict(m, Counted(m)) = "exit"
        BY <3>2 DEF ClientExit, ClientPops, CanPop
      <4>2. Queued("client", m)
        <5>1. 1 \in 1..Len(ctrlChan["client"]) /\ ctrlChan["client"][1] = m
          BY <4>1
        <5>2. QED
          BY <5>1 DEF Queued
      <4> HIDE DEF m
      <4>3. m = "IPERF_DONE" \/ (m = "TEST_END" /\ ends > NumStreams)
        <5>1. ends \in Nat
          BY DEF TestType
        <5>2. QED
          BY <4>1, <5>1, LeavesWhen
      <4>4. Live => CRecv = 7
        BY <4>2, <4>3 DEF LastEnd, Stays, CRecv
      <4>5. QED
        BY <4>4, DisplaysWhen
    <3>3. QED
      BY <1>6, <3>1, <3>2 DEF ClientMain, ClientStart, ClientContinue, ClientAllEnded,
                              ClientSendsEnd, SendPush, ClientEndWritten, ClientPops, Gone
  <2>3. QED
    BY <1>1, <2>1, <2>2 DEF Stays, Ending, OnTheWay, SCtrl, Displays, Live, Told
<1>7. QED
  BY <1>2, <1>3, <1>4, <1>5, <1>6 DEF ClientMain, ClientEndNotWritten, ClientExit, Exit

LEMMA StaysCtrl ==
    TypeOK /\ Conversation /\ Sampled /\ Stays /\ ClientCtrl => Stays'
<1> SUFFICES ASSUME TypeOK, Conversation, Sampled, Stays, ClientCtrl PROVE Stays'
  OBVIOUS
<1> USE DEF TypeOK, CtrlType, CMain, CCtrl
<1>1. UNCHANGED <<SCtrl, arg["sCtrl"], state["server"], open["server"]>>
  BY ClientLeavesServer DEF ServerView, SCtrl
<1>2. ClientPart /\ CCtrl # "exited"
  BY DEF ClientCtrl, ClientReads, ClientReadFails, ClientSendParams, ClientSendResults,
         ClientGetResults, ClientResultsFail, ClientConnects, ClientConnectRefused, ClientInits,
         ClientPushesRunning, ClientClosesStreams, ClientReports, SendPush, ClientSendsDone,
         ClientClosesCtrl, ClientPushesDone, ClientSends, Conversation
<1>3. ~Gone("client")
  <2>1. CMain # "exited"
    BY <1>2 DEF ClientPart
  <2>2. Gone("client") => CMain' = "exited"
    BY DEF Gone
  <2>3. UNCHANGED CMain
    BY ReportsSampled
       DEF ClientCtrl, ClientReads, ClientReadFails, ClientSendParams, ClientSendResults,
           ClientGetResults, ClientResultsFail, ClientConnects, ClientConnectRefused, ClientInits,
           ClientPushesRunning, ClientClosesStreams, ClientReports, SendPush, ClientSendsDone,
           ClientClosesCtrl, ClientPushesDone, ClientSends
  <2>4. QED
    BY <2>1, <2>2, <2>3
<1>4. Told' => Told
  BY <1>3, ToldCtrl
<1>5. ASSUME Live => Live' \/ Displays \/ ~open["server"] \/ (~Told /\ ~Ending),
             Queued("client", "IPERF_DONE")' =>
                 Queued("client", "IPERF_DONE") \/ ~Live \/ CCtrl = "push",
             Live' => \/ CCtrl \in {"write", "close"} /\ CCtrl' \in {"write", "close"}
                      \/ CCtrl = "push" /\ CCtrl' = "write"
                      \/ CCtrl \notin {"push", "write", "close"} /\ Live
      PROVE  Stays'
  BY <1>1, <1>4, <1>5 DEF Stays, Ending, OnTheWay, SCtrl, Displays, Live
<1>6. CASE ClientReads \/ ClientGetResults
  <2>1. UNCHANGED ctrlChan /\ CCtrl \in {"read", "getResults"} /\ Live
    BY <1>6 DEF ClientReads, ClientGetResults, Live
  <2>2. Live'
    <3>1. CASE ClientReads
      BY <3>1, ClientReadsWord DEF ClientWord, ClientOn, Live
    <3>2. CASE ClientGetResults
      <4>1. CanRead("client") /\ CRecv = 5
        BY <3>2 DEF ClientGetResults, CRecv
      <4>2. Head(wire["client"]) = "RESULTS"
        BY <2>1, <4>1, ClientHears, Words DEF Conversation
      <4>3. QED
        BY <1>2, <3>2, <4>2 DEF ClientGetResults, CtrlTop, ClientPart, Live
    <3>3. QED
      BY <1>6, <3>1, <3>2
  <2>3. QED
    BY <1>5, <2>1, <2>2 DEF Queued
<1>7. CASE ClientReadFails \/ ClientResultsFail
  <2>1. UNCHANGED ctrlChan /\ CCtrl' = "pushDone" /\ Live /\ ReadErr("client")
    BY <1>7 DEF ClientReadFails, ClientResultsFail, Live
  <2>2. ~open["server"]
    BY <1>2, <2>1 DEF ReadErr, ClientPart
  <2>3. QED
    BY <1>5, <2>1, <2>2 DEF Queued, Live
<1>8. CASE ClientConnectRefused
  <2>1. UNCHANGED ctrlChan /\ CCtrl = "connect" /\ CCtrl' = "pushDone" /\ Live
    BY <1>8 DEF ClientConnectRefused, Live
  <2>2. open["server"] => ~Told /\ ~Ending
    BY <2>1, UntoldYet DEF CSent
  <2>3. QED
    BY <1>5, <2>1, <2>2 DEF Queued, Live
<1>9. CASE ClientSendParams \/ ClientSendResults \/ ClientSendsDone
  <2>1. /\ UNCHANGED ctrlChan
        /\ CCtrl \in {"sendParams", "sendResults", "write"}
        /\ \/ CCtrl' = (IF CCtrl = "sendParams" THEN "read" ELSE
                        IF CCtrl = "sendResults" THEN "getResults" ELSE "close")
           \/ WriteErr("client") /\ CCtrl # "write" /\ CCtrl' = "pushDone"
    BY <1>2, <1>9 DEF ClientSendParams, ClientSendResults, ClientSendsDone, ClientSends, CtrlTop,
                      ClientPart
  <2>2. Live /\ (~Live' => ~open["server"])
    BY <1>2, <2>1 DEF Live, WriteErr, ClientPart
  <2>3. QED
    BY <1>5, <2>1, <2>2 DEF Queued, Live
<1>10. CASE ClientConnects \/ ClientInits \/ ClientClosesStreams \/ ClientReports
  <2>1. /\ UNCHANGED ctrlChan
        /\ \/ CCtrl = "connect" /\ CCtrl' \in {"connect", "read"}
           \/ CCtrl = "init" /\ CCtrl' = "read"
           \/ CCtrl = "clientEnd" /\ CCtrl' = "report"
           \/ CCtrl = "report" /\ CCtrl' = "push"
    BY <1>2, <1>10, ReportsSampled DEF ClientConnects, ClientInits, ClientClosesStreams, CtrlTop,
                                       ClientReports, ClientPart
  <2>2. QED
    BY <1>5, <2>1 DEF Queued, Live
<1>11. CASE ClientPushesRunning \/ SendPush("cCtrl")
  <2>1. \/ CCtrl = "pushRunning" /\ CCtrl' = "read" /\ Push("client", "TEST_RUNNING")
        \/ CCtrl = "push" /\ CCtrl' = "write" /\ Push("client", "IPERF_DONE")
    BY <1>2, <1>11 DEF ClientPushesRunning, SendPush, CtrlTop, ClientPart
  <2>2. CCtrl = "pushRunning" =>
            (Queued("client", "IPERF_DONE")' => Queued("client", "IPERF_DONE"))
    BY <2>1, PushStep DEF State
  <2>3. QED
    BY <1>5, <2>1, <2>2 DEF Live
<1>12. CASE ClientClosesCtrl
  <2>1. UNCHANGED ctrlChan /\ CCtrl = "close" /\ CCtrl' = "endPush" /\ Live /\ CRecv = 7
    BY <1>12 DEF ClientClosesCtrl, Live, CRecv
  <2>2. QED
    BY <1>5, <2>1, DisplaysWhen DEF Queued, Live
<1>13. CASE ClientPushesDone
  <2>1. ~Live /\ ~Live'
    BY <1>2, <1>13 DEF ClientPushesDone, CtrlTop, ClientPart, Live
  <2>2. QED
    BY <1>5, <2>1
<1>14. QED
  BY <1>6, <1>7, <1>8, <1>9, <1>10, <1>11, <1>12, <1>13 DEF ClientCtrl

LEMMA StaysServer ==
    TypeOK /\ Conversation /\ Stays /\ (ServerMain \/ ServerCtrl) => Stays'
<1> SUFFICES ASSUME TypeOK, Conversation, Stays, ServerMain \/ ServerCtrl PROVE Stays'
  OBVIOUS
<1> USE DEF TypeOK, CtrlType, SMain, SCtrl
<1>1. CASE Gone("server")
  <2>1. SCtrl' = "exited" /\ ~open'["server"] /\ UNCHANGED <<CCtrl, ctrlChan["client"]>>
    BY <1>1 DEF Gone, CloseCtrl, CCtrl, NetType
  <2>2. QED
    BY <2>1 DEF Stays, Ending, OnTheWay, Live, Queued
<1>2. CASE ~Gone("server")
  <2>1. UNCHANGED <<CCtrl, ctrlChan["client"]>> /\ (Told' => Told)
    BY <1>2, ServerLocal, ToldServer DEF ClientView, CCtrl
  <2>2. ASSUME open'["server"] => open["server"],
               Ending' => (Ending \/ Told) /\ open'["server"],
               Displays => Displays' \/ ~open'["server"]
        PROVE  Stays'
    BY <2>1, <2>2 DEF Stays, Live, Queued
  <2>3. CASE ServerMain
    <3>1. /\ open'["server"] => open["server"]
          /\ UNCHANGED arg["sCtrl"]
          /\ UNCHANGED SCtrl \/ (SCtrl' = "read" /\ SMain = "getParams")
          /\ UNCHANGED open["server"] \/ SCtrl \in {"read", "exited"}
          /\ UNCHANGED state["server"] \/ MainLeads \/ SMain \in BetweenSessions
      <4>1. CASE ServerResets \/ ServerListens \/ ServerAccepts \/ ServerInits
        BY <4>1 DEF ServerResets, ServerListens, ServerAccepts, ServerInits, netVars, MainLeads,
                    BetweenSessions
      <4>2. CASE ServerGetsParams \/ ServerParamsFail
        BY <4>2 DEF ServerGetsParams, ServerParamsFail, CloseCtrl, NetType, OneHandler,
                    Conversation, HandlerInv, NoHandlerYet, BetweenSessions
      <4>3. CASE ServerListenFails
        BY <1>2, <4>3 DEF ServerListenFails, Panic, CloseCtrl, NetType, MainLeads, Conversation,
                          ServerPart
      <4>4. CASE ServerPops \/ ServerCtrlDone \/ SendPush("sMain")
        BY <4>4 DEF ServerPops, ServerCtrlDone, SendPush, netVars
      <4>5. CASE ServerWritten("sMain") \/ ServerNotWritten("sMain")
        BY <4>5 DEF ServerWritten, ServerNotWritten, CloseCtrl, NetType, MainLeads, Conversation,
                    ServerPart
      <4>6. QED
        BY <2>3, <4>1, <4>2, <4>3, <4>4, <4>5 DEF ServerMain
    <3>2. /\ SMain \in BetweenSessions \cup {"getParams"} => SCtrl = "exited"
          /\ MainLeads => SCtrl \in {"read", "exited"} /\ state["server"] # "IPERF_DONE"
      BY DEF Conversation, HandlerInv, NoHandlerYet, ServerPart
    <3>3. (Ending' => Ending) /\ (Displays => Displays')
      BY <3>1, <3>2 DEF Ending, OnTheWay, Displays
    <3>4. Ending => open'["server"]
      BY <3>1 DEF Stays, Ending, OnTheWay
    <3>5. QED
      BY <2>2, <3>1, <3>3, <3>4
  <2>4. CASE ServerReadsEnd \/ ServerReadsOther \/ ServerGetsResults
    <3>1. UNCHANGED <<open, arg>> /\ ServerWord /\ open["server"]
      BY <2>4, ServerReadsWord
         DEF ServerReadsEnd, ServerReadsOther, ServerGetsResults, CanRead
    <3>2. ServerReadsEnd => Told
      BY ToldSteps DEF ServerReadsEnd
    <3>3. SCtrl' = "stats" => ServerReadsEnd
      BY <2>4 DEF ServerReadsEnd, ServerReadsOther, ServerGetsResults, ServerHandles
    <3>4. QED
      BY <2>2, <3>1, <3>2, <3>3 DEF ServerWord, Ending, OnTheWay, Displays
  <2>5. CASE ServerClosesStreams \/ ServerSendsResults \/ ServerReports \/ SendPush("sCtrl")
             \/ ServerWritten("sCtrl")
    <3>1. UNCHANGED open
      BY <1>2, <2>5 DEF ServerClosesStreams, ServerSendsResults, ServerReports, SendPush,
                        ServerWritten, Panic, netVars
    <3>2. /\ Ending' => Ending
          /\ Displays => Displays'
      BY <1>2, <2>5 DEF ServerClosesStreams, ServerSendsResults, ServerReports, SendPush,
                        ServerWritten, Panic, AfterSend, Ending, OnTheWay, Displays,
                        Conversation, ServerPart
    <3>3. QED
      BY <2>2, <3>1, <3>2 DEF Stays
  <2>6. CASE ServerNotWritten("sCtrl") \/ ServerHandlerFails \/ ServerHandlerReturns
    <3>1. SCtrl' = "exited" /\ ~open'["server"]
      BY <2>6 DEF ServerNotWritten, ServerHandlerFails, ServerHandlerReturns, CloseCtrl, NetType
    <3>2. QED
      BY <2>2, <3>1 DEF Ending, OnTheWay
  <2>7. QED
    BY <2>3, <2>4, <2>5, <2>6 DEF ServerCtrl
<1>3. QED
  BY <1>1, <1>2

LEMMA StaysNext ==
    TypeOK /\ Conversation /\ LastEnd /\ Sampled /\ Stays /\ [Next]_vars /\ "crash" \notin Faults
        => Stays'
<1> SUFFICES ASSUME TypeOK, Conversation, LastEnd, Sampled, Stays, [Next]_vars,
                    "crash" \notin Faults
             PROVE  Stays'
  OBVIOUS
<1> USE DEF TypeOK, CtrlType, SCtrl, CCtrl
<1>1. CASE Connect
  <2>1. SCtrl = "exited" /\ ctrlChan["client"] = <<>>
    BY <1>1 DEF Connect, Conversation, HandlerInv, NoHandlerYet, BetweenSessions, ClientPart, CMain
  <2>2. /\ SCtrl' = "exited" /\ UNCHANGED ctrlChan
        /\ Len(wire'["server"]) = 0 /\ Len(ctrlChan["client"]) = 0
    BY <1>1, <2>1 DEF Connect
  <2>3. ~Ending' /\ ~Told' /\ ~Queued("client", "IPERF_DONE")'
    BY <2>2 DEF Ending, OnTheWay, Told, Queued
  <2>4. QED
    BY <2>3 DEF Stays
<1>2. CASE ClientMain \/ ClientCtrl \/ ServerMain \/ ServerCtrl
  BY <1>2, StaysMain, StaysCtrl, StaysServer
<1>3. CASE ServerCrash
  <2>1. SCtrl' = "exited" /\ ~open'["server"] /\ UNCHANGED <<CCtrl, ctrlChan["client"]>>
    BY <1>3 DEF ServerCrash, Exit, Gone, CloseCtrl, NetType
  <2>2. QED
    BY <2>1 DEF Stays, Ending, OnTheWay, Live, Queued
<1>4. ASSUME NEW e \in End, Stream(e) PROVE Stays'
  <2>1. UNCHANGED <<pc, arg, state, open, wire>>
    BY <1>4 DEF Stream, StreamSends, StreamReceives, StreamFails, StreamEnds, Turn, Quit, ctrlVars,
                netVars
  <2>2. UNCHANGED ctrlChan \/ Push(e[1], "TEST_END")
    BY <1>4 DEF Stream, StreamSends, StreamReceives, StreamFails, StreamEnds, Turn, Quit, ctrlVars
  <2>3. Queued("client", "IPERF_DONE")' => Queued("client", "IPERF_DONE")
    <3>1. e[1] \in Side
      BY DEF End
    <3>2. Push(e[1], "TEST_END") /\ e[1] = "server" => UNCHANGED ctrlChan["client"]
      BY DEF Push
    <3>3. Push(e[1], "TEST_END") /\ e[1] = "client" =>
              (Queued("client", "IPERF_DONE")' => Queued("client", "IPERF_DONE"))
      BY PushStep DEF State
    <3>4. QED
      BY <2>2, <3>1, <3>2, <3>3 DEF Queued
  <2>4. QED
    BY <2>1, <2>3, StaysAlike DEF Told
<1>5. ASSUME NEW t \in Ticker, TickerStep(t) PROVE Stays'
  <2>1. UNCHANGED <<pc, arg, state, open, wire, ctrlChan>> \/ Gone("server")
    BY <1>5, ReportsSampled
       DEF TickerStep, Tick, StatsTickEnds, ReportTickEnds, Panic, ctrlVars, netVars, Ticker
  <2>2. CASE Gone("server")
    <3>1. SCtrl' = "exited" /\ ~open'["server"] /\ UNCHANGED <<CCtrl, ctrlChan["client"]>>
      BY <2>2 DEF Gone, CloseCtrl, NetType
    <3>2. QED
      BY <3>1 DEF Stays, Ending, OnTheWay, Live, Queued
  <2>3. QED
    BY <2>1, <2>2, StaysAlike DEF Told, Queued
<1>6. CASE \/ \E n \in Session : ClientTimer(n) \/ ServerTimer(n)
           \/ Rest \/ UNCHANGED vars
  <2>1. UNCHANGED <<pc, arg, state, open, wire, ctrlChan>>
    BY <1>6 DEF ClientTimer, ServerTimer, Rest, vars, ctrlVars, netVars
  <2>2. QED
    BY <2>1, StaysAlike DEF Told, Queued
<1>7. QED
  BY <1>1, <1>2, <1>3, <1>4, <1>5, <1>6 DEF Next, ClientCrash

LEMMA StaysInit == Init => Stays
  BY DEF Init, Stays, Ending, OnTheWay, Displays, Live, Told, Queued, SCtrl, CCtrl

\* On the way to its last report the handler meets no error.
LEMMA ReportReached == TypeOK /\ Conversation /\ Stays => ExchangeSafe
<1> SUFFICES ASSUME TypeOK, Conversation, Stays, OnTheWay, SCtrl # "report"
             PROVE  open["client"] /\ open["server"]
  BY DEF ExchangeSafe, SCtrl, ReadErr, WriteErr
<1>1. open["server"] /\ Ending
  BY DEF Stays, Ending
<1>2. ~Displays
  BY DEF OnTheWay, Displays, SCtrl
<1>3. Live
  BY <1>1, <1>2 DEF Stays
<1>4. QED
  BY <1>1, <1>3 DEF Conversation, ClientPart, Live

\* Unless a client is killed, a server that has asked for results comes to its last
\* report without an error, so that it takes the token of its last statistics: with
\* any other fault, any tickers and any number of sessions.
THEOREM ExchangeCompletes == "crash" \notin Faults => (Spec => []ExchangeSafe)
<1> SUFFICES ASSUME "crash" \notin Faults PROVE Spec => []ExchangeSafe
  OBVIOUS
<1> DEFINE Kept == Course /\ LastEnd /\ Sampled /\ Stays
<1>1. Init => Kept
  BY CourseInit, SampledInit, StaysInit
<1>2. TypeOK /\ Conversation /\ Counting /\ Kept /\ [Next]_vars => Kept'
  BY CourseNext, SampledNext, StaysNext
<1>3. TypeOK /\ Conversation /\ Kept => ExchangeSafe
  BY ReportReached
<1> HIDE DEF Kept
<1>4. QED
  BY <1>1, <1>2, <1>3, TypeCorrect, Converses, EndsCounted, PTL DEF Spec

-----------------------------------------------------------------------------
\* What keeps the server from a run-time panic: it serves one client; or no ticker
\* races its handler and no port stays bound that a KCP listen would find.
ServedSafely ==
    \/ MaxSessions = 1
    \/ MaxTicks = 0 /\ (Proto = "kcp" => Undisturbed)

\* Its port is bound when it listens only over another transport than KCP, after a
\* session that was cut short.
LEMMA ListenSafe ==
    TypeOK /\ ServerSampled /\ ServedSafely /\ (Undisturbed => Known) => ListensSafely
<1> SUFFICES ASSUME TypeOK, ServerSampled, ServedSafely, Undisturbed => Known,
                    SMain = "listen", protoOpen
             PROVE  Proto # "kcp"
  BY DEF ListensSafely
<1>1. MaxSessions # 1
  BY DEF ServerSampled, Unbound
<1>2. ~(Undisturbed /\ Known)
  BY DEF Known, Together, Standing, Alive
<1>3. QED
  BY <1>1, <1>2 DEF ServedSafely

\* Neither process dies of a report or of a listen: a server of one client over any
\* transport, with any ticks and faults; one of any number of clients whose tickers
\* do not tick, if its transport is not KCP or nothing disturbs its sessions.
THEOREM NeverPanics == ServedSafely => (Spec => []NoPanic)
<1> SUFFICES ASSUME ServedSafely PROVE Spec => []NoPanic
  OBVIOUS
<1> DEFINE Safe == Undisturbed => Known
<1>1. Spec => []Safe
  <2>1. CASE Undisturbed
    <3>1. Known => Safe
      OBVIOUS
    <3> HIDE DEF Safe
    <3>2. QED
      BY <2>1, <3>1, StaysTogether, PTL
  <2>2. CASE ~Undisturbed
    <3>1. TypeOK => Safe
      BY <2>2
    <3> HIDE DEF Safe
    <3>2. QED
      BY <3>1, TypeCorrect, PTL
  <2>3. QED
    BY <2>1, <2>2
<1>2. Init => ServerSampled /\ ServerUnharmed
  BY ServerSampledInit DEF Init, ServerUnharmed
<1>3. /\ TypeOK /\ Conversation /\ Safe /\ ServerSampled /\ ServerUnharmed /\ [Next]_vars
      => ServerSampled' /\ ServerUnharmed'
  <2>1. ReportsServed
    BY DEF ServedSafely, ReportsServed
  <2>2. QED
    BY <2>1, ListenSafe, ServerSampledNext, ServerKept
<1>4. TypeOK /\ ServerUnharmed /\ ClientUnharmed => NoPanic
  BY DEF TypeOK, TestType, ServerUnharmed, ClientUnharmed, NoPanic
<1> HIDE DEF Safe
<1>5. QED
  BY <1>1, <1>2, <1>3, <1>4, TypeCorrect, Converses, ClientReportsSafely, PTL DEF Spec

=============================================================================
