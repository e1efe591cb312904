----------------------------- MODULE IperfClient -----------------------------
(* The client process: the main goroutine (runClient), the control goroutine  *)
(* (handleClientCtrlMsg with clientEnd) and the duration timer.  A control    *)
(* point of pc is a place where the goroutine may wait or where another may   *)
(* run; what lies between two of them is one action.                          *)
EXTENDS IperfTest

-----------------------------------------------------------------------------
\* runClient

\* What the main loop does with a state from ctrlChan, n TEST_ENDs counted.
\* Mutant: the main goroutine does not wait for every stream to end.
VerdictAtFirstEnd(m, n) ==
    CASE m = "TEST_RUNNING" -> "start"
      [] m = "TEST_END" /\ n = 1 -> "stats"
      [] m = "IPERF_DONE" -> "exit"
      [] OTHER -> "continue"
\* Mutant: the count is compared one too far.
VerdictTooLate(m, n) ==
    CASE m = "TEST_RUNNING" -> "start"
      [] m = "TEST_END" /\ n = NumStreams + 1 -> "stats"
      [] m = "IPERF_DONE" -> "exit"
      [] OTHER -> "continue"
\* Mutant: the TEST_END that setSendState queues is one too many.
VerdictNoneSpare(m, n) ==
    CASE m = "TEST_RUNNING" -> "start"
      [] m = "TEST_END" /\ n = NumStreams -> "stats"
      [] m = "TEST_END" /\ n > NumStreams -> "exit"
      [] m = "IPERF_DONE" -> "exit"
      [] OTHER -> "continue"
Verdict(m, n) ==
    CASE m = "TEST_RUNNING" -> "start"
      [] m = "TEST_END" /\ n = NumStreams -> "stats"
      [] m = "TEST_END" /\ n > NumStreams + 1 -> "exit"
      [] m = "IPERF_DONE" -> "exit"
      [] OTHER -> "continue"

Counted(m) == IF m = "TEST_END" THEN ends + 1 ELSE ends

ClientPops(verdict) ==
    /\ pc["cMain"] = "loop"
    /\ CanPop("client")
    /\ LET m == Head(ctrlChan["client"]) IN verdict = Verdict(m, Counted(m))

ClientStart ==
    /\ ClientPops("start")
    /\ Pop("client")
    /\ StartStreams("client")
    /\ UNCHANGED <<state, done, pc, arg, statVars, netVars, nstreams, sock, data,
                   timeVars, testVars>>

ClientContinue ==
    /\ ClientPops("continue")
    /\ Pop("client")
    /\ ends' = Counted(Head(ctrlChan["client"]))
    /\ UNCHANGED <<state, done, pc, arg, statVars, netVars, dataVars, timeVars,
                   session, protoOpen, panicked>>

\* All streams have ended: test.done = true, and statsCallback samples them.
ClientAllEnded ==
    /\ ClientPops("stats")
    /\ Pop("client")
    /\ ends' = Counted(Head(ctrlChan["client"]))
    /\ done' = [done EXCEPT !["client"] = TRUE]
    /\ Sample("client")
    /\ Goto("cMain", "stats")
    /\ UNCHANGED <<state, arg, chStats, netVars, dataVars, timeVars,
                   session, protoOpen, panicked>>

ClientSendsEnd ==
    /\ pc["cMain"] = "stats"
    /\ PutToken("client")
    /\ SetSend("cMain", "TEST_END")
    /\ UNCHANGED <<done, ctrlChan, sampled, netVars, dataVars, timeVars, testVars>>

ClientEndWritten ==
    /\ pc["cMain"] = "write"
    /\ WriteOk("client", arg["cMain"])
    /\ Goto("cMain", "loop")
    /\ UNCHANGED <<state, done, ctrlChan, arg, statVars, open, dataVars, timeVars, testVars>>

ClientEndNotWritten ==
    /\ pc["cMain"] = "write"
    /\ WriteErr("client")
    /\ Exit("client")

ClientExit == ClientPops("exit") /\ Exit("client")

ClientCrash ==
    /\ "crash" \in Faults
    /\ pc["cMain"] # "exited"
    /\ Exit("client")

-----------------------------------------------------------------------------
\* handleClientCtrlMsg

\* The case of the switch a message selects, as the control point it leads to.
\* Mutant: the case of IPERF_EXCHANGE_RESULT falls to the display of results.
ClientOnNoResults(m) ==
    CASE m = "IPERF_EXCHANGE_PARAMS" -> "sendParams"
      [] m = "IPERF_CREATE_STREAM"   -> "connect"
      [] m = "TEST_START"            -> "init"
      [] m = "TEST_RUNNING"          -> "pushRunning"
      [] m = "IPERF_EXCHANGE_RESULT" -> "clientEnd"
      [] OTHER                       -> "pushDone"
ClientOn(m) ==
    CASE m = "IPERF_EXCHANGE_PARAMS" -> "sendParams"
      [] m = "IPERF_CREATE_STREAM"   -> "connect"
      [] m = "TEST_START"            -> "init"
      [] m = "TEST_RUNNING"          -> "pushRunning"
      [] m = "IPERF_EXCHANGE_RESULT" -> "sendResults"
      [] m = "IPERF_DISPLAY_RESULT"  -> "clientEnd"
      [] OTHER                       -> "pushDone"

\* for test.state != IPERF_DONE: both ways out push IPERF_DONE.
CtrlTop == IF state["client"] = "IPERF_DONE" THEN "pushDone" ELSE "read"

ClientReads ==
    /\ pc["cCtrl"] = "read"
    /\ CanRead("client")
    /\ LET m == Head(wire["client"]) IN
         /\ state' = [state EXCEPT !["client"] = IF m \in State THEN m ELSE "ZERO"]
         /\ Goto("cCtrl", ClientOn(m))
    /\ Consume("client")
    /\ UNCHANGED <<done, ctrlChan, arg, statVars, open, dataVars, timeVars, testVars>>

ClientReadFails ==
    /\ pc["cCtrl"] = "read"
    /\ ReadErr("client")
    /\ CloseCtrl("client")
    /\ Goto("cCtrl", "pushDone")
    /\ UNCHANGED <<state, done, ctrlChan, arg, statVars, wire, dataVars, timeVars, testVars>>

\* sendParams, and sendResults with its two writes.
ClientSends(label, m, next, failed) ==
    /\ pc["cCtrl"] = label
    /\ \/ WriteOk("client", m) /\ Goto("cCtrl", next)
       \/ WriteErr("client") /\ Goto("cCtrl", failed) /\ wire' = wire
    /\ UNCHANGED <<state, done, ctrlChan, arg, statVars, open, dataVars, timeVars, testVars>>

ClientSendParams  == ClientSends("sendParams", "PARAMS", CtrlTop, "pushDone")
ClientSendResults == ClientSends("sendResults", "RESULTS", "getResults", "pushDone")

ClientGetResults ==
    /\ pc["cCtrl"] = "getResults"
    /\ CanRead("client")
    /\ Goto("cCtrl", IF Head(wire["client"]) = "RESULTS" THEN CtrlTop ELSE "pushDone")
    /\ Consume("client")
    /\ UNCHANGED <<state, done, ctrlChan, arg, statVars, open, dataVars, timeVars, testVars>>

ClientResultsFail ==
    /\ pc["cCtrl"] = "getResults"
    /\ ReadErr("client")
    /\ Goto("cCtrl", "pushDone")
    /\ UNCHANGED <<state, done, ctrlChan, arg, statVars, netVars, dataVars, timeVars, testVars>>

\* createStreams, one connection at a time.
\* Mutant: the loop runs once too often.
MoreStreamsOffByOne(n) == n <= NumStreams
MoreStreams(n) == n < NumStreams

\* A TCP connection needs the server's listener; the others dial over UDP.
Dialable == Proto = "tcp" => pc["sMain"] # "exited"

ClientConnects ==
    /\ pc["cCtrl"] = "connect"
    /\ Dialable
    /\ MoreStreams(nstreams["client"])
    /\ nstreams' = [nstreams EXCEPT !["client"] = @ + 1]
    /\ sock' = [sock EXCEPT ![<<"client", session, nstreams["client"] + 1>>] = TRUE]
    /\ Goto("cCtrl", IF MoreStreams(nstreams["client"] + 1) THEN "connect" ELSE CtrlTop)
    /\ UNCHANGED <<state, done, ctrlChan, arg, statVars, netVars, data, strm,
                   timeVars, testVars>>

ClientConnectRefused ==
    /\ pc["cCtrl"] = "connect"
    /\ "refused" \in Faults \/ ~Dialable
    /\ Goto("cCtrl", "pushDone")
    /\ UNCHANGED <<state, done, ctrlChan, arg, statVars, netVars, dataVars, timeVars, testVars>>

\* initTest, createClientTimer, createClientOmitTimer, createSenderTicker.
ClientInits ==
    /\ pc["cCtrl"] = "init"
    /\ CreateTimer("client")
    /\ Goto("cCtrl", CtrlTop)
    /\ UNCHANGED <<state, done, ctrlChan, arg, statVars, netVars, dataVars, testVars>>

ClientPushesRunning ==
    /\ pc["cCtrl"] = "pushRunning"
    /\ Push("client", "TEST_RUNNING")
    /\ Goto("cCtrl", CtrlTop)
    /\ UNCHANGED <<state, done, arg, statVars, netVars, dataVars, timeVars, testVars>>

\* clientEnd: close the streams; report; setSendState(IPERF_DONE), whose failure
\* is only logged; close the control connection; push IPERF_DONE.
ClientClosesStreams ==
    /\ pc["cCtrl"] = "clientEnd"
    /\ CloseStreams("client")
    /\ Goto("cCtrl", "report")
    /\ UNCHANGED <<state, done, ctrlChan, arg, statVars, netVars, nstreams, data, strm,
                   timeVars, testVars>>

ClientReports ==
    /\ pc["cCtrl"] = "report"
    /\ CanReport("client")
    /\ IF PrintPanics("client")
         THEN Panic("client")
         ELSE /\ TakeToken("client")
              /\ SetSend("cCtrl", "IPERF_DONE")
              /\ UNCHANGED <<done, ctrlChan, sampled, netVars, dataVars, timeVars, testVars>>

ClientSendsDone == ClientSends("write", arg["cCtrl"], "close", "close")

ClientClosesCtrl ==
    /\ pc["cCtrl"] = "close"
    /\ CloseCtrl("client")
    /\ Goto("cCtrl", "endPush")
    /\ UNCHANGED <<state, done, ctrlChan, arg, statVars, wire, dataVars, timeVars, testVars>>

\* The push that ends clientEnd, and the one every way out of the handler makes.
ClientPushesDone ==
    /\ pc["cCtrl"] \in {"endPush", "pushDone"}
    /\ Push("client", "IPERF_DONE")
    /\ Goto("cCtrl", IF pc["cCtrl"] = "endPush" THEN CtrlTop ELSE "exited")
    /\ UNCHANGED <<state, done, arg, statVars, netVars, dataVars, timeVars, testVars>>

-----------------------------------------------------------------------------
\* clientTimerProc
ClientTimer(n) ==
    /\ timer[<<"client", n>>] = "armed"
    /\ timer' = [timer EXCEPT ![<<"client", n>>] = "fired"]
    /\ done' = [done EXCEPT !["client"] = TRUE]
    /\ UNCHANGED <<state, ctrlChan, pc, arg, statVars, netVars, dataVars,
                   curTimer, left, busy, testVars>>

ClientMain == ClientStart \/ ClientContinue \/ ClientAllEnded \/ ClientSendsEnd
              \/ SendPush("cMain") \/ ClientEndWritten \/ ClientEndNotWritten \/ ClientExit

ClientCtrl == ClientReads \/ ClientReadFails \/ ClientSendParams \/ ClientSendResults
              \/ ClientGetResults \/ ClientResultsFail \/ ClientConnects
              \/ ClientConnectRefused \/ ClientInits \/ ClientPushesRunning
              \/ ClientClosesStreams \/ ClientReports \/ SendPush("cCtrl")
              \/ ClientSendsDone \/ ClientClosesCtrl \/ ClientPushesDone
=============================================================================
