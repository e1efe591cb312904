----------------------------- MODULE IperfServer -----------------------------
(* The server process: the main goroutine (runServer), the control goroutine  *)
(* it starts for every client (handleServerCtrlMsg) and the duration timers,  *)
(* of this session and of earlier ones that were never stopped.               *)
EXTENDS IperfTest

LOCAL INSTANCE Functions    \* Range

\* close(ctrlDone) has happened: the handler of the last client has returned.
\* Mutant: the main goroutine does not wait for it.
CtrlDoneUnchecked == TRUE
\* Mutant: the channel is never closed.
CtrlNeverDone == FALSE
CtrlDone == pc["sCtrl"] = "exited"

\* The control point after setSendState(m) returned 0.
\* Mutant: the server displays its results before the client's have arrived.
AfterSendNoResults(m) ==
    CASE m = "IPERF_EXCHANGE_PARAMS" -> "getParams"
      [] m = "TEST_START"            -> "init"
      [] m = "IPERF_EXCHANGE_RESULT" -> "sendResults"
      [] m = "IPERF_DISPLAY_RESULT"  -> "report"
      [] m = "IPERF_DONE"            -> "read"
      [] OTHER                       -> "loop"
AfterSend(m) ==
    CASE m = "IPERF_EXCHANGE_PARAMS" -> "getParams"
      [] m = "TEST_START"            -> "init"
      [] m = "IPERF_EXCHANGE_RESULT" -> "getResults"
      [] m = "IPERF_DISPLAY_RESULT"  -> "report"
      [] m = "IPERF_DONE"            -> "read"
      [] OTHER                       -> "loop"     \* CREATE_STREAM, RUNNING

\* Where the main goroutine goes when setSendState(m) failed.  After a failed
\* IPERF_CREATE_STREAM it waits for the handler and skips the clean-up.
AfterSendFailed(m) ==
    CASE m = "IPERF_EXCHANGE_PARAMS" -> "reset"
      [] m = "IPERF_CREATE_STREAM"   -> "waitReset"
      [] OTHER                       -> "waitCtrl"

-----------------------------------------------------------------------------
\* runServer

\* Mutant: the channel of the last session is kept.
ServerResetsKeeping ==
    /\ pc["sMain"] = "reset"
    /\ state' = [state EXCEPT !["server"] = "IPERF_START"]
    /\ done' = [done EXCEPT !["server"] = FALSE]
    /\ nstreams' = [nstreams EXCEPT !["server"] = 0]
    /\ Goto("sMain", "accept")
    /\ UNCHANGED <<ctrlChan, arg, statVars, netVars, sock, data, strm, timeVars, testVars>>
ServerResets ==
    /\ pc["sMain"] = "reset"
    /\ state' = [state EXCEPT !["server"] = "IPERF_START"]
    /\ done' = [done EXCEPT !["server"] = FALSE]
    /\ nstreams' = [nstreams EXCEPT !["server"] = 0]
    /\ ctrlChan' = [ctrlChan EXCEPT !["server"] = <<>>]
    /\ Goto("sMain", "accept")
    /\ UNCHANGED <<arg, statVars, netVars, sock, data, strm, timeVars, testVars>>

\* The two ends of setSendState, for either goroutine of the server.
ServerWritten(g) ==
    /\ pc[g] = "write"
    /\ WriteOk("server", arg[g])
    /\ Goto(g, AfterSend(arg[g]))
    /\ UNCHANGED <<state, done, ctrlChan, arg, statVars, open, dataVars, timeVars, testVars>>

\* The main goroutine closes the connection and leaves; the handler returns,
\* and its deferred call closes it.
ServerNotWritten(g) ==
    /\ pc[g] = "write"
    /\ WriteErr("server")
    /\ CloseCtrl("server")
    /\ Goto(g, IF g = "sMain" THEN AfterSendFailed(arg[g]) ELSE "exited")
    /\ UNCHANGED <<state, done, ctrlChan, arg, statVars, wire, dataVars, timeVars, testVars>>

\* getParams: one Read, decoded; then the handler goroutine is started.
ServerGetsParams ==
    /\ pc["sMain"] = "getParams"
    /\ CanRead("server")
    /\ Head(wire["server"]) = "PARAMS"
    /\ Consume("server")
    /\ pc' = [pc EXCEPT !["sMain"] = "listen", !["sCtrl"] = "read"]
    /\ UNCHANGED <<state, done, ctrlChan, arg, statVars, open, dataVars, timeVars, testVars>>

ServerParamsFail ==
    /\ pc["sMain"] = "getParams"
    /\ \/ ReadErr("server")
       \/ "shortRead" \in Faults /\ CanRead("server")
    /\ CloseCtrl("server")
    /\ Goto("sMain", "reset")
    /\ UNCHANGED <<state, done, ctrlChan, arg, statVars, wire, dataVars, timeVars, testVars>>

\* proto.listen.  For TCP it is the listener itself; for the others a port is
\* bound, which fails while an earlier protoListener is open.
ServerListens ==
    /\ pc["sMain"] = "listen"
    /\ ~protoOpen
    /\ protoOpen' = (Proto # "tcp")
    /\ SetSend("sMain", "IPERF_CREATE_STREAM")
    /\ UNCHANGED <<done, ctrlChan, statVars, netVars, dataVars, timeVars,
                   session, ends, panicked>>

\* The error reaches rudpProto.listen's caller; kcpProto.listen overwrites it
\* with that of a method call on the nil listener.
ServerListenFails ==
    /\ pc["sMain"] = "listen"
    /\ protoOpen
    /\ IF Proto = "kcp"
         THEN Panic("server")
         ELSE /\ CloseCtrl("server")
              /\ Goto("sMain", "waitReset")
              /\ UNCHANGED <<state, done, ctrlChan, arg, statVars, wire, dataVars,
                             timeVars, testVars>>

\* The cases of ServerLoop on a state from ctrlChan.
ServerOn(m) ==
    CASE m = "IPERF_DONE"          -> "waitCtrl"
      [] m = "IPERF_CREATE_STREAM" -> "acceptStreams"
      [] OTHER                     -> "loop"

ServerPops ==
    /\ pc["sMain"] = "loop"
    /\ Pop("server")
    /\ LET m == Head(ctrlChan["server"]) IN
         /\ Goto("sMain", ServerOn(m))
         /\ IF m = "TEST_RUNNING" THEN StartStreams("server") ELSE UNCHANGED strm
    /\ UNCHANGED <<state, done, arg, statVars, netVars, nstreams, sock, data,
                   timeVars, testVars>>

\* proto.accept waits for a connection of the client, alive or not.
ServerAccepts ==
    /\ pc["sMain"] = "acceptStreams"
    /\ nstreams["server"] < nstreams["client"]
    /\ nstreams' = [nstreams EXCEPT !["server"] = @ + 1]
    /\ sock' = [sock EXCEPT ![<<"server", session, nstreams["server"] + 1>>] = TRUE]
    /\ IF nstreams["server"] + 1 = NumStreams
         THEN SetSend("sMain", "TEST_START")
         ELSE UNCHANGED <<state, arg, pc>>
    /\ UNCHANGED <<done, ctrlChan, statVars, netVars, data, strm, timeVars, testVars>>

\* initTest, createServerTimer, createServerOmitTimer, createSenderTicker.
ServerInits ==
    /\ pc["sMain"] = "init"
    /\ CreateTimer("server")
    /\ SetSend("sMain", "TEST_RUNNING")
    /\ UNCHANGED <<done, ctrlChan, statVars, netVars, dataVars, testVars>>

\* case <-ctrlDone, and the waits for it; then the clean-up, where there is one.
ServerCtrlDone ==
    /\ pc["sMain"] \in {"loop", "waitCtrl", "waitReset"}
    /\ CtrlDone
    /\ Goto("sMain", "reset")
    /\ protoOpen' = (protoOpen /\ pc["sMain"] = "waitReset")
    /\ UNCHANGED <<state, done, ctrlChan, arg, statVars, netVars, dataVars, timeVars,
                   session, ends, panicked>>

-----------------------------------------------------------------------------
\* handleServerCtrlMsg

\* The way out of the switch a message takes.  CLIENT_TERMINATE, which no client
\* sends, is not a State.
ServerHandles(m) ==
    CASE m = "TEST_START" -> "read"
      [] m = "TEST_END"   -> "stats"
      [] OTHER            -> "pushDone"

\* test.done = true, then statsCallback up to its token.
ServerReadsEnd ==
    /\ pc["sCtrl"] = "read"
    /\ CanRead("server")
    /\ Head(wire["server"]) = "TEST_END"
    /\ Consume("server")
    /\ state' = [state EXCEPT !["server"] = "TEST_END"]
    /\ done' = [done EXCEPT !["server"] = TRUE]
    /\ Sample("server")
    /\ Goto("sCtrl", ServerHandles("TEST_END"))
    /\ UNCHANGED <<ctrlChan, arg, chStats, open, dataVars, timeVars, testVars>>

\* IPERF_DONE stops the timers test.timer and the tickers are; any other message
\* is unexpected, save TEST_START, which does nothing.
ServerReadsOther ==
    /\ pc["sCtrl"] = "read"
    /\ CanRead("server")
    /\ LET m == Head(wire["server"]) IN
         /\ m # "TEST_END"
         /\ Goto("sCtrl", ServerHandles(m))
         /\ state' = [state EXCEPT !["server"] = IF m \in State THEN m ELSE "ZERO"]
         /\ IF m = "IPERF_DONE"
              THEN /\ timer' = [t \in Side \X Session |->
                                  IF t = <<"server", curTimer["server"]>> THEN "off" ELSE timer[t]]
                   /\ left' = [t \in Ticker |->
                                  IF t[1] = "server" /\ t[3] = curTimer["server"] THEN 0 ELSE left[t]]
              ELSE UNCHANGED <<timer, left>>
    /\ Consume("server")
    /\ UNCHANGED <<done, ctrlChan, arg, statVars, open, dataVars, curTimer, busy, testVars>>

\* The token; closeAllStreams; setSendState(IPERF_EXCHANGE_RESULT).
ServerClosesStreams ==
    /\ pc["sCtrl"] = "stats"
    /\ PutToken("server")
    /\ CloseStreams("server")
    /\ SetSend("sCtrl", "IPERF_EXCHANGE_RESULT")
    /\ UNCHANGED <<done, ctrlChan, sampled, netVars, nstreams, data, strm, timeVars, testVars>>

ServerGetsResults ==
    /\ pc["sCtrl"] = "getResults"
    /\ CanRead("server")
    /\ Head(wire["server"]) = "RESULTS"
    /\ Consume("server")
    /\ Goto("sCtrl", "sendResults")
    /\ UNCHANGED <<state, done, ctrlChan, arg, statVars, open, dataVars, timeVars, testVars>>

ServerSendsResults ==
    /\ pc["sCtrl"] = "sendResults"
    /\ WriteOk("server", "RESULTS")
    /\ SetSend("sCtrl", "IPERF_DISPLAY_RESULT")
    /\ UNCHANGED <<done, ctrlChan, statVars, open, dataVars, timeVars, testVars>>

ServerReports ==
    /\ pc["sCtrl"] = "report"
    /\ CanReport("server")
    /\ IF PrintPanics("server")
         THEN Panic("server")
         ELSE /\ TakeToken("server")
              /\ SetSend("sCtrl", "IPERF_DONE")
              /\ UNCHANGED <<done, ctrlChan, sampled, netVars, dataVars, timeVars, testVars>>

\* A read or a write that fails makes the handler return, and so does its last
\* push; the deferred call closes the control connection.
ServerHandlerFails ==
    /\ \/ pc["sCtrl"] \in {"read", "getResults"} /\ ReadErr("server")
       \/ pc["sCtrl"] = "sendResults" /\ WriteErr("server")
    /\ CloseCtrl("server")
    /\ Goto("sCtrl", "exited")
    /\ UNCHANGED <<state, done, ctrlChan, arg, statVars, wire, dataVars, timeVars, testVars>>

ServerHandlerReturns ==
    /\ pc["sCtrl"] = "pushDone"
    /\ Push("server", "IPERF_DONE")
    /\ CloseCtrl("server")
    /\ Goto("sCtrl", "exited")
    /\ UNCHANGED <<state, done, arg, statVars, wire, dataVars, timeVars, testVars>>

-----------------------------------------------------------------------------
\* serverTimerProc

\* The client is done with its part of the running test: its timer has fired,
\* and its stream goroutines were started and are past their last read or write.
ClientEnded ==
    /\ timer[<<"client", session>>] = "fired"
    /\ state["client"] \notin {"TEST_START", "ZERO"}
    /\ pc["cCtrl"] # "pushRunning" /\ "TEST_RUNNING" \notin Range(ctrlChan["client"])
    /\ \A e \in Streams("client") : strm[e] # "io"

\* An assumption about time, which the code has no guard for: the server's timer
\* runs 5 seconds longer than that of the client, which is started a message
\* later; unless "slow" is a fault, that is enough.
Margin(n) == "slow" \in Faults \/ n # session \/ ~open["client"] \/ ClientEnded

\* The timer of session n goes off.  It acts on the test as it is now, and on
\* the done channel of the timer the test has now.
ServerTimer(n) ==
    /\ timer[<<"server", n>>] = "armed"
    /\ Margin(n)
    /\ IF done["server"]
         THEN /\ timer' = [timer EXCEPT ![<<"server", n>>] = "fired"]
              /\ UNCHANGED <<done, sock>>
         ELSE /\ done' = [done EXCEPT !["server"] = TRUE]
              /\ CloseStreams("server")
              /\ timer' = [t \in Side \X Session |->
                             IF t \in {<<"server", n>>, <<"server", curTimer["server"]>>}
                               THEN "fired" ELSE timer[t]]
    /\ UNCHANGED <<state, ctrlChan, pc, arg, statVars, netVars, nstreams, data, strm,
                   curTimer, left, busy, testVars>>

\* The server process dies.
ServerCrash ==
    /\ "serverCrash" \in Faults
    /\ pc["sMain"] # "exited"
    /\ Exit("server")

ServerMain == ServerResets \/ ServerGetsParams \/ ServerParamsFail \/ ServerListens
              \/ ServerListenFails \/ ServerPops \/ ServerAccepts \/ ServerInits
              \/ SendPush("sMain") \/ ServerWritten("sMain") \/ ServerNotWritten("sMain")
              \/ ServerCtrlDone

ServerCtrl == ServerReadsEnd \/ ServerReadsOther \/ ServerClosesStreams
              \/ ServerGetsResults \/ ServerSendsResults \/ ServerReports
              \/ SendPush("sCtrl") \/ ServerWritten("sCtrl") \/ ServerNotWritten("sCtrl")
              \/ ServerHandlerFails \/ ServerHandlerReturns
=============================================================================
