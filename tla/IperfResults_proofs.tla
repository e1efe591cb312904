------------------------- MODULE IperfResults_proofs -------------------------
(* What Conversation says of the connection, carried on to ctrlChan, chStats  *)
(* and the interval results: the client counts the ends of its streams, what  *)
(* ResultsFinal rests on; its reports find results, and those of a server;    *)
(* what a goroutine finds in the channel it empties; what the server hears.   *)
EXTENDS IperfConversation_proofs, FiniteSetTheorems

USE ParamsAssumption

USE DEF Side, Goroutine, SideOf, Peer, Goto, SetSend

\* Where m stands in q.
Places(q, m) == {i \in 1..Len(q) : q[i] = m}

\* The ends the main goroutine of the client has not counted yet.
Uncounted == Places(ctrlChan["client"], "TEST_END")

\* TEST_RUNNING starts the streams once, and every stream ends with one TEST_END:
\* until the last is counted, what is counted, what is queued and what still runs
\* are no more than the streams; from then on nothing runs, nor will.
Counting ==
    /\ \A e \in Running : e[2] = session
    /\ Once("client", "TEST_RUNNING")
    /\ Queued("client", "TEST_RUNNING") =>
           ends = 0 /\ Running = {} /\ ~Queued("client", "TEST_END")
    /\ ends < NumStreams => ends + Cardinality(Uncounted) + Cardinality(Running) <= NumStreams
    /\ ends >= NumStreams => Running = {} /\ ~Queued("client", "TEST_RUNNING")

-----------------------------------------------------------------------------
\* Counting messages in a queue.
LEMMA PlacesFinite ==
    ASSUME NEW S, NEW q \in Seq(S), NEW m
    PROVE  IsFiniteSet(Places(q, m)) /\ Cardinality(Places(q, m)) \in Nat
<1>1. Len(q) \in Nat /\ IsFiniteSet(1..Len(q))
  BY FS_Interval
<1>2. Places(q, m) \in SUBSET (1..Len(q))
  BY DEF Places
<1>3. QED
  BY <1>1, <1>2, FS_Subset, FS_CardinalityType

LEMMA PlacesAppend ==
    ASSUME NEW S, NEW q \in Seq(S), NEW x \in S, NEW m
    PROVE  Cardinality(Places(Append(q, x), m)) =
               Cardinality(Places(q, m)) + (IF x = m THEN 1 ELSE 0)
<1>1. /\ Len(q) \in Nat /\ Len(Append(q, x)) = Len(q) + 1 /\ Append(q, x)[Len(q) + 1] = x
      /\ \A i \in 1..Len(q) : Append(q, x)[i] = q[i]
  OBVIOUS
<1>2. 1..(Len(q) + 1) = 1..Len(q) \cup {Len(q) + 1} /\ Len(q) + 1 \notin 1..Len(q)
  BY <1>1
<1>3. IsFiniteSet(Places(q, m)) /\ Cardinality(Places(q, m)) \in Nat
  BY PlacesFinite
<1>4. CASE x = m
  <2>1. Places(Append(q, x), m) = Places(q, m) \cup {Len(q) + 1} /\ Len(q) + 1 \notin Places(q, m)
    BY <1>1, <1>2, <1>4 DEF Places
  <2>2. QED
    BY <1>3, <1>4, <2>1, FS_AddElement
<1>5. CASE x # m
  <2>1. Places(Append(q, x), m) = Places(q, m)
    BY <1>1, <1>2, <1>5 DEF Places
  <2>2. QED
    BY <1>3, <1>5, <2>1
<1>6. QED
  BY <1>4, <1>5

LEMMA PlacesTail ==
    ASSUME NEW S, NEW q \in Seq(S), q # <<>>, NEW m
    PROVE  Cardinality(Places(Tail(q), m)) <=
               Cardinality(Places(q, m)) - (IF Head(q) = m THEN 1 ELSE 0)
<1>1. /\ Len(q) \in Nat \ {0} /\ Len(Tail(q)) = Len(q) - 1 /\ Head(q) = q[1] /\ Tail(q) \in Seq(S)
      /\ \A i \in 1..Len(Tail(q)) : Tail(q)[i] = q[i + 1]
  OBVIOUS
<1>2. IsFiniteSet(Places(q, m)) /\ Cardinality(Places(q, m)) \in Nat
  BY PlacesFinite
<1>3. /\ IsFiniteSet(Places(q, m) \ {1})
      /\ Cardinality(Places(q, m) \ {1}) =
             Cardinality(Places(q, m)) - (IF Head(q) = m THEN 1 ELSE 0)
  <2>1. 1 \in Places(q, m) <=> Head(q) = m
    BY <1>1 DEF Places
  <2>2. QED
    BY <1>2, <2>1, FS_RemoveElement
<1> DEFINE f == [i \in Places(Tail(q), m) |-> i + 1]
<1>4. f \in Injection(Places(Tail(q), m), Places(q, m) \ {1})
  <2>1. \A i \in Places(Tail(q), m) : i \in Nat /\ i + 1 \in Places(q, m) \ {1}
    BY <1>1 DEF Places
  <2>2. f \in [Places(Tail(q), m) -> Places(q, m) \ {1}]
    BY <2>1
  <2>3. \A i, j \in Places(Tail(q), m) : f[i] = f[j] => i = j
    BY <2>1
  <2>4. QED
    BY <2>2, <2>3 DEF Injection, IsInjective
<1>5. QED
  BY <1>3, <1>4, FS_Injection

\* The client runs at most one goroutine per stream.
LEMMA RunningFinite ==
    TypeOK /\ Counting => /\ IsFiniteSet(Running) /\ Cardinality(Running) \in Nat
                          /\ Cardinality(Running) <= NumStreams
<1> SUFFICES ASSUME TypeOK, Counting
             PROVE  /\ IsFiniteSet(Running) /\ Cardinality(Running) \in Nat
                    /\ Cardinality(Running) <= NumStreams
  OBVIOUS
<1> DEFINE f == [e \in Running |-> e[3]]
<1>1. f \in Injection(Running, Index)
  <2>1. \A e \in Running : e = <<"client", session, e[3]>> /\ e[3] \in Index
    BY DEF Running, End, Counting
  <2>2. f \in [Running -> Index] /\ \A d, e \in Running : f[d] = f[e] => d = e
    BY <2>1
  <2>3. QED
    BY <2>2 DEF Injection, IsInjective
<1>2. IsFiniteSet(Index) /\ Cardinality(Index) = NumStreams
  BY FS_Interval DEF Index
<1>3. QED
  BY <1>1, <1>2, FS_Injection, FS_CardinalityType

-----------------------------------------------------------------------------
\* What Counting is made of.
CountView == <<ctrlChan["client"], ends, Running, session>>

LEMMA CountingStays == Counting /\ UNCHANGED CountView => Counting'
  BY DEF Counting, CountView, Queued, Once, Uncounted

LEMMA CountingGone == \A s \in Side : TypeOK /\ Counting /\ Gone(s) => Counting'
<1> SUFFICES ASSUME NEW s \in Side, TypeOK, Counting, Gone(s) PROVE Counting'
  OBVIOUS
<1> USE DEF TypeOK, CtrlType, DataType, Gone
<1>1. UNCHANGED <<ends, session>>
  OBVIOUS
<1>2. CASE s = "server"
  <2>1. UNCHANGED Running /\ UNCHANGED ctrlChan["client"]
    BY <1>2 DEF Running, End
  <2>2. QED
    BY <1>1, <2>1, CountingStays DEF CountView
<1>3. CASE s = "client"
  <2>1. Running' = {} /\ ctrlChan'["client"] = <<>>
    BY <1>3 DEF Running, End
  <2>2. Uncounted' = {} /\ Cardinality(Uncounted') = 0 /\ Cardinality(Running') = 0
    <3>1. Len(ctrlChan'["client"]) = 0
      BY <2>1
    <3>2. Uncounted' = {}
      BY <3>1 DEF Uncounted, Places
    <3>3. QED
      BY <2>1, <3>2, FS_EmptySet
  <2>3. ends \in Nat
    BY DEF TestType
  <2>4. QED
    BY <1>1, <2>1, <2>2, <2>3 DEF Counting, Queued, Once
<1>4. QED
  BY <1>2, <1>3

\* Numbers of the counts.
LEMMA CountTypes ==
    TypeOK /\ Counting => /\ ends \in Nat /\ Cardinality(Uncounted) \in Nat
                          /\ Cardinality(Running) \in Nat /\ ctrlChan["client"] \in Seq(State)
  BY PlacesFinite, RunningFinite DEF TypeOK, CtrlType, TestType, Uncounted

\* A send on ctrlChan that is neither the start nor the end of a stream.
LEMMA CountingPush ==
    ASSUME TypeOK, Counting, NEW m \in State, m \notin {"TEST_END", "TEST_RUNNING"},
           Push("client", m), UNCHANGED <<ends, session, Running>>
    PROVE  Counting'
<1>1. /\ \A x : Queued("client", x)' <=> Queued("client", x) \/ x = m
      /\ Once("client", "TEST_RUNNING")'
  BY PushStep DEF Counting
<1>2. Cardinality(Uncounted') = Cardinality(Uncounted)
  <2>1. ctrlChan'["client"] = Append(ctrlChan["client"], m)
    BY DEF Push, TypeOK, CtrlType
  <2>2. QED
    BY <2>1, CountTypes, PlacesAppend DEF Uncounted
<1>3. QED
  BY <1>1, <1>2 DEF Counting

-----------------------------------------------------------------------------
\* The main goroutine takes the start, an end, or something else.
LEMMA CountingPops ==
    /\ TypeOK /\ Conversation /\ Counting
    /\ ClientStart \/ ClientContinue \/ ClientAllEnded
    => Counting'
<1> SUFFICES ASSUME TypeOK, Conversation, Counting,
                    ClientStart \/ ClientContinue \/ ClientAllEnded
             PROVE  Counting'
  OBVIOUS
<1> DEFINE m == Head(ctrlChan["client"])
<1>1. Pop("client") /\ UNCHANGED session
  BY DEF ClientStart, ClientContinue, ClientAllEnded, testVars
<1>2. /\ m \in State /\ Queued("client", m)
      /\ \A x : Queued("client", x)' => Queued("client", x)
      /\ Once("client", "TEST_RUNNING")'
      /\ m = "TEST_RUNNING" => ~Queued("client", "TEST_RUNNING")'
  BY <1>1, PopStep DEF Counting
<1>3. /\ Cardinality(Uncounted') <= Cardinality(Uncounted) - (IF m = "TEST_END" THEN 1 ELSE 0)
      /\ Cardinality(Uncounted') \in Nat
  <2>1. ctrlChan'["client"] = Tail(ctrlChan["client"]) /\ ctrlChan["client"] # <<>>
    BY <1>1 DEF Pop, CanPop, TypeOK, CtrlType
  <2>2. Tail(ctrlChan["client"]) \in Seq(State)
    BY <2>1, CountTypes
  <2>3. QED
    BY <2>1, <2>2, CountTypes, PlacesTail, PlacesFinite DEF Uncounted
<1>4. /\ ends \in Nat /\ Cardinality(Uncounted) \in Nat /\ Cardinality(Running) \in Nat
      /\ NumStreams \in Nat \ {0}
  BY CountTypes
<1> HIDE DEF m
<1>5. CASE ClientStart
  <2>1. m = "TEST_RUNNING" /\ UNCHANGED ends /\ StartStreams("client")
    BY <1>5 DEF ClientStart, ClientPops, Verdict, m, testVars
  <2>2. ends = 0 /\ Running = {} /\ ~Queued("client", "TEST_END")
    BY <1>2, <2>1 DEF Counting
  <2>3. \A e \in Running' : e[2] = session'
    BY <1>1, <2>1, <2>2 DEF StartStreams, Running, Streams
  <2>4. Uncounted' = {} /\ Cardinality(Uncounted') = 0
    BY <1>2, <2>2, FS_EmptySet DEF Uncounted, Places, Queued
  <2>5. Cardinality(Running') \in Nat /\ Cardinality(Running') <= NumStreams
    <3> DEFINE f == [e \in Running' |-> e[3]]
    <3>1. \A e \in Running' : e = <<"client", session, e[3]>> /\ e[3] \in Index
      BY <1>1, <2>3 DEF Running, End
    <3>2. f \in Injection(Running', Index)
      <4>1. f \in [Running' -> Index] /\ \A d, e \in Running' : f[d] = f[e] => d = e
        BY <3>1
      <4>2. QED
        BY <4>1 DEF Injection, IsInjective
    <3>3. IsFiniteSet(Index) /\ Cardinality(Index) = NumStreams
      BY FS_Interval DEF Index
    <3>4. QED
      BY <3>2, <3>3, FS_Injection, FS_CardinalityType
  <2>6. QED
    BY <1>2, <1>4, <2>1, <2>2, <2>3, <2>4, <2>5 DEF Counting
<1>6. CASE ClientContinue \/ ClientAllEnded
  <2>1. ends' = (IF m = "TEST_END" THEN ends + 1 ELSE ends) /\ UNCHANGED Running
    BY <1>6 DEF ClientContinue, ClientAllEnded, Counted, m, Running, dataVars
  <2>2. m = "TEST_END" => ~Queued("client", "TEST_RUNNING")
    BY <1>2 DEF Counting
  <2>3. ends < NumStreams /\ m = "TEST_END" /\ ends + 1 = NumStreams => Running = {}
    <3>1. ends < NumStreams /\ m = "TEST_END" /\ ends + 1 = NumStreams => Cardinality(Running) = 0
      BY <1>3, <1>4 DEF Counting
    <3>2. QED
      BY <3>1, RunningFinite, FS_EmptySet
  <2>4. QED
    BY <1>1, <1>2, <1>3, <1>4, <2>1, <2>2, <2>3 DEF Counting
<1>7. QED
  BY <1>5, <1>6

\* The rest of the main goroutine queues TEST_END itself, after the last end.
LEMMA CountingMain == TypeOK /\ Conversation /\ Counting /\ ClientMain => Counting'
<1> SUFFICES ASSUME TypeOK, Conversation, Counting, ClientMain PROVE Counting'
  OBVIOUS
<1>1. CASE ClientStart \/ ClientContinue \/ ClientAllEnded
  BY <1>1, CountingPops
<1>2. CASE ClientSendsEnd \/ ClientEndWritten
  BY <1>2, CountingStays
     DEF ClientSendsEnd, ClientEndWritten, CountView, Running, dataVars, testVars
<1>3. CASE SendPush("cMain")
  <2>1. /\ pc["cMain"] = "push" /\ Push("client", "TEST_END")
        /\ UNCHANGED <<ends, session, Running>>
    BY <1>3 DEF SendPush, Conversation, ClientPart, CMain, Running, dataVars, testVars
  <2>2. ends >= NumStreams /\ ends \in Nat /\ NumStreams \in Nat
    BY <2>1, CountTypes DEF Conversation, ClientPart, CMain, Telling
  <2>3. /\ \A x : Queued("client", x)' <=> Queued("client", x) \/ x = "TEST_END"
        /\ Once("client", "TEST_RUNNING")'
    BY <2>1, PushStep DEF State, Counting
  <2>4. QED
    BY <2>1, <2>2, <2>3 DEF Counting
<1>4. CASE ClientEndNotWritten \/ ClientExit
  BY <1>4, CountingGone DEF ClientEndNotWritten, ClientExit, Exit
<1>5. QED
  BY <1>1, <1>2, <1>3, <1>4 DEF ClientMain

\* The handler queues the start once, before any stream has run.
LEMMA CountingCtrl == TypeOK /\ Conversation /\ Counting /\ ClientCtrl => Counting'
<1> SUFFICES ASSUME TypeOK, Conversation, Counting, ClientCtrl PROVE Counting'
  OBVIOUS
<1>1. CASE \/ ClientReads \/ ClientReadFails \/ ClientSendParams \/ ClientSendResults
           \/ ClientGetResults \/ ClientResultsFail \/ ClientConnects
           \/ ClientConnectRefused \/ ClientInits \/ ClientClosesStreams
           \/ ClientSendsDone \/ ClientClosesCtrl
  <2>1. UNCHANGED <<ctrlChan, ends, strm, session>>
    BY <1>1
       DEF ClientReads, ClientReadFails, ClientSendParams, ClientSendResults, ClientGetResults,
           ClientResultsFail, ClientConnects, ClientConnectRefused, ClientInits,
           ClientClosesStreams, ClientSendsDone, ClientClosesCtrl, ClientSends, dataVars, testVars
  <2>2. QED
    BY <2>1, CountingStays DEF CountView, Running
<1>2. CASE ClientPushesRunning
  <2>1. /\ Push("client", "TEST_RUNNING") /\ UNCHANGED <<ends, session, Running>>
        /\ pc["cCtrl"] = "pushRunning"
    BY <1>2 DEF ClientPushesRunning, Running, dataVars, testVars
  <2>2. /\ ends = 0 /\ Running = {} /\ ~Queued("client", "TEST_RUNNING")
        /\ ~Queued("client", "TEST_END")
    BY <2>1 DEF Conversation, ClientPart, Before, CCtrl, NotRunning
  <2>3. /\ \A x : Queued("client", x)' <=> Queued("client", x) \/ x = "TEST_RUNNING"
        /\ Once("client", "TEST_RUNNING")'
    BY <2>1, <2>2, PushStep DEF State
  <2>4. Uncounted' = {} /\ Cardinality(Uncounted') = 0 /\ Cardinality(Running') = 0
    <3>1. Uncounted' = {}
      BY <2>2, <2>3 DEF Uncounted, Places, Queued
    <3>2. QED
      BY <2>1, <2>2, <3>1, FS_EmptySet
  <2>5. QED
    BY <2>1, <2>2, <2>3, <2>4 DEF Counting
<1>3. CASE SendPush("cCtrl")
  <2>1. Push("client", "IPERF_DONE") /\ UNCHANGED <<ends, session, Running>>
    BY <1>3 DEF SendPush, Conversation, ClientPart, CCtrl, Running, dataVars, testVars
  <2>2. QED
    BY <2>1, CountingPush DEF State
<1>4. CASE ClientPushesDone
  <2>1. Push("client", "IPERF_DONE") /\ UNCHANGED <<ends, session, Running>>
    BY <1>4 DEF ClientPushesDone, Running, dataVars, testVars
  <2>2. QED
    BY <2>1, CountingPush DEF State
<1>5. CASE ClientReports
  <2>1. Gone("client") \/ UNCHANGED <<ctrlChan, ends, strm, session>>
    BY <1>5 DEF ClientReports, Panic, dataVars, testVars
  <2>2. QED
    BY <2>1, CountingGone, CountingStays DEF CountView, Running
<1>6. QED
  BY <1>1, <1>2, <1>3, <1>4, <1>5 DEF ClientCtrl

\* The server leaves the client's streams and its queue alone.
LEMMA CountingServer ==
    TypeOK /\ Conversation /\ Counting /\ (ServerMain \/ ServerCtrl) => Counting'
<1> SUFFICES ASSUME TypeOK, Conversation, Counting, ServerMain \/ ServerCtrl, ~Gone("server")
             PROVE  Counting'
  BY CountingGone
<1>1. UNCHANGED ClientView
  BY ServerLocal
<1>2. UNCHANGED session
  BY DEF ServerMain, ServerResets, ServerGetsParams, ServerParamsFail, ServerListens,
         ServerListenFails, ServerPops, ServerAccepts, ServerInits, SendPush, ServerWritten,
         ServerNotWritten, ServerCtrlDone, ServerCtrl, ServerReadsEnd, ServerReadsOther,
         ServerClosesStreams, ServerGetsResults, ServerSendsResults, ServerReports,
         ServerHandlerFails, ServerHandlerReturns, Panic, testVars
<1>3. QED
  BY <1>1, <1>2, CountingStays DEF ClientView, CountView

\* A stream goroutine of the client that ends moves from the running to the
\* queued, or is lost to the count.
LEMMA CountingStream == \A e \in End : TypeOK /\ Counting /\ Stream(e) => Counting'
<1> SUFFICES ASSUME NEW e \in End, TypeOK, Counting, Stream(e) PROVE Counting'
  OBVIOUS
<1> USE DEF Stream, StreamSends, StreamReceives, StreamFails, StreamEnds, Turn, Quit
<1>1. /\ e[1] \in Side /\ strm[e] # "none" /\ UNCHANGED <<ends, session>>
      /\ \A d \in End : d # e => strm'[d] = strm[d]
  BY DEF End, testVars, TypeOK, DataType
<1>2. \/ strm'[e] # "none" /\ UNCHANGED ctrlChan
      \/ strm'[e] = "none" /\ UNCHANGED ctrlChan
      \/ strm'[e] = "none" /\ Push(e[1], "TEST_END")
  BY DEF ctrlVars, AfterTurn, AfterPush, TypeOK, DataType
<1>3. CASE e[1] = "server"
  <2>1. UNCHANGED Running /\ UNCHANGED ctrlChan["client"]
    BY <1>1, <1>2, <1>3 DEF Running, Push, TypeOK, CtrlType
  <2>2. QED
    BY <1>1, <2>1, CountingStays DEF CountView
<1>4. CASE e[1] = "client" /\ strm'[e] # "none" /\ UNCHANGED ctrlChan
  <2>1. UNCHANGED Running
    BY <1>1, <1>4 DEF Running
  <2>2. QED
    BY <1>1, <1>4, <2>1, CountingStays DEF CountView
<1>5. CASE e[1] = "client" /\ strm'[e] = "none"
  <2>1. e \in Running /\ Running' = Running \ {e}
    BY <1>1, <1>5 DEF Running
  <2>2. ends < NumStreams /\ ~Queued("client", "TEST_RUNNING")
    BY <2>1, CountTypes DEF Counting
  <2>3. Cardinality(Running') = Cardinality(Running) - 1 /\ Cardinality(Running) \in Nat
    BY <2>1, RunningFinite, FS_RemoveElement
  <2>4. CASE UNCHANGED ctrlChan
    BY <1>1, <2>1, <2>2, <2>3, <2>4, CountTypes DEF Counting, Queued, Once, Uncounted
  <2>5. CASE Push("client", "TEST_END")
    <3>1. /\ \A x : Queued("client", x)' <=> Queued("client", x) \/ x = "TEST_END"
          /\ Once("client", "TEST_RUNNING")'
      BY <2>5, PushStep DEF State, Counting
    <3>2. Cardinality(Uncounted') = Cardinality(Uncounted) + 1
      <4>1. ctrlChan'["client"] = Append(ctrlChan["client"], "TEST_END")
        BY <2>5 DEF Push, TypeOK, CtrlType
      <4>2. "TEST_END" \in State
        BY DEF State
      <4>3. QED
        BY <4>1, <4>2, CountTypes, PlacesAppend DEF Uncounted
    <3>3. QED
      BY <1>1, <2>1, <2>2, <2>3, <3>1, <3>2, CountTypes DEF Counting
  <2>6. QED
    BY <1>2, <1>5, <2>4, <2>5
<1>6. QED
  BY <1>1, <1>2, <1>3, <1>4, <1>5

-----------------------------------------------------------------------------
LEMMA CountingInit == Init => Counting
<1> SUFFICES ASSUME Init PROVE Counting
  OBVIOUS
<1>1. Running = {} /\ ctrlChan["client"] = <<>> /\ ends = 0
  BY DEF Init, Running
<1>2. Uncounted = {} /\ Cardinality(Uncounted) = 0 /\ Cardinality(Running) = 0
  <2>1. Len(ctrlChan["client"]) = 0
    BY <1>1
  <2>2. Uncounted = {}
    BY <2>1 DEF Uncounted, Places
  <2>3. QED
    BY <1>1, <2>2, FS_EmptySet
<1>3. QED
  BY <1>1, <1>2 DEF Counting, Queued, Once

LEMMA CountingConnect == TypeOK /\ Conversation /\ Connect => Counting'
<1> SUFFICES ASSUME TypeOK, Conversation, Connect PROVE Counting'
  OBVIOUS
<1>1. Running' = {} /\ ctrlChan'["client"] = <<>> /\ ends' = 0
  BY DEF Connect, Conversation, ClientPart, CMain, Running
<1>2. Uncounted' = {} /\ Cardinality(Uncounted') = 0 /\ Cardinality(Running') = 0
  <2>1. Len(ctrlChan'["client"]) = 0
    BY <1>1
  <2>2. Uncounted' = {}
    BY <2>1 DEF Uncounted, Places
  <2>3. QED
    BY <1>1, <2>2, FS_EmptySet
<1>3. QED
  BY <1>1, <1>2 DEF Counting, Queued, Once

LEMMA CountingNext == TypeOK /\ Conversation /\ Counting /\ [Next]_vars => Counting'
<1> SUFFICES ASSUME TypeOK, Conversation, Counting, [Next]_vars PROVE Counting'
  OBVIOUS
<1>1. CASE Connect
  BY <1>1, CountingConnect
<1>2. CASE ClientMain \/ ClientCtrl \/ ServerMain \/ ServerCtrl
  BY <1>2, CountingMain, CountingCtrl, CountingServer
<1>3. CASE ClientCrash \/ ServerCrash
  BY <1>3, CountingGone DEF ClientCrash, ServerCrash, Exit
<1>4. ASSUME NEW n \in Session, ClientTimer(n) \/ ServerTimer(n) PROVE Counting'
  BY <1>4, CountingStays
     DEF ClientTimer, ServerTimer, CountView, Running, dataVars, testVars
<1>5. ASSUME NEW e \in End, Stream(e) PROVE Counting'
  BY <1>5, CountingStream
<1>6. ASSUME NEW t \in Ticker, TickerStep(t) PROVE Counting'
  <2>1. t[1] \in Side
    BY DEF Ticker
  <2>2. Gone(t[1]) \/ UNCHANGED CountView
    BY <1>6 DEF TickerStep, Tick, StatsTickEnds, ReportTickEnds, Panic, CountView, Running,
                ctrlVars, dataVars, testVars
  <2>3. QED
    BY <2>1, <2>2, CountingGone, CountingStays
<1>7. CASE Rest \/ UNCHANGED vars
  BY <1>7, CountingStays DEF Rest, vars, CountView, Running, ctrlVars, dataVars, testVars
<1>8. QED
  BY <1>1, <1>2, <1>3, <1>4, <1>5, <1>6, <1>7 DEF Next

-----------------------------------------------------------------------------
\* The count of the main goroutine is right: it never reaches the number of
\* streams while one of them runs, and none is started after that.
THEOREM EndsCounted == Spec => []Counting
  BY CountingInit, CountingNext, Converses, TypeCorrect, PTL DEF Spec

\* So the counters sendResults of the client reads are final: no stream goroutine
\* is left to change them, however the streams, the timer and the server's
\* messages interleave.
THEOREM FinalResults == Spec => []ResultsFinal
<1>1. Conversation /\ Counting => ResultsFinal
  <2> SUFFICES ASSUME Conversation, Counting, pc["cCtrl"] = "sendResults",
                      NEW e \in Streams("client")
               PROVE  strm[e] = "none"
    BY DEF ResultsFinal
  <2>1. ends >= NumStreams
    BY DEF Conversation, ClientPart, After, CCtrl
  <2>2. Running = {}
    BY <2>1 DEF Counting
  <2>3. QED
    BY <2>2 DEF Running, Streams
<1>2. QED
  BY <1>1, Converses, EndsCounted, PTL
-----------------------------------------------------------------------------
\* The course of the client, disturbed or not.

\* No token, no tick and no callback of the client.
Untimed ==
    /\ chStats["client"] = 0
    /\ \A t \in Ticker : t[1] = "client" => left[t] = 0 /\ t \notin busy

\* A token of the client, taken or about to be put, stands for results of every
\* stream: no report of the client indexes an empty slice.
Sampled ==
    /\ CMain = "exited" => Untimed
    /\ state["client"] \in {"ZERO", "IPERF_EXCHANGE_PARAMS", "IPERF_CREATE_STREAM"} => Untimed
    /\ \/ chStats["client"] > 0 \/ CMain = "stats"
       \/ \E t \in Ticker : t[1] = "client" /\ t[2] = "stats" /\ t \in busy
       => Streams("client") \subseteq sampled

\* Where the streams run and are counted, and where the connections are made.
Course ==
    /\ CMain = "stats" => state["client"] = "TEST_RUNNING"
    /\ CMain # "exited" /\ ~NotRunning /\ ends < NumStreams => state["client"] = "TEST_RUNNING"
    /\ CCtrl \in {"clientEnd", "report"} => state["client"] = "IPERF_DISPLAY_RESULT"
    /\ nstreams["client"] > 0 => state["client"] \notin {"ZERO", "IPERF_EXCHANGE_PARAMS"}

\* The main goroutine queues one TEST_END more than its streams, its own, which
\* it counts too: it never counts so far that it leaves.
LastEnd ==
    /\ CMain \in {"stats", "push"} => ends = NumStreams /\ ~Queued("client", "TEST_END")
    /\ ends > NumStreams => ~Queued("client", "TEST_END")
    /\ ends >= NumStreams => Once("client", "TEST_END")

-----------------------------------------------------------------------------
\* Course follows the client, and LastEnd its queue.
LEMMA CourseStays ==
    UNCHANGED <<ClientView, nstreams["client"]>> /\ Course /\ LastEnd => Course' /\ LastEnd'
  BY DEF ClientView, Course, LastEnd, CMain, CCtrl, NotRunning, Queued, Once

LEMMA CourseClientGone == TypeOK /\ Course /\ Gone("client") => Course' /\ LastEnd'
<1> SUFFICES ASSUME TypeOK, Course, Gone("client") PROVE Course' /\ LastEnd'
  OBVIOUS
<1>1. /\ CMain' = "exited" /\ CCtrl' = "exited" /\ ctrlChan'["client"] = <<>>
      /\ UNCHANGED <<state, nstreams>>
  BY DEF Gone, CMain, CCtrl, TypeOK, CtrlType
<1>2. Len(ctrlChan'["client"]) = 0
  BY <1>1
<1>3. QED
  BY <1>1, <1>2 DEF Course, LastEnd, Queued, Once

LEMMA CourseServerGone == TypeOK /\ Course /\ LastEnd /\ Gone("server") => Course' /\ LastEnd'
<1> SUFFICES ASSUME TypeOK, Course, LastEnd, Gone("server") PROVE Course' /\ LastEnd'
  OBVIOUS
<1>1. UNCHANGED <<ClientView, nstreams["client"]>>
  BY DEF Gone, CloseCtrl, ClientView, Running, End, TypeOK, CtrlType, NetType
<1>2. QED
  BY <1>1, CourseStays

\* Once the last end is counted none is left in the queue.
LEMMA LastPopped ==
    /\ TypeOK /\ Counting /\ Pop("client")
    /\ Head(ctrlChan["client"]) = "TEST_END" /\ ends + 1 = NumStreams
    => ~Queued("client", "TEST_END")'
<1> SUFFICES ASSUME TypeOK, Counting, Pop("client"), Head(ctrlChan["client"]) = "TEST_END",
                    ends + 1 = NumStreams
             PROVE  ~Queued("client", "TEST_END")'
  OBVIOUS
<1>1. ctrlChan'["client"] = Tail(ctrlChan["client"]) /\ ctrlChan["client"] # <<>>
  BY DEF Pop, CanPop, TypeOK, CtrlType
<1>2. Tail(ctrlChan["client"]) \in Seq(State)
  BY <1>1, CountTypes
<1>3. Cardinality(Uncounted') <= Cardinality(Uncounted) - 1 /\ Cardinality(Uncounted') \in Nat
      /\ IsFiniteSet(Uncounted')
  BY <1>1, <1>2, CountTypes, PlacesTail, PlacesFinite DEF Uncounted
<1>4. Cardinality(Uncounted') = 0
  BY <1>3, CountTypes DEF Counting
<1>5. Uncounted' = {}
  BY <1>3, <1>4, FS_EmptySet
<1>6. QED
  BY <1>5 DEF Uncounted, Places, Queued

LEMMA CoursePops ==
    /\ TypeOK /\ Conversation /\ Counting /\ Course /\ LastEnd
    /\ ClientStart \/ ClientContinue \/ ClientAllEnded
    => Course' /\ LastEnd'
<1> SUFFICES ASSUME TypeOK, Conversation, Counting, Course, LastEnd,
                    ClientStart \/ ClientContinue \/ ClientAllEnded
             PROVE  Course' /\ LastEnd'
  OBVIOUS
<1> DEFINE m == Head(ctrlChan["client"])
<1>1. /\ CMain = "loop" /\ Pop("client")
      /\ UNCHANGED <<state, nstreams, CCtrl>>
  BY DEF ClientStart, ClientContinue, ClientAllEnded, ClientPops, CMain, CCtrl, dataVars, TypeOK,
         CtrlType
<1>2. /\ Queued("client", m)
      /\ \A x : Queued("client", x)' => Queued("client", x)
      /\ \A x : Once("client", x) => Once("client", x)' /\ (x = m => ~Queued("client", x)')
  BY <1>1, PopStep
<1>3. /\ ends \in Nat /\ NumStreams \in Nat \ {0}
      /\ m = "TEST_END" /\ ends + 1 = NumStreams => ~Queued("client", "TEST_END")'
  BY <1>1, CountTypes, LastPopped
<1> HIDE DEF m
<1>4. CASE ClientStart
  <2>1. m = "TEST_RUNNING" /\ UNCHANGED <<pc, ends>>
    BY <1>4 DEF ClientStart, ClientPops, Verdict, m, testVars
  <2>2. ~NotRunning
    BY <1>2, <2>1 DEF NotRunning
  <2>3. QED
    BY <1>1, <1>2, <2>1, <2>2 DEF Course, LastEnd, CMain, CCtrl
<1>5. CASE ClientContinue
  <2>1. /\ UNCHANGED <<pc, strm>> /\ ends' = (IF m = "TEST_END" THEN ends + 1 ELSE ends)
        /\ ~(m = "TEST_END" /\ ends' = NumStreams)
    BY <1>5 DEF ClientContinue, ClientPops, Verdict, Counted, m, dataVars
  <2>2. NotRunning => NotRunning'
    BY <1>2, <2>1 DEF NotRunning, Running
  <2>3. Course'
    BY <1>1, <1>3, <2>1, <2>2 DEF Course, CMain, CCtrl
  <2>4. LastEnd'
    BY <1>1, <1>2, <1>3, <2>1 DEF LastEnd, CMain
  <2>5. QED
    BY <2>3, <2>4
<1>6. CASE ClientAllEnded
  <2>1. /\ m = "TEST_END" /\ ends + 1 = NumStreams /\ ends' = NumStreams /\ CMain' = "stats"
    BY <1>3, <1>6 DEF ClientAllEnded, ClientPops, Verdict, Counted, m, CMain, TypeOK, CtrlType
  <2>2. state["client"] = "TEST_RUNNING"
    <3>1. ~NotRunning /\ ends < NumStreams /\ CMain # "exited"
      BY <1>1, <1>2, <1>3, <2>1 DEF NotRunning
    <3>2. QED
      BY <3>1 DEF Course
  <2>3. Course'
    BY <1>1, <1>3, <2>1, <2>2 DEF Course
  <2>4. LastEnd'
    BY <1>3, <2>1 DEF LastEnd, Queued, Once
  <2>5. QED
    BY <2>3, <2>4
<1>7. QED
  BY <1>4, <1>5, <1>6

LEMMA CourseMain ==
    TypeOK /\ Conversation /\ Counting /\ Course /\ LastEnd /\ ClientMain => Course' /\ LastEnd'
<1> SUFFICES ASSUME TypeOK, Conversation, Counting, Course, LastEnd, ClientMain
             PROVE  Course' /\ LastEnd'
  OBVIOUS
<1> USE DEF TypeOK, CtrlType, CMain, CCtrl
<1>0. ends \in Nat /\ NumStreams \in Nat \ {0}
  BY CountTypes
<1>1. CASE ClientStart \/ ClientContinue \/ ClientAllEnded
  BY <1>1, CoursePops
<1>2. CASE ClientSendsEnd
  <2>1. /\ CMain = "stats" /\ CMain' = "push" /\ CCtrl' = CCtrl
        /\ state'["client"] = "TEST_END" /\ UNCHANGED <<ctrlChan, ends, nstreams>>
    BY <1>2 DEF ClientSendsEnd, dataVars, testVars
  <2>2. CCtrl \notin {"clientEnd", "report"} /\ ends >= NumStreams
    BY <1>0, <2>1 DEF Conversation, ClientPart, After, Telling
  <2>3. Course'
    BY <1>0, <2>1, <2>2 DEF Course
  <2>4. LastEnd'
    BY <2>1 DEF LastEnd, Queued, Once
  <2>5. QED
    BY <2>3, <2>4
<1>3. CASE SendPush("cMain")
  <2>1. /\ CMain = "push" /\ CMain' = "write" /\ CCtrl' = CCtrl /\ Push("client", "TEST_END")
        /\ UNCHANGED <<state, ends, nstreams>>
    BY <1>3 DEF SendPush, Conversation, ClientPart, dataVars, testVars
  <2>2. ends = NumStreams /\ ~Queued("client", "TEST_END")
    BY <2>1 DEF LastEnd
  <2>3. Once("client", "TEST_END")'
    BY <2>1, <2>2, PushStep DEF State
  <2>4. QED
    BY <1>0, <2>1, <2>2, <2>3 DEF Course, LastEnd
<1>4. CASE ClientEndWritten
  <2>1. /\ CMain = "write" /\ CMain' = "loop" /\ CCtrl' = CCtrl
        /\ UNCHANGED <<state, ends, nstreams, strm, ctrlChan>>
    BY <1>4 DEF ClientEndWritten, dataVars, testVars
  <2>2. QED
    BY <2>1 DEF Course, LastEnd, NotRunning, Running, Queued, Once
<1>5. CASE ClientEndNotWritten \/ ClientExit
  BY <1>5, CourseClientGone DEF ClientEndNotWritten, ClientExit, Exit
<1>6. QED
  BY <1>1, <1>2, <1>3, <1>4, <1>5 DEF ClientMain

\* The handler, which makes the connections and queues only its own states.
LEMMA CourseCtrl ==
    TypeOK /\ Conversation /\ Counting /\ Course /\ LastEnd /\ ClientCtrl => Course' /\ LastEnd'
<1> SUFFICES ASSUME TypeOK, Conversation, Counting, Course, LastEnd, ClientCtrl, ~Gone("client")
             PROVE  Course' /\ LastEnd'
  BY CourseClientGone
<1> USE DEF TypeOK, CtrlType, CMain, CCtrl
<1>0. ends \in Nat /\ NumStreams \in Nat \ {0} /\ nstreams["client"] \in Nat
  BY CountTypes DEF DataType
<1>1. CMain' = CMain /\ UNCHANGED <<ends, Running>>
  BY DEF ClientCtrl, ClientReads, ClientReadFails, ClientSendParams, ClientSendResults,
         ClientGetResults, ClientResultsFail, ClientConnects, ClientConnectRefused, ClientInits,
         ClientPushesRunning, ClientClosesStreams, ClientReports, SendPush, ClientSendsDone,
         ClientClosesCtrl, ClientPushesDone, ClientSends, Panic, Running, dataVars, testVars
<1>2. CASE ClientReads
  <2>1. UNCHANGED <<ctrlChan, nstreams>>
    BY <1>2 DEF ClientReads, dataVars
  <2>2. /\ state["client"] # "TEST_RUNNING" /\ CMain = "loop" /\ state'["client"] # "ZERO"
        /\ state'["client"] = "IPERF_EXCHANGE_PARAMS" => state["client"] = "ZERO"
        /\ CCtrl' \in {"clientEnd", "report"} => state'["client"] = "IPERF_DISPLAY_RESULT"
    BY <1>2, ClientReadsWord DEF ClientWord, ClientOn
  <2>3. QED
    BY <1>0, <1>1, <2>1, <2>2 DEF Course, LastEnd, NotRunning, Queued, Once
<1>3. CASE \/ ClientReadFails \/ ClientSendParams \/ ClientSendResults \/ ClientGetResults
           \/ ClientResultsFail \/ ClientConnectRefused \/ ClientInits \/ ClientClosesStreams
           \/ ClientSendsDone \/ ClientClosesCtrl
  <2>1. /\ UNCHANGED <<ctrlChan, state, nstreams>>
        /\ CCtrl' \in {"clientEnd", "report"} => CCtrl = "clientEnd"
    BY <1>3 DEF ClientReadFails, ClientSendParams, ClientSendResults, ClientGetResults,
                ClientResultsFail, ClientConnectRefused, ClientInits, ClientClosesStreams,
                ClientSendsDone, ClientClosesCtrl, ClientSends, CtrlTop, dataVars
  <2>2. QED
    BY <1>1, <2>1 DEF Course, LastEnd, NotRunning, Queued, Once
<1>4. CASE ClientConnects
  <2>1. /\ CCtrl = "connect" /\ CCtrl' \in {"connect", "read"} /\ UNCHANGED <<ctrlChan, state>>
        /\ state["client"] = "IPERF_CREATE_STREAM"
    BY <1>4 DEF ClientConnects, CtrlTop, Conversation, ClientPart
  <2>2. QED
    BY <1>1, <2>1 DEF Course, LastEnd, NotRunning, Queued, Once
<1>5. CASE ClientPushesRunning \/ SendPush("cCtrl") \/ ClientPushesDone
  <2>1. PICK m \in {"TEST_RUNNING", "IPERF_DONE"} :
          /\ Push("client", m) /\ UNCHANGED <<state, nstreams>>
          /\ CCtrl' \notin {"clientEnd", "report"}
          /\ m = "TEST_RUNNING" => state["client"] = "TEST_RUNNING"
    BY <1>5 DEF ClientPushesRunning, SendPush, ClientPushesDone, CtrlTop, Conversation, ClientPart,
                dataVars
  <2>2. /\ \A x : Queued("client", x)' <=> Queued("client", x) \/ x = m
        /\ Once("client", "TEST_END") => Once("client", "TEST_END")'
    BY <2>1, PushStep DEF State
  <2>3. Course'
    BY <1>1, <2>1, <2>2 DEF Course, NotRunning
  <2>4. LastEnd'
    BY <1>1, <2>2 DEF LastEnd
  <2>5. QED
    BY <2>3, <2>4
<1>6. CASE ClientReports
  <2>1. /\ CCtrl = "report" /\ CCtrl' = "push" /\ state'["client"] = "IPERF_DONE"
        /\ UNCHANGED <<ctrlChan, nstreams>>
    BY <1>6 DEF ClientReports, Panic, dataVars
  <2>2. CMain = "loop" /\ ends >= NumStreams
    BY <2>1 DEF Conversation, ClientPart, After
  <2>3. QED
    BY <1>0, <1>1, <2>1, <2>2 DEF Course, LastEnd, Queued, Once
<1>7. QED
  BY <1>2, <1>3, <1>4, <1>5, <1>6 DEF ClientCtrl

\* What the server does, and what goes on beside the control goroutines.
LEMMA ServerLeavesStreams ==
    (ServerMain \/ ServerCtrl) /\ TypeOK /\ ~Gone("server") =>
        UNCHANGED <<nstreams["client"], session, chStats["client"]>>
  BY DEF ServerMain, ServerResets, ServerGetsParams, ServerParamsFail, ServerListens,
         ServerListenFails, ServerPops, ServerAccepts, ServerInits, SendPush, ServerWritten,
         ServerNotWritten, ServerCtrlDone, ServerCtrl, ServerReadsEnd, ServerReadsOther,
         ServerClosesStreams, ServerGetsResults, ServerSendsResults, ServerReports,
         ServerHandlerFails, ServerHandlerReturns, Panic, PutToken, TakeToken, statVars, dataVars,
         testVars, TypeOK, DataType, StatType

LEMMA CourseServer ==
    TypeOK /\ Conversation /\ Course /\ LastEnd /\ (ServerMain \/ ServerCtrl)
        => Course' /\ LastEnd'
<1> SUFFICES ASSUME TypeOK, Conversation, Course, LastEnd, ServerMain \/ ServerCtrl, ~Gone("server")
             PROVE  Course' /\ LastEnd'
  BY CourseServerGone
<1>1. UNCHANGED <<ClientView, nstreams["client"]>>
  BY ServerLocal, ServerLeavesStreams
<1>2. QED
  BY <1>1, CourseStays

LEMMA CourseStream ==
    \A e \in End : TypeOK /\ Conversation /\ Counting /\ Course /\ LastEnd /\ Stream(e)
                       => Course' /\ LastEnd'
<1> SUFFICES ASSUME NEW e \in End, TypeOK, Conversation, Counting, Course, LastEnd, Stream(e)
             PROVE  Course' /\ LastEnd'
  OBVIOUS
<1> USE DEF Stream, StreamSends, StreamReceives, StreamFails, StreamEnds, Turn, Quit
<1>1. /\ e[1] \in Side /\ strm[e] # "none"
      /\ UNCHANGED <<pc, state, nstreams, ends>>
      /\ UNCHANGED ctrlChan \/ Push(e[1], "TEST_END")
      /\ \A d \in End : d # e => strm'[d] = strm[d]
  BY DEF End, ctrlVars, testVars, TypeOK, DataType
<1>2. CASE e[1] = "server"
  <2>1. UNCHANGED Running /\ UNCHANGED ctrlChan["client"]
    BY <1>1, <1>2 DEF Running, Push, TypeOK, CtrlType
  <2>2. QED
    BY <1>1, <2>1 DEF Course, LastEnd, CMain, CCtrl, NotRunning, Queued, Once
<1>3. CASE e[1] = "client"
  <2>1. e \in Running /\ ~NotRunning
    BY <1>1, <1>3 DEF Running, NotRunning
  <2>2. ends < NumStreams /\ ends \in Nat /\ NumStreams \in Nat
    BY <2>1, CountTypes DEF Counting
  <2>3. QED
    BY <1>1, <2>1, <2>2 DEF Course, LastEnd, CMain, CCtrl
<1>4. QED
  BY <1>1, <1>2, <1>3

LEMMA CourseNext ==
    TypeOK /\ Conversation /\ Counting /\ Course /\ LastEnd /\ [Next]_vars => Course' /\ LastEnd'
<1> SUFFICES ASSUME TypeOK, Conversation, Counting, Course, LastEnd, [Next]_vars
             PROVE  Course' /\ LastEnd'
  OBVIOUS
<1>1. CASE Connect
  <2>1. /\ CMain' = "loop" /\ CCtrl' = "read" /\ ends' = 0 /\ nstreams'["client"] = 0
        /\ ctrlChan'["client"] = <<>> /\ Running' = {} /\ NumStreams \in Nat \ {0}
    BY <1>1 DEF Connect, Conversation, ClientPart, CMain, CCtrl, Running, TypeOK, CtrlType, DataType
  <2>2. Len(ctrlChan'["client"]) = 0
    BY <2>1
  <2>3. QED
    BY <2>1, <2>2 DEF Course, LastEnd, NotRunning, Queued
<1>2. CASE ClientMain \/ ClientCtrl \/ ServerMain \/ ServerCtrl
  BY <1>2, CourseMain, CourseCtrl, CourseServer
<1>3. CASE ClientCrash \/ ServerCrash
  BY <1>3, CourseClientGone, CourseServerGone DEF ClientCrash, ServerCrash, Exit
<1>4. ASSUME NEW n \in Session, ClientTimer(n) \/ ServerTimer(n) PROVE Course' /\ LastEnd'
  BY <1>4, CourseStays
     DEF ClientTimer, ServerTimer, ClientView, Running, netVars, dataVars, testVars
<1>5. ASSUME NEW e \in End, Stream(e) PROVE Course' /\ LastEnd'
  BY <1>5, CourseStream
<1>6. ASSUME NEW t \in Ticker, TickerStep(t) PROVE Course' /\ LastEnd'
  <2>1. t[1] \in Side
    BY DEF Ticker
  <2>2. Gone(t[1]) \/ UNCHANGED <<ClientView, nstreams["client"]>>
    BY <1>6 DEF TickerStep, Tick, StatsTickEnds, ReportTickEnds, Panic, ClientView, Running,
                ctrlVars, netVars, dataVars, testVars
  <2>3. QED
    BY <2>1, <2>2, CourseStays, CourseClientGone, CourseServerGone
<1>7. CASE Rest \/ UNCHANGED vars
  BY <1>7, CourseStays
     DEF Rest, vars, ClientView, Running, ctrlVars, netVars, dataVars, testVars
<1>8. QED
  BY <1>1, <1>2, <1>3, <1>4, <1>5, <1>6, <1>7 DEF Next

LEMMA CourseInit == Init => Course /\ LastEnd
<1> SUFFICES ASSUME Init PROVE Course /\ LastEnd
  OBVIOUS
<1>1. CMain = "exited" /\ CCtrl = "exited" /\ ends = 0 /\ nstreams["client"] = 0
  BY DEF Init, CMain, CCtrl
<1>2. QED
  BY <1>1 DEF Course, LastEnd

-----------------------------------------------------------------------------
\* The tokens of the client.  A step that makes neither a token nor a stream.
TickerSame(t) == left'[t] = left[t] /\ (t \in busy' <=> t \in busy)

Early == {"ZERO", "IPERF_EXCHANGE_PARAMS", "IPERF_CREATE_STREAM"}

LEMMA SampledStays ==
    ASSUME Sampled, sampled \subseteq sampled',
           UNCHANGED <<session, nstreams["client"], chStats["client"]>>,
           \A t \in Ticker : t[1] = "client" => TickerSame(t),
           CMain' = "exited" => CMain = "exited",
           CMain' = "stats" => CMain = "stats",
           state'["client"] \in Early => state["client"] \in Early
    PROVE  Sampled'
<1>1. Streams("client")' = Streams("client")
  BY DEF Streams
<1>2. Untimed => Untimed'
  BY DEF Untimed, TickerSame
<1>3. QED
  BY <1>1, <1>2 DEF Sampled, TickerSame, Early

LEMMA SampledClientGone == TypeOK /\ Gone("client") => Sampled'
<1> SUFFICES ASSUME TypeOK, Gone("client") PROVE Sampled'
  OBVIOUS
<1>1. CMain' = "exited"
  BY DEF Gone, CMain, TypeOK, CtrlType
<1>2. /\ chStats'["client"] = 0
      /\ \A t \in Ticker : t[1] = "client" => left'[t] = 0 /\ t \notin busy'
  BY DEF Gone, TypeOK, StatType
<1>3. QED
  BY <1>1, <1>2 DEF Sampled, Untimed

LEMMA SampledServerGone == TypeOK /\ Sampled /\ Gone("server") => Sampled'
<1> SUFFICES ASSUME TypeOK, Sampled, Gone("server") PROVE Sampled'
  OBVIOUS
<1>1. /\ UNCHANGED <<state, sampled, session, nstreams, chStats["client"], pc["cMain"]>>
      /\ \A t \in Ticker : t[1] = "client" => TickerSame(t)
  BY DEF Gone, TickerSame, TypeOK, StatType, CtrlType
<1>2. QED
  BY <1>1, SampledStays DEF CMain

\* A report of the client, which finds a token, does not panic.
LEMMA ReportsSampled == Sampled /\ CanReport("client") => ~PrintPanics("client")
  BY DEF Sampled, CanReport, PrintPanics

LEMMA SampledMain == TypeOK /\ Conversation /\ Sampled /\ ClientMain => Sampled'
<1> SUFFICES ASSUME TypeOK, Conversation, Sampled, ClientMain PROVE Sampled'
  OBVIOUS
<1> USE DEF TypeOK, CtrlType, StatType, CMain, CCtrl
<1>1. CASE ClientStart \/ ClientContinue \/ SendPush("cMain") \/ ClientEndWritten
  <2>1. /\ UNCHANGED <<state, sampled, session, nstreams, chStats, left, busy>>
        /\ CMain' \in {CMain, "write", "loop"}
    BY <1>1 DEF ClientStart, ClientContinue, SendPush, ClientEndWritten, statVars, dataVars,
                timeVars, testVars
  <2>2. QED
    BY <2>1, SampledStays DEF TickerSame
<1>2. CASE ClientAllEnded
  <2>1. /\ UNCHANGED <<state, session, nstreams, chStats, left, busy>>
        /\ CMain = "loop" /\ CMain' = "stats" /\ sampled' = sampled \cup Streams("client")
    BY <1>2 DEF ClientAllEnded, ClientPops, Sample, dataVars, timeVars
  <2>2. Streams("client")' = Streams("client") /\ (Untimed => Untimed')
    BY <2>1 DEF Streams, Untimed
  <2>3. QED
    BY <2>1, <2>2 DEF Sampled
<1>3. CASE ClientSendsEnd
  <2>1. /\ UNCHANGED <<sampled, session, nstreams, left, busy>>
        /\ CMain = "stats" /\ CMain' = "push" /\ state'["client"] = "TEST_END"
    BY <1>3 DEF ClientSendsEnd, dataVars, timeVars, testVars
  <2>2. Streams("client")' = Streams("client") /\ Streams("client") \subseteq sampled'
    BY <2>1 DEF Streams, Sampled
  <2>3. QED
    BY <2>1, <2>2 DEF Sampled
<1>4. CASE ClientEndNotWritten \/ ClientExit
  BY <1>4, SampledClientGone DEF ClientEndNotWritten, ClientExit, Exit
<1>5. QED
  BY <1>1, <1>2, <1>3, <1>4 DEF ClientMain

LEMMA SampledCtrl == TypeOK /\ Conversation /\ Sampled /\ ClientCtrl => Sampled'
<1> SUFFICES ASSUME TypeOK, Conversation, Sampled, ClientCtrl, ~Gone("client") PROVE Sampled'
  BY SampledClientGone
<1> USE DEF TypeOK, CtrlType, StatType, CMain, CCtrl
<1>1. CMain' = CMain /\ UNCHANGED session
  BY DEF ClientCtrl, ClientReads, ClientReadFails, ClientSendParams, ClientSendResults,
         ClientGetResults, ClientResultsFail, ClientConnects, ClientConnectRefused, ClientInits,
         ClientPushesRunning, ClientClosesStreams, ClientReports, SendPush, ClientSendsDone,
         ClientClosesCtrl, ClientPushesDone, ClientSends, Panic, testVars
<1>2. CASE ClientReads
  <2>1. UNCHANGED <<sampled, nstreams, chStats, left, busy>>
    BY <1>2 DEF ClientReads, statVars, dataVars, timeVars
  <2>2. state'["client"] \in Early => state["client"] \in Early
    BY <1>2, ClientReadsWord DEF ClientWord, Early
  <2>3. QED
    BY <1>1, <2>1, <2>2, SampledStays DEF TickerSame
<1>3. CASE \/ ClientReadFails \/ ClientSendParams \/ ClientSendResults \/ ClientGetResults
           \/ ClientResultsFail \/ ClientConnectRefused \/ ClientClosesStreams
           \/ ClientSendsDone \/ ClientClosesCtrl \/ ClientPushesRunning \/ SendPush("cCtrl")
           \/ ClientPushesDone
  <2>1. UNCHANGED <<state, sampled, nstreams, chStats, left, busy>>
    BY <1>3 DEF ClientReadFails, ClientSendParams, ClientSendResults, ClientGetResults,
                ClientResultsFail, ClientConnectRefused, ClientClosesStreams, ClientSendsDone,
                ClientClosesCtrl, ClientPushesRunning, SendPush, ClientPushesDone, ClientSends,
                statVars, dataVars, timeVars
  <2>2. QED
    BY <1>1, <2>1, SampledStays DEF TickerSame
<1>4. CASE ClientConnects
  <2>1. /\ CCtrl = "connect" /\ UNCHANGED <<state, sampled, chStats, left, busy>>
        /\ state["client"] = "IPERF_CREATE_STREAM" /\ CMain = "loop"
    BY <1>4 DEF ClientConnects, statVars, timeVars, Conversation, ClientPart, Before
  <2>2. Untimed /\ Untimed'
    BY <2>1 DEF Sampled, Untimed
  <2>3. QED
    BY <1>1, <2>1, <2>2 DEF Sampled, Untimed
<1>5. CASE ClientInits
  <2>1. /\ CCtrl = "init" /\ UNCHANGED <<state, sampled, nstreams, chStats, busy>>
        /\ state["client"] = "TEST_START" /\ CMain = "loop"
    BY <1>5 DEF ClientInits, CreateTimer, statVars, dataVars, Conversation, ClientPart, Before
  <2>2. Streams("client")' = Streams("client")
    BY <1>1, <2>1 DEF Streams
  <2>3. QED
    BY <1>1, <2>1, <2>2 DEF Sampled
<1>6. CASE ClientReports
  <2>1. /\ UNCHANGED <<sampled, nstreams, left, busy, session>> /\ CanReport("client")
        /\ state'["client"] = "IPERF_DONE" /\ CCtrl = "report"
    BY <1>6 DEF ClientReports, Panic, dataVars, timeVars, testVars
  <2>2. Streams("client")' = Streams("client") /\ Streams("client") \subseteq sampled'
    BY <2>1 DEF Streams, Sampled, CanReport
  <2>3. CMain' = "loop"
    BY <1>1, <2>1 DEF Conversation, ClientPart, After
  <2>4. QED
    BY <2>1, <2>2, <2>3 DEF Sampled
<1>7. QED
  BY <1>2, <1>3, <1>4, <1>5, <1>6 DEF ClientCtrl

LEMMA SampledServer ==
    TypeOK /\ Conversation /\ Sampled /\ (ServerMain \/ ServerCtrl) => Sampled'
<1> SUFFICES ASSUME TypeOK, Conversation, Sampled, ServerMain \/ ServerCtrl, ~Gone("server")
             PROVE  Sampled'
  BY SampledServerGone
<1>1. UNCHANGED ClientView /\ UNCHANGED <<nstreams["client"], session, chStats["client"]>>
  BY ServerLocal, ServerLeavesStreams
<1>2. /\ sampled \subseteq sampled' /\ UNCHANGED busy
      /\ \A t \in Ticker : t[1] = "client" => left'[t] = left[t]
  BY DEF ServerMain, ServerResets, ServerGetsParams, ServerParamsFail, ServerListens,
         ServerListenFails, ServerPops, ServerAccepts, ServerInits, SendPush, ServerWritten,
         ServerNotWritten, ServerCtrlDone, ServerCtrl, ServerReadsEnd, ServerReadsOther,
         ServerClosesStreams, ServerGetsResults, ServerSendsResults, ServerReports,
         ServerHandlerFails, ServerHandlerReturns, Panic, CreateTimer, Sample, statVars, timeVars,
         TypeOK, TimeType
<1>3. QED
  BY <1>1, <1>2, SampledStays DEF ClientView, TickerSame, CMain

LEMMA SampledTicker == \A t \in Ticker : TypeOK /\ Sampled /\ TickerStep(t) => Sampled'
<1> SUFFICES ASSUME NEW t \in Ticker, TypeOK, Sampled, TickerStep(t),
                    ~Gone("client"), ~Gone("server")
             PROVE  Sampled'
  BY SampledClientGone, SampledServerGone DEF Ticker
<1> USE DEF TypeOK, CtrlType, StatType, TimeType, CMain
<1>1. t[1] \in Side /\ ~Gone(t[1])
  BY DEF Ticker
<1>2. /\ UNCHANGED <<pc, state, session, nstreams>> /\ sampled \subseteq sampled'
      /\ Streams("client")' = Streams("client")
  BY <1>1 DEF TickerStep, Tick, StatsTickEnds, ReportTickEnds, Panic, Sample, ctrlVars, dataVars,
              testVars, Streams
<1>3. CASE t[1] = "server"
  <2>1. /\ UNCHANGED chStats["client"]
        /\ \A u \in Ticker : u[1] = "client" => TickerSame(u)
    BY <1>1, <1>3 DEF TickerStep, Tick, StatsTickEnds, ReportTickEnds, Panic, PutToken, TakeToken,
                      TickerSame
  <2>2. QED
    BY <1>2, <2>1, SampledStays
<1>4. CASE t[1] = "client"
  <2>1. ~Untimed
    BY <1>4 DEF TickerStep, Tick, StatsTickEnds, ReportTickEnds, Untimed
  <2>2. CMain # "exited" /\ state["client"] \notin Early
    BY <2>1 DEF Sampled, Early
  <2>3. \/ Streams("client") \subseteq sampled'
        \/ /\ chStats'["client"] > 0 => chStats["client"] > 0
           /\ \A u \in Ticker : u[2] = "stats" /\ u \in busy' => u \in busy
    <3>1. CASE Tick(t)
      BY <1>4, <3>1 DEF Tick, Sample
    <3>2. CASE StatsTickEnds(t)
      BY <1>2, <1>4, <3>2 DEF StatsTickEnds, Sampled
    <3>3. CASE ReportTickEnds(t)
      BY <1>1, <1>4, <3>3 DEF ReportTickEnds, Panic, TakeToken, CanReport
    <3>4. QED
      BY <3>1, <3>2, <3>3 DEF TickerStep
  <2>4. QED
    BY <1>2, <2>2, <2>3 DEF Sampled, Early
<1>5. QED
  BY <1>1, <1>3, <1>4

LEMMA SampledNext == TypeOK /\ Conversation /\ Sampled /\ [Next]_vars => Sampled'
<1> SUFFICES ASSUME TypeOK, Conversation, Sampled, [Next]_vars PROVE Sampled'
  OBVIOUS
<1>1. CASE Connect
  <2>1. /\ CMain = "exited" /\ CMain' = "loop" /\ UNCHANGED <<chStats, left, busy>>
    BY <1>1 DEF Connect, CMain, TypeOK, CtrlType, statVars, timeVars
  <2>2. Untimed /\ Untimed'
    BY <2>1 DEF Sampled, Untimed
  <2>3. QED
    BY <2>1, <2>2 DEF Sampled, Untimed
<1>2. CASE ClientMain \/ ClientCtrl \/ ServerMain \/ ServerCtrl
  BY <1>2, SampledMain, SampledCtrl, SampledServer
<1>3. CASE ClientCrash \/ ServerCrash
  BY <1>3, SampledClientGone, SampledServerGone DEF ClientCrash, ServerCrash, Exit
<1>4. ASSUME NEW n \in Session, ClientTimer(n) \/ ServerTimer(n) PROVE Sampled'
  BY <1>4, SampledStays
     DEF ClientTimer, ServerTimer, CMain, TickerSame, statVars, testVars, dataVars
<1>5. ASSUME NEW e \in End, Stream(e) PROVE Sampled'
  BY <1>5, SampledStays
     DEF Stream, StreamSends, StreamReceives, StreamFails, StreamEnds, Turn, Quit, CMain,
         TickerSame, ctrlVars, statVars, timeVars, testVars
<1>6. ASSUME NEW t \in Ticker, TickerStep(t) PROVE Sampled'
  BY <1>6, SampledTicker
<1>7. CASE Rest \/ UNCHANGED vars
  BY <1>7, SampledStays
     DEF Rest, vars, CMain, TickerSame, ctrlVars, statVars, dataVars, timeVars, testVars
<1>8. QED
  BY <1>1, <1>2, <1>3, <1>4, <1>5, <1>6, <1>7 DEF Next

LEMMA SampledInit == Init => Sampled
  BY DEF Init, Sampled, Untimed, CMain


\* No report of the client has ended its process.
ClientUnharmed == "client" \notin panicked

\* So no report of the client indexes an empty slice of interval results, whatever
\* dies, is refused or is late, and however the ticks and the last report race.
THEOREM ClientReportsSafely == Spec => []ClientUnharmed
<1>1. Init => ClientUnharmed
  BY DEF Init, ClientUnharmed
<1>2. TypeOK /\ Sampled /\ [Next]_vars /\ ClientUnharmed => ClientUnharmed'
  <2> SUFFICES ASSUME TypeOK, Sampled, [Next]_vars, "client" \notin panicked
               PROVE  "client" \notin panicked'
    BY DEF ClientUnharmed
  <2> USE DEF testVars, Exit, Panic
  <2>1. CASE ClientMain \/ ServerMain
    BY <2>1 DEF ClientMain, ClientStart, ClientContinue, ClientAllEnded, ClientSendsEnd, SendPush,
                ClientEndWritten, ClientEndNotWritten, ClientExit, ServerMain, ServerResets,
                ServerGetsParams, ServerParamsFail, ServerListens, ServerListenFails, ServerPops,
                ServerAccepts, ServerInits, ServerWritten, ServerNotWritten, ServerCtrlDone
  <2>2. CASE ClientCtrl
    BY <2>2, ReportsSampled
       DEF ClientCtrl, ClientReads, ClientReadFails, ClientSendParams, ClientSendResults,
           ClientGetResults, ClientResultsFail, ClientConnects, ClientConnectRefused, ClientInits,
           ClientPushesRunning, ClientClosesStreams, ClientReports, SendPush, ClientSendsDone,
           ClientClosesCtrl, ClientPushesDone, ClientSends
  <2>3. CASE ServerCtrl
    BY <2>3 DEF ServerCtrl, ServerReadsEnd, ServerReadsOther, ServerClosesStreams,
                ServerGetsResults, ServerSendsResults, ServerReports, SendPush, ServerWritten,
                ServerNotWritten, ServerHandlerFails, ServerHandlerReturns
  <2>4. ASSUME NEW t \in Ticker, TickerStep(t) PROVE "client" \notin panicked'
    BY <2>4, ReportsSampled DEF TickerStep, Tick, StatsTickEnds, ReportTickEnds, Ticker
  <2>5. CASE \/ \E n \in Session : ClientTimer(n) \/ ServerTimer(n)
             \/ \E e \in End : Stream(e)
    BY <2>5 DEF ClientTimer, ServerTimer, Stream, StreamSends, StreamReceives, StreamFails,
                StreamEnds, Turn, Quit
  <2>6. CASE Connect \/ ClientCrash \/ ServerCrash \/ Rest \/ UNCHANGED vars
    BY <2>6 DEF Connect, ClientCrash, ServerCrash, Rest, vars
  <2>7. QED
    BY <2>1, <2>2, <2>3, <2>4, <2>5, <2>6 DEF Next
<1>3. QED
  BY <1>1, <1>2, SampledInit, SampledNext, TypeCorrect, Converses, PTL DEF Spec


\* What the client does leaves the server and its port alone.
LEMMA ClientLeavesServer ==
    TypeOK /\ (ClientMain \/ ClientCtrl) => UNCHANGED ServerView /\ UNCHANGED protoOpen
<1> SUFFICES ASSUME TypeOK, ClientMain \/ ClientCtrl
             PROVE  UNCHANGED ServerView /\ UNCHANGED protoOpen
  OBVIOUS
<1> USE DEF TypeOK, CtrlType, NetType, TestType, ServerView, ctrlVars, netVars, testVars
<1>1. Gone("client") => UNCHANGED ServerView /\ UNCHANGED protoOpen
  BY DEF Gone, CloseCtrl
<1>2. ClientMain /\ ~Gone("client") => UNCHANGED ServerView /\ UNCHANGED protoOpen
  BY DEF ClientMain, ClientStart, ClientContinue, ClientAllEnded, ClientSendsEnd, SendPush,
         ClientEndWritten, ClientEndNotWritten, ClientExit, Exit, Push, Pop
<1>3. ClientCtrl /\ ~Gone("client") => UNCHANGED ServerView /\ UNCHANGED protoOpen
  BY DEF ClientCtrl, ClientReads, ClientReadFails, ClientSendParams, ClientSendResults,
         ClientGetResults, ClientResultsFail, ClientConnects, ClientConnectRefused, ClientInits,
         ClientPushesRunning, ClientClosesStreams, ClientReports, SendPush, ClientSendsDone,
         ClientClosesCtrl, ClientPushesDone, ClientSends, Panic, Push, CloseCtrl
<1>4. QED
  BY <1>1, <1>2, <1>3

-----------------------------------------------------------------------------
\* The room in ctrlChan for the goroutine that empties it.  The server's stream
\* goroutines, which outlive a session that was cut short, and the queue they put
\* their TEST_END in.
ServerStreams == {e \in End : e[1] = "server" /\ strm[e] # "none"}
ServerQueue == ctrlChan["server"]
Load == Len(ServerQueue) + Cardinality(ServerStreams)

\* The main goroutine has put its own states there, and has not taken them out.
Starting ==
    \/ SMain \in {"push", "getParams", "listen", "acceptStreams", "init"}
    \/ SMain = "write" /\ arg["sMain"] \notin {"IPERF_CREATE_STREAM", "TEST_RUNNING"}
CreateQueued == Creating \/ (SMain = "write" /\ arg["sMain"] = "IPERF_CREATE_STREAM")
OwnStates ==
    IF \/ SMain = "acceptStreams"
       \/ SMain = "push" /\ arg["sMain"] \in {"IPERF_EXCHANGE_PARAMS", "TEST_START"}
      THEN 0 ELSE 1
ParamsQueued ==
    \/ SMain = "write" /\ arg["sMain"] = "IPERF_EXCHANGE_PARAMS"
    \/ SMain \in {"getParams", "listen"}
    \/ SMain = "push" /\ arg["sMain"] = "IPERF_CREATE_STREAM"

\* From accept until it starts the streams of a session, what earlier sessions left
\* running or left in the queue is no more than their streams.  On top of it come
\* the states the main goroutine put there itself, which it takes out up to
\* IPERF_CREATE_STREAM before it puts the next.
Room ==
    /\ \A e \in ServerStreams : e[2] <= session
    /\ SMain = "accept" => Load <= NumStreams * session
    /\ Starting => Load <= NumStreams * (session - 1) + OwnStates
    /\ ParamsQueued => Len(ServerQueue) >= 1
    /\ CreateQueued =>
           \A i \in 1..Len(ServerQueue) : ServerQueue[i] = "IPERF_CREATE_STREAM" =>
               Len(ServerQueue) - i + Cardinality(ServerStreams) <= NumStreams * (session - 1)
    /\ Starting \/ CreateQueued \/ SMain = "accept" => ~Queued("server", "TEST_RUNNING")

RoomView == <<SMain, arg["sMain"], ctrlChan["server"], ServerStreams, session>>

LEMMA RoomStays == Room /\ UNCHANGED RoomView => Room'
  BY DEF Room, RoomView, Load, ServerQueue, Starting, CreateQueued, OwnStates, ParamsQueued,
         Creating, Queued

\* Of each session there is at most one goroutine per stream.
LEMMA ServerStreamsBound ==
    TypeOK /\ Room => /\ IsFiniteSet(ServerStreams) /\ Cardinality(ServerStreams) \in Nat
                      /\ Cardinality(ServerStreams) <= NumStreams * session
<1> SUFFICES ASSUME TypeOK, Room
             PROVE  /\ IsFiniteSet(ServerStreams) /\ Cardinality(ServerStreams) \in Nat
                    /\ Cardinality(ServerStreams) <= NumStreams * session
  OBVIOUS
<1> DEFINE P == (1..session) \X Index
           f == [e \in ServerStreams |-> <<e[2], e[3]>>]
<1>1. session \in Nat
  BY DEF TypeOK, TestType
<1>2. /\ IsFiniteSet(1..session) /\ Cardinality(1..session) = session
      /\ IsFiniteSet(Index) /\ Cardinality(Index) = NumStreams
  BY <1>1, FS_Interval DEF Index
<1>3. IsFiniteSet(P) /\ Cardinality(P) = session * NumStreams
  BY <1>2, FS_Product
<1>4. f \in Injection(ServerStreams, P)
  <2>1. \A e \in ServerStreams :
            e = <<"server", e[2], e[3]>> /\ e[2] \in 1..session /\ e[3] \in Index
    BY <1>1 DEF ServerStreams, End, Session, Room
  <2>2. f \in [ServerStreams -> P] /\ \A d, e \in ServerStreams : f[d] = f[e] => d = e
    BY <2>1
  <2>3. QED
    BY <2>2 DEF Injection, IsInjective
<1>5. /\ IsFiniteSet(ServerStreams)
      /\ Cardinality(ServerStreams) <= session * NumStreams
  BY <1>3, <1>4, FS_Injection
<1>6. session * NumStreams = NumStreams * session
  BY <1>1
<1>7. QED
  BY <1>5, <1>6, FS_CardinalityType

\* Numbers of the load.
LEMMA LoadTypes ==
    TypeOK /\ Room => /\ ServerQueue \in Seq(State) /\ Len(ServerQueue) \in Nat
                      /\ Cardinality(ServerStreams) \in Nat /\ session \in Nat
                      /\ NumStreams * session \in Nat /\ NumStreams \in Nat \ {0}
  BY ServerStreamsBound DEF TypeOK, CtrlType, TestType, ServerQueue

LEMMA RoomGone == \A s \in Side : TypeOK /\ Room /\ Gone(s) => Room'
<1> SUFFICES ASSUME NEW s \in Side, TypeOK, Room, Gone(s) PROVE Room'
  OBVIOUS
<1> USE DEF TypeOK, CtrlType, DataType, Gone
<1>1. CASE s = "client"
  <2>1. UNCHANGED RoomView
    BY <1>1 DEF RoomView, ServerStreams, SMain, End
  <2>2. QED
    BY <2>1, RoomStays
<1>2. CASE s = "server"
  <2>1. SMain' = "exited" /\ ServerStreams' = {}
    BY <1>2 DEF SMain, ServerStreams
  <2>2. QED
    BY <2>1 DEF Room, Starting, CreateQueued, ParamsQueued, Creating
<1>3. QED
  BY <1>1, <1>2

\* The main goroutine out of the way: nothing but the goroutines' sessions counts.
LEMMA RoomElsewhere ==
    ASSUME Room, UNCHANGED <<ServerStreams, session>>, ~Creating',
           SMain' \in {"loop", "waitCtrl", "waitReset", "reset"}
    PROVE  Room'
  BY DEF Room, Starting, CreateQueued, ParamsQueued

\* A state the main goroutine puts in its channel.
LEMMA RoomPush == TypeOK /\ Conversation /\ Room /\ SendPush("sMain") => Room'
<1> SUFFICES ASSUME TypeOK, Conversation, Room, SendPush("sMain") PROVE Room'
  OBVIOUS
<1>1. /\ SMain = "push" /\ SMain' = "write" /\ UNCHANGED <<arg, session, strm>>
      /\ Push("server", arg["sMain"])
  BY DEF SendPush, SMain, Conversation, ServerPart, TypeOK, CtrlType, dataVars, testVars
<1>2. arg["sMain"] \in {"IPERF_EXCHANGE_PARAMS", "IPERF_CREATE_STREAM", "TEST_START",
                        "TEST_RUNNING"} /\ arg["sMain"] \in State
  BY <1>1 DEF Conversation, ServerPart, State
<1>3. /\ UNCHANGED ServerStreams
      /\ ServerQueue' = Append(ServerQueue, arg["sMain"])
      /\ ~Queued("server", "TEST_RUNNING") /\ ~Queued("server", "IPERF_CREATE_STREAM")
  BY <1>1 DEF ServerStreams, ServerQueue, Push, TypeOK, CtrlType, Room, Starting, Conversation,
              ServerPart
<1>4. \A x : Queued("server", x)' <=> Queued("server", x) \/ x = arg["sMain"]
  BY <1>1, <1>2, PushStep
<1>5. /\ Len(ServerQueue') = Len(ServerQueue) + 1
      /\ \A i \in 1..Len(ServerQueue) : ServerQueue'[i] = ServerQueue[i]
  BY <1>2, <1>3, LoadTypes
<1>6. Load' = Load + 1 /\ Load <= NumStreams * (session - 1) + OwnStates /\ Load \in Nat
  <2>1. Load <= NumStreams * (session - 1) + OwnStates
    BY <1>1 DEF Room, Starting
  <2>2. Cardinality(ServerStreams)' = Cardinality(ServerStreams)
    BY <1>3
  <2>3. Load' = Load + 1
    BY <1>5, <2>2, LoadTypes DEF Load
  <2>4. Load \in Nat
    BY LoadTypes DEF Load
  <2>5. QED
    BY <2>1, <2>3, <2>4
<1>7. NumStreams * (session - 1) \in Int
  BY LoadTypes
<1>8. ~Creating'
  BY <1>1 DEF Creating
<1>9. CASE arg["sMain"] = "IPERF_CREATE_STREAM"
  <2>1. Len(ServerQueue) >= 1 /\ OwnStates = 1
    BY <1>1, <1>9 DEF Room, ParamsQueued, OwnStates
  <2>2. ASSUME NEW i \in 1..Len(ServerQueue'), ServerQueue'[i] = "IPERF_CREATE_STREAM"
        PROVE  Len(ServerQueue') - i + Cardinality(ServerStreams) <= NumStreams * (session - 1)
    <3>1. i \notin 1..Len(ServerQueue)
      BY <1>3, <1>5, <2>2 DEF Queued, ServerQueue
    <3>2. i = Len(ServerQueue')
      BY <1>5, <3>1, LoadTypes
    <3>3. QED
      BY <1>5, <1>6, <1>7, <2>1, <3>2, LoadTypes DEF Load
  <2>3. ~Starting' /\ ~ParamsQueued' /\ SMain' # "accept"
    BY <1>1, <1>9 DEF Starting, ParamsQueued
  <2>4. ~Queued("server", "TEST_RUNNING")'
    BY <1>3, <1>4, <1>9
  <2>5. \A e \in ServerStreams' : e[2] <= session'
    BY <1>1, <1>3 DEF Room
  <2>6. QED
    BY <1>1, <1>3, <2>2, <2>3, <2>4, <2>5 DEF Room
<1>10. CASE arg["sMain"] # "IPERF_CREATE_STREAM"
  <2>1. Starting' => Load' <= NumStreams * (session - 1) + OwnStates'
    BY <1>1, <1>2, <1>6, <1>7, <1>10 DEF Starting, OwnStates
  <2>2. Starting' => ~Queued("server", "TEST_RUNNING")'
    BY <1>1, <1>3, <1>4 DEF Starting
  <2>3. QED
    BY <1>1, <1>3, <1>5, <1>8, <1>10, <2>1, <2>2, LoadTypes DEF Room, CreateQueued, ParamsQueued
<1>11. QED
  BY <1>9, <1>10

\* The state it takes out: the streams of a session start only where nothing is
\* promised of the room.
LEMMA RoomPops == TypeOK /\ Conversation /\ Room /\ ServerPops => Room'
<1> SUFFICES ASSUME TypeOK, Conversation, Room, ServerPops PROVE Room'
  OBVIOUS
<1> DEFINE m == Head(ServerQueue)
<1>1. /\ SMain = "loop" /\ SMain' = ServerOn(m) /\ UNCHANGED session /\ Pop("server")
      /\ m # "TEST_RUNNING" => UNCHANGED strm
      /\ m = "TEST_RUNNING" => StartStreams("server")
  BY DEF ServerPops, SMain, ServerQueue, TypeOK, CtrlType, testVars
<1>2. /\ ServerQueue # <<>> /\ ServerQueue' = Tail(ServerQueue) /\ ServerQueue \in Seq(State)
  BY <1>1 DEF Pop, CanPop, ServerQueue, TypeOK, CtrlType
<1>3. /\ Len(ServerQueue) \in Nat \ {0} /\ Len(ServerQueue') = Len(ServerQueue) - 1
      /\ m = ServerQueue[1]
      /\ \A i \in 1..Len(ServerQueue') : ServerQueue'[i] = ServerQueue[i + 1]
  BY <1>2
<1>4. /\ Queued("server", m) /\ \A x : Queued("server", x)' => Queued("server", x)
      /\ \A x : Queued("server", x) /\ x # m => Queued("server", x)'
      /\ Once("server", "IPERF_CREATE_STREAM") =>
             (m = "IPERF_CREATE_STREAM" => ~Queued("server", "IPERF_CREATE_STREAM")')
  BY <1>1, PopStep DEF ServerQueue
<1>5. SMain' \in {"loop", "acceptStreams", "waitCtrl"}
  BY <1>1 DEF ServerOn
<1>6. \A e \in ServerStreams' : e[2] <= session
  <2>1. session \in Nat /\ strm \in [End -> {"none", "io", "push"}]
    BY LoadTypes DEF TypeOK, DataType
  <2>2. \A e \in ServerStreams' : e \in ServerStreams \/ e \in Streams("server")
    BY <1>1, <2>1 DEF ServerStreams, StartStreams
  <2>3. QED
    BY <2>1, <2>2 DEF Room, Streams
<1>7. CASE Creating
  <2>1. UNCHANGED ServerStreams
    <3>1. m # "TEST_RUNNING"
      BY <1>4, <1>7 DEF Room, CreateQueued
    <3>2. QED
      BY <1>1, <3>1 DEF ServerStreams
  <2>2. ASSUME NEW i \in 1..Len(ServerQueue'), ServerQueue'[i] = "IPERF_CREATE_STREAM"
        PROVE  Len(ServerQueue') - i + Cardinality(ServerStreams) <= NumStreams * (session - 1)
    <3>1. i + 1 \in 1..Len(ServerQueue) /\ ServerQueue[i + 1] = "IPERF_CREATE_STREAM"
      BY <1>3, <2>2
    <3>2. Len(ServerQueue) - (i + 1) + Cardinality(ServerStreams) <= NumStreams * (session - 1)
      BY <1>7, <3>1 DEF Room, CreateQueued
    <3>3. QED
      BY <1>3, <3>2, LoadTypes
  <2>3. CASE m = "IPERF_CREATE_STREAM"
    <3>1. 1 \in 1..Len(ServerQueue) /\ ServerQueue[1] = "IPERF_CREATE_STREAM"
      BY <1>3, <2>3
    <3>2. Len(ServerQueue) - 1 + Cardinality(ServerStreams) <= NumStreams * (session - 1)
      BY <1>7, <3>1 DEF Room, CreateQueued
    <3>3. Load' <= NumStreams * (session - 1)
      BY <1>3, <2>1, <3>2 DEF Load
    <3>4. SMain' = "acceptStreams" /\ OwnStates' = 0 /\ ~CreateQueued' /\ ~ParamsQueued'
      BY <1>1, <2>3 DEF ServerOn, OwnStates, CreateQueued, Creating, ParamsQueued
    <3>5. ~Queued("server", "TEST_RUNNING")'
      BY <1>4, <1>7 DEF Room, CreateQueued
    <3>6. NumStreams * (session - 1) + 0 = NumStreams * (session - 1)
      BY LoadTypes
    <3>7. QED
      BY <1>1, <1>6, <3>3, <3>4, <3>5, <3>6 DEF Room
  <2>4. CASE m # "IPERF_CREATE_STREAM"
    <3>1. SMain' \in {"loop", "waitCtrl"}
      BY <1>1, <2>4 DEF ServerOn
    <3>2. ~Queued("server", "TEST_RUNNING")'
      BY <1>4, <1>7 DEF Room, CreateQueued
    <3>3. QED
      BY <1>1, <1>6, <2>1, <2>2, <3>1, <3>2 DEF Room, Starting, ParamsQueued
  <2>5. QED
    BY <2>3, <2>4
<1>8. CASE ~Creating
  <2>1. m # "IPERF_CREATE_STREAM" /\ ~Queued("server", "IPERF_CREATE_STREAM")'
    BY <1>1, <1>4, <1>8 DEF Creating
  <2>2. SMain' \in {"loop", "waitCtrl"} /\ ~Creating'
    BY <1>1, <2>1 DEF ServerOn, Creating
  <2>3. QED
    BY <1>1, <1>6, <2>2 DEF Room, Starting, CreateQueued, ParamsQueued
<1>9. QED
  BY <1>7, <1>8

\* The next client finds an empty channel.
LEMMA RoomResets == TypeOK /\ Conversation /\ Room /\ ServerResets => Room'
<1> SUFFICES ASSUME TypeOK, Conversation, Room, ServerResets PROVE Room'
  OBVIOUS
<1>1. SMain' = "accept" /\ ServerQueue' = <<>> /\ UNCHANGED <<session, strm>>
  BY DEF ServerResets, SMain, ServerQueue, TypeOK, CtrlType, testVars
<1>2. Len(ServerQueue') = 0 /\ UNCHANGED ServerStreams
  BY <1>1 DEF ServerStreams
<1>3. Load' <= NumStreams * session
  BY <1>2, ServerStreamsBound DEF Load
<1>4. ~Queued("server", "TEST_RUNNING")'
  BY <1>2 DEF Queued, ServerQueue
<1>5. QED
  BY <1>1, <1>2, <1>3, <1>4 DEF Room, Starting, CreateQueued, ParamsQueued, Creating

\* From one state to the next.
LEMMA RoomSetsUp ==
    /\ TypeOK /\ Conversation /\ Room
    /\ \/ ServerGetsParams \/ ServerListens \/ ServerAccepts \/ ServerInits
       \/ ServerWritten("sMain")
    => Room'
<1> SUFFICES ASSUME TypeOK, Conversation, Room,
                    \/ ServerGetsParams \/ ServerListens \/ ServerAccepts \/ ServerInits
                    \/ ServerWritten("sMain")
             PROVE  Room'
  OBVIOUS
<1> USE DEF TypeOK, CtrlType, SMain
<1>1. UNCHANGED <<ctrlChan, session, strm>>
  BY DEF ServerGetsParams, ServerListens, ServerAccepts, ServerInits, ServerWritten, dataVars,
         testVars
<1>2. /\ UNCHANGED <<ServerStreams, ServerQueue, Load>>
      /\ \A x : Queued("server", x)' <=> Queued("server", x)
  BY <1>1 DEF ServerStreams, ServerQueue, Load, Queued
<1> USE <1>1, <1>2 DEF Room, Starting, OwnStates, ParamsQueued, CreateQueued, Creating
<1>3. CASE ServerGetsParams
  <2>1. SMain = "getParams" /\ SMain' = "listen"
    BY <1>3 DEF ServerGetsParams
  <2>2. QED
    BY <2>1
<1>4. CASE ServerListens
  <2>1. SMain = "listen" /\ SMain' = "push" /\ arg'["sMain"] = "IPERF_CREATE_STREAM"
    BY <1>4 DEF ServerListens
  <2>2. QED
    BY <2>1
<1>5. CASE ServerAccepts
  <2>1. /\ SMain = "acceptStreams"
        /\ \/ SMain' = "acceptStreams" /\ UNCHANGED arg
           \/ SMain' = "push" /\ arg'["sMain"] = "TEST_START"
    BY <1>5 DEF ServerAccepts
  <2>2. QED
    BY <2>1
<1>6. CASE ServerInits
  <2>1. SMain = "init" /\ SMain' = "push" /\ arg'["sMain"] = "TEST_RUNNING"
    BY <1>6 DEF ServerInits
  <2>2. QED
    BY <2>1
<1>7. CASE ServerWritten("sMain")
  <2>1. SMain = "write" /\ SMain' = AfterSend(arg["sMain"]) /\ UNCHANGED arg
    BY <1>7 DEF ServerWritten
  <2>2. arg["sMain"] \in {"IPERF_EXCHANGE_PARAMS", "IPERF_CREATE_STREAM", "TEST_START",
                          "TEST_RUNNING"}
    BY <2>1 DEF Conversation, ServerPart
  <2>3. CASE arg["sMain"] \in {"IPERF_EXCHANGE_PARAMS", "TEST_START"}
    BY <2>1, <2>3 DEF AfterSend
  <2>4. CASE arg["sMain"] = "IPERF_CREATE_STREAM"
    <3>1. SMain' = "loop"
      BY <2>1, <2>4 DEF AfterSend
    <3>2. QED
      BY <2>1, <2>4, <3>1
  <2>5. CASE arg["sMain"] = "TEST_RUNNING"
    <3>1. SMain' = "loop" /\ ~Queued("server", "IPERF_CREATE_STREAM")
      BY <2>1, <2>5 DEF AfterSend, Conversation, ServerPart
    <3>2. ~Creating'
      BY <3>1
    <3>3. QED
      BY <3>1, <3>2, RoomElsewhere
  <2>6. QED
    BY <2>2, <2>3, <2>4, <2>5
<1>8. QED
  BY <1>3, <1>4, <1>5, <1>6, <1>7

LEMMA RoomMain == TypeOK /\ Conversation /\ Room /\ ServerMain => Room'
<1> SUFFICES ASSUME TypeOK, Conversation, Room, ServerMain, ~Gone("server") PROVE Room'
  BY RoomGone
<1>1. CASE ServerResets \/ ServerPops \/ SendPush("sMain")
  BY <1>1, RoomResets, RoomPops, RoomPush
<1>2. CASE \/ ServerGetsParams \/ ServerListens \/ ServerAccepts \/ ServerInits
           \/ ServerWritten("sMain")
  BY <1>2, RoomSetsUp
<1>3. CASE ServerParamsFail \/ ServerListenFails \/ ServerNotWritten("sMain") \/ ServerCtrlDone
  <2>1. SMain' \in {"waitCtrl", "waitReset", "reset"} /\ UNCHANGED <<strm, session>>
    BY <1>3 DEF ServerParamsFail, ServerListenFails, ServerNotWritten, ServerCtrlDone, Panic,
                AfterSendFailed, SMain, TypeOK, CtrlType, dataVars, testVars
  <2>2. UNCHANGED ServerStreams /\ ~Creating'
    BY <2>1 DEF ServerStreams, Creating
  <2>3. QED
    BY <2>1, <2>2, RoomElsewhere
<1>4. QED
  BY <1>1, <1>2, <1>3 DEF ServerMain

\* The handler puts its states there only when the main goroutine has gone on.
LEMMA RoomCtrl == TypeOK /\ Conversation /\ Room /\ ServerCtrl => Room'
<1> SUFFICES ASSUME TypeOK, Conversation, Room, ServerCtrl, ~Gone("server") PROVE Room'
  BY RoomGone
<1> USE DEF TypeOK, CtrlType, SMain, SCtrl
<1>1. SMain' = SMain /\ UNCHANGED <<strm, session>>
  BY DEF ServerCtrl, ServerReadsEnd, ServerReadsOther, ServerClosesStreams, ServerGetsResults,
         ServerSendsResults, ServerReports, SendPush, ServerWritten, ServerNotWritten,
         ServerHandlerFails, ServerHandlerReturns, Panic, dataVars, testVars
<1>2. UNCHANGED ServerStreams
  BY <1>1 DEF ServerStreams
<1>3. CASE SendPush("sCtrl") \/ ServerHandlerReturns
  <2>1. PICK m \in State : m # "IPERF_CREATE_STREAM" /\ Push("server", m)
    BY <1>3 DEF SendPush, ServerHandlerReturns, Conversation, ServerPart, State
  <2>2. SMain \in {"loop", "waitCtrl", "waitReset"} /\ ~Creating
    BY <1>3 DEF SendPush, ServerHandlerReturns, Conversation, ServerPart, MainLeads
  <2>3. ~Creating'
    BY <1>1, <2>1, <2>2, PushStep DEF Creating
  <2>4. QED
    BY <1>1, <1>2, <2>2, <2>3, RoomElsewhere
<1>4. CASE ~(SendPush("sCtrl") \/ ServerHandlerReturns)
  <2>1. UNCHANGED ctrlChan /\ arg'["sMain"] = arg["sMain"]
    BY <1>4 DEF ServerCtrl, ServerReadsEnd, ServerReadsOther, ServerClosesStreams,
                ServerGetsResults, ServerSendsResults, ServerReports, ServerWritten,
                ServerNotWritten, ServerHandlerFails, Panic
  <2>2. QED
    BY <1>1, <1>2, <2>1, RoomStays DEF RoomView
<1>5. QED
  BY <1>3, <1>4

\* A stream goroutine that ends leaves one TEST_END in its place, or none.
LEMMA RoomStream == \A e \in End : TypeOK /\ Room /\ Stream(e) => Room'
<1> SUFFICES ASSUME NEW e \in End, TypeOK, Room, Stream(e) PROVE Room'
  OBVIOUS
<1> USE DEF Stream, StreamSends, StreamReceives, StreamFails, StreamEnds, Turn, Quit
<1>1. /\ e[1] \in Side /\ strm[e] # "none" /\ UNCHANGED <<pc, arg, session>>
      /\ \A d \in End : d # e => strm'[d] = strm[d]
  BY DEF End, ctrlVars, testVars, TypeOK, DataType
<1>2. \/ strm'[e] # "none" /\ UNCHANGED ctrlChan
      \/ strm'[e] = "none" /\ UNCHANGED ctrlChan
      \/ strm'[e] = "none" /\ Push(e[1], "TEST_END")
  <2>1. CASE StreamSends(e) \/ StreamReceives(e)
    <3>1. strm'[e] = AfterTurn(e[1]) /\ UNCHANGED ctrlChan
      BY <2>1 DEF ctrlVars, TypeOK, DataType
    <3>2. QED
      BY <3>1 DEF AfterTurn
  <2>2. CASE StreamFails(e)
    BY <2>2 DEF ctrlVars, TypeOK, DataType
  <2>3. CASE StreamEnds(e)
    BY <2>3 DEF AfterPush, TypeOK, DataType
  <2>4. QED
    BY <2>1, <2>2, <2>3
<1>3. CASE e[1] = "client" \/ strm'[e] # "none"
  <2>1. UNCHANGED ServerStreams /\ UNCHANGED ctrlChan["server"]
    BY <1>1, <1>2, <1>3 DEF ServerStreams, Push, TypeOK, CtrlType
  <2>2. QED
    BY <1>1, <2>1, RoomStays DEF RoomView, SMain
<1>4. CASE e[1] = "server" /\ strm'[e] = "none"
  <2>1. e \in ServerStreams /\ ServerStreams' = ServerStreams \ {e}
    BY <1>1, <1>4 DEF ServerStreams
  <2>2. /\ Cardinality(ServerStreams') = Cardinality(ServerStreams) - 1
        /\ Cardinality(ServerStreams) \in Nat
    BY <2>1, ServerStreamsBound, FS_RemoveElement
  <2>3. \A d \in ServerStreams' : d[2] <= session
    BY <2>1 DEF Room
  <2>4. UNCHANGED <<SMain, Starting, OwnStates, ParamsQueued, session>>
    BY <1>1 DEF SMain, Starting, OwnStates, ParamsQueued
  <2>5. CASE UNCHANGED ctrlChan
    <3>1. /\ UNCHANGED ServerQueue /\ UNCHANGED CreateQueued
          /\ \A x : Queued("server", x)' <=> Queued("server", x)
      BY <1>1, <2>5 DEF ServerQueue, CreateQueued, Creating, Queued, SMain
    <3>2. Load' = Load - 1 /\ Load \in Nat
      BY <2>2, <3>1, LoadTypes DEF Load
    <3>3. Starting => Load <= NumStreams * (session - 1) + OwnStates
      BY DEF Room
    <3>4. Starting => Load' <= NumStreams * (session - 1) + OwnStates
      BY <3>2, <3>3, LoadTypes DEF OwnStates
    <3>5. SMain = "accept" => Load' <= NumStreams * session
      BY <3>2, LoadTypes DEF Room
    <3>6. ASSUME CreateQueued, NEW i \in 1..Len(ServerQueue),
                 ServerQueue[i] = "IPERF_CREATE_STREAM"
          PROVE  Len(ServerQueue) - i + Cardinality(ServerStreams') <= NumStreams * (session - 1)
      <4>1. Len(ServerQueue) - i + Cardinality(ServerStreams) <= NumStreams * (session - 1)
        BY <3>6 DEF Room
      <4>2. QED
        BY <2>2, <4>1, LoadTypes
    <3>7. QED
      BY <1>1, <2>3, <2>4, <3>1, <3>4, <3>5, <3>6 DEF Room
  <2>6. CASE Push("server", "TEST_END")
    <3>1. /\ \A x : Queued("server", x)' <=> Queued("server", x) \/ x = "TEST_END"
          /\ ServerQueue' = Append(ServerQueue, "TEST_END") /\ "TEST_END" \in State
      BY <2>6, PushStep DEF State, Push, ServerQueue, TypeOK, CtrlType
    <3>2. /\ Len(ServerQueue') = Len(ServerQueue) + 1
          /\ ServerQueue'[Len(ServerQueue) + 1] = "TEST_END"
          /\ \A i \in 1..Len(ServerQueue) : ServerQueue'[i] = ServerQueue[i]
      BY <3>1, LoadTypes
    <3>3. /\ CreateQueued' <=> CreateQueued
          /\ Queued("server", "TEST_RUNNING")' <=> Queued("server", "TEST_RUNNING")
      BY <1>1, <2>4, <3>1 DEF CreateQueued, Creating
    <3>4. UNCHANGED Load
      BY <2>2, <3>2, LoadTypes DEF Load
    <3>5. ASSUME CreateQueued, NEW i \in 1..Len(ServerQueue'),
                 ServerQueue'[i] = "IPERF_CREATE_STREAM"
          PROVE  Len(ServerQueue') - i + Cardinality(ServerStreams') <= NumStreams * (session - 1)
      <4>1. i \in 1..Len(ServerQueue) /\ ServerQueue[i] = "IPERF_CREATE_STREAM"
        BY <3>2, <3>5, LoadTypes
      <4>2. Len(ServerQueue) - i + Cardinality(ServerStreams) <= NumStreams * (session - 1)
        BY <3>5, <4>1 DEF Room
      <4>3. QED
        BY <2>2, <3>2, <4>1, <4>2, LoadTypes
    <3>6. ParamsQueued => Len(ServerQueue') >= 1
      BY <3>2, LoadTypes
    <3>7. QED
      BY <1>1, <2>3, <2>4, <3>3, <3>4, <3>5, <3>6 DEF Room
  <2>7. QED
    BY <1>2, <1>4, <2>5, <2>6
<1>5. QED
  BY <1>1, <1>2, <1>3, <1>4

LEMMA RoomConnect == TypeOK /\ Room /\ Connect => Room'
<1> SUFFICES ASSUME TypeOK, Room, Connect PROVE Room'
  OBVIOUS
<1>1. /\ SMain = "accept" /\ SMain' = "push" /\ arg'["sMain"] = "IPERF_EXCHANGE_PARAMS"
      /\ session' = session + 1 /\ UNCHANGED <<ctrlChan, strm>>
  BY DEF Connect, SMain, TypeOK, CtrlType
<1>2. UNCHANGED <<ServerStreams, ServerQueue, Load, Queued("server", "TEST_RUNNING")>>
  BY <1>1 DEF ServerStreams, ServerQueue, Load, Queued
<1>3. session' - 1 = session
  BY <1>1, LoadTypes
<1>4. OwnStates' = 0 /\ ~ParamsQueued' /\ ~CreateQueued'
  BY <1>1 DEF OwnStates, ParamsQueued, CreateQueued, Creating
<1>5. Load' <= NumStreams * (session' - 1) + OwnStates'
  <2>1. Load <= NumStreams * session
    BY <1>1 DEF Room
  <2>2. QED
    BY <1>2, <1>3, <1>4, <2>1, LoadTypes
<1>6. \A e \in ServerStreams' : e[2] <= session'
  <2>1. \A e \in ServerStreams : e[2] \in Nat
    BY DEF ServerStreams, End, Session
  <2>2. QED
    BY <1>1, <1>2, <2>1, LoadTypes DEF Room
<1>7. QED
  BY <1>1, <1>2, <1>4, <1>5, <1>6 DEF Room

LEMMA RoomNext == TypeOK /\ Conversation /\ Room /\ [Next]_vars => Room'
<1> SUFFICES ASSUME TypeOK, Conversation, Room, [Next]_vars PROVE Room'
  OBVIOUS
<1>1. CASE Connect \/ ServerMain \/ ServerCtrl
  BY <1>1, RoomConnect, RoomMain, RoomCtrl
<1>2. CASE ClientMain \/ ClientCtrl
  <2>1. ClientStart => UNCHANGED ServerStreams
    BY DEF ClientStart, StartStreams, Streams, ServerStreams, TypeOK, DataType
  <2>2. Gone("client") \/ ClientStart \/ UNCHANGED strm
    BY <1>2 DEF ClientMain, ClientContinue, ClientAllEnded, ClientSendsEnd, SendPush,
                ClientEndWritten, ClientEndNotWritten, ClientExit, ClientCtrl, ClientReads,
                ClientReadFails, ClientSendParams, ClientSendResults, ClientGetResults,
                ClientResultsFail, ClientConnects, ClientConnectRefused, ClientInits,
                ClientPushesRunning, ClientClosesStreams, ClientReports, ClientSendsDone,
                ClientClosesCtrl, ClientPushesDone, ClientSends, Exit, Panic, dataVars
  <2>3. UNCHANGED session
    BY <1>2 DEF ClientMain, ClientStart, ClientContinue, ClientAllEnded, ClientSendsEnd, SendPush,
                ClientEndWritten, ClientEndNotWritten, ClientExit, ClientCtrl, ClientReads,
                ClientReadFails, ClientSendParams, ClientSendResults, ClientGetResults,
                ClientResultsFail, ClientConnects, ClientConnectRefused, ClientInits,
                ClientPushesRunning, ClientClosesStreams, ClientReports, ClientSendsDone,
                ClientClosesCtrl, ClientPushesDone, ClientSends, Exit, Panic, Gone, testVars
  <2>4. Gone("client") \/ UNCHANGED RoomView
    BY <1>2, <2>1, <2>2, <2>3, ClientLeavesServer DEF ServerView, RoomView, SMain, ServerStreams
  <2>5. QED
    BY <2>4, RoomStays, RoomGone
<1>3. CASE ClientCrash \/ ServerCrash
  BY <1>3, RoomGone DEF ClientCrash, ServerCrash, Exit
<1>4. ASSUME NEW n \in Session, ClientTimer(n) \/ ServerTimer(n) PROVE Room'
  BY <1>4, RoomStays
     DEF ClientTimer, ServerTimer, RoomView, SMain, ServerStreams, dataVars, testVars
<1>5. ASSUME NEW e \in End, Stream(e) PROVE Room'
  BY <1>5, RoomStream
<1>6. ASSUME NEW t \in Ticker, TickerStep(t) PROVE Room'
  <2>1. t[1] \in Side
    BY DEF Ticker
  <2>2. Gone(t[1]) \/ UNCHANGED RoomView
    BY <1>6 DEF TickerStep, Tick, StatsTickEnds, ReportTickEnds, Panic, RoomView, SMain,
                ServerStreams, ctrlVars, dataVars, testVars
  <2>3. QED
    BY <2>1, <2>2, RoomStays, RoomGone
<1>7. CASE Rest \/ UNCHANGED vars
  BY <1>7, RoomStays
     DEF Rest, vars, RoomView, SMain, ServerStreams, ctrlVars, dataVars, testVars
<1>8. QED
  BY <1>1, <1>2, <1>3, <1>4, <1>5, <1>6, <1>7 DEF Next

LEMMA RoomInit == Init => Room
<1> SUFFICES ASSUME Init PROVE Room
  OBVIOUS
<1>1. SMain = "accept" /\ ServerStreams = {} /\ ServerQueue = <<>> /\ session = 0
  BY DEF Init, SMain, ServerStreams, ServerQueue
<1>2. Len(ServerQueue) = 0 /\ Load = 0
  BY <1>1, FS_EmptySet DEF Load
<1>3. NumStreams * session = 0
  BY <1>1
<1>4. ~Queued("server", "TEST_RUNNING")
  BY <1>2 DEF Queued, ServerQueue
<1>5. QED
  BY <1>1, <1>2, <1>3, <1>4 DEF Room, Starting, CreateQueued, ParamsQueued, Creating

-----------------------------------------------------------------------------
\* What of that is the main goroutine's own: no state but TEST_END is left of an
\* earlier session, and each state of its own is taken out before the next but one
\* is put there.
OnlyEnds == \A x : Queued("server", x) => x = "TEST_END"
Share ==
    /\ SMain = "accept" \/ (Starting /\ OwnStates = 0) => OnlyEnds
    /\ Starting => OneState("server")
    /\ CreateQueued =>
           \A i, j \in 1..Len(ServerQueue) :
               ServerQueue[i] = "IPERF_CREATE_STREAM" /\ i < j => ServerQueue[j] = "TEST_END"

ShareView == <<SMain, arg["sMain"], ctrlChan["server"]>>

LEMMA ShareStays == Share /\ UNCHANGED ShareView => Share'
  BY DEF Share, ShareView, OnlyEnds, OneState, ServerQueue, Starting, CreateQueued, OwnStates,
         Creating, Queued

LEMMA ShareElsewhere ==
    ASSUME ~Creating', SMain' \in {"loop", "waitCtrl", "waitReset", "reset", "exited"}
    PROVE  Share'
  BY DEF Share, Starting, CreateQueued

LEMMA ShareGone == \A s \in Side : TypeOK /\ Share /\ Gone(s) => Share'
<1> SUFFICES ASSUME NEW s \in Side, TypeOK, Share, Gone(s) PROVE Share'
  OBVIOUS
<1> USE DEF TypeOK, CtrlType, Gone, SMain
<1>1. CASE s = "client"
  BY <1>1, ShareStays DEF ShareView
<1>2. CASE s = "server"
  BY <1>2, ShareElsewhere DEF Creating
<1>3. QED
  BY <1>1, <1>2

\* Where nothing but TEST_ENDs is queued there is at most one other state.
LEMMA EndsShare == TypeOK /\ OnlyEnds => OneState("server")
<1>1. TypeOK => DOMAIN ctrlChan["server"] = 1..Len(ctrlChan["server"])
  BY DEF TypeOK, CtrlType
<1>2. QED
  BY <1>1 DEF OnlyEnds, OneState, Queued

LEMMA SharePush == TypeOK /\ Conversation /\ Share /\ SendPush("sMain") => Share'
<1> SUFFICES ASSUME TypeOK, Conversation, Share, SendPush("sMain") PROVE Share'
  OBVIOUS
<1>1. /\ SMain = "push" /\ SMain' = "write" /\ UNCHANGED arg /\ ~Creating'
      /\ Push("server", arg["sMain"]) /\ ~Queued("server", "IPERF_CREATE_STREAM")
  BY DEF SendPush, SMain, Conversation, ServerPart, Creating, TypeOK, CtrlType
<1>2. arg["sMain"] \in {"IPERF_EXCHANGE_PARAMS", "IPERF_CREATE_STREAM", "TEST_START",
                        "TEST_RUNNING"} /\ arg["sMain"] \in State
  BY <1>1 DEF Conversation, ServerPart, State
<1>3. /\ ServerQueue \in Seq(State) /\ ServerQueue' = Append(ServerQueue, arg["sMain"])
  BY <1>1 DEF ServerQueue, Push, TypeOK, CtrlType
<1>4. /\ Len(ServerQueue) \in Nat /\ Len(ServerQueue') = Len(ServerQueue) + 1
      /\ DOMAIN ServerQueue = 1..Len(ServerQueue) /\ DOMAIN ServerQueue' = 1..Len(ServerQueue')
      /\ \A i \in 1..Len(ServerQueue) : ServerQueue'[i] = ServerQueue[i]
  BY <1>2, <1>3
<1>5. CASE arg["sMain"] \in {"IPERF_EXCHANGE_PARAMS", "TEST_START"}
  <2>1. OnlyEnds
    BY <1>1, <1>5 DEF Share, Starting, OwnStates
  <2>2. \A i \in 1..Len(ServerQueue) : ServerQueue'[i] = "TEST_END"
    BY <1>4, <2>1 DEF OnlyEnds, Queued, ServerQueue
  <2>3. \A i \in 1..Len(ServerQueue') :
            i = Len(ServerQueue) + 1 \/ ServerQueue'[i] = "TEST_END"
    BY <1>4, <2>2
  <2>4. OneState("server")'
    BY <1>4, <2>3 DEF OneState, ServerQueue
  <2>5. QED
    BY <1>1, <1>5, <2>4 DEF Share, Starting, OwnStates, CreateQueued
<1>6. CASE arg["sMain"] \in {"IPERF_CREATE_STREAM", "TEST_RUNNING"}
  <2>1. \A i \in 1..Len(ServerQueue) : ServerQueue'[i] # "IPERF_CREATE_STREAM"
    BY <1>1, <1>4 DEF Queued, ServerQueue
  <2>2. \A i, j \in 1..Len(ServerQueue') :
            ServerQueue'[i] = "IPERF_CREATE_STREAM" => ~(i < j)
    BY <1>4, <2>1
  <2>3. QED
    BY <1>1, <1>6, <2>2 DEF Share, Starting
<1>7. QED
  BY <1>2, <1>5, <1>6

LEMMA SharePops == TypeOK /\ Conversation /\ Share /\ ServerPops => Share'
<1> SUFFICES ASSUME TypeOK, Conversation, Share, ServerPops PROVE Share'
  OBVIOUS
<1> DEFINE m == Head(ServerQueue)
<1>1. /\ SMain = "loop" /\ SMain' = ServerOn(m) /\ Pop("server")
      /\ ServerQueue # <<>> /\ ServerQueue' = Tail(ServerQueue) /\ ServerQueue \in Seq(State)
  BY DEF ServerPops, SMain, ServerQueue, Pop, CanPop, TypeOK, CtrlType
<1>2. /\ Len(ServerQueue) \in Nat \ {0} /\ Len(ServerQueue') = Len(ServerQueue) - 1
      /\ m = ServerQueue[1]
      /\ \A i \in 1..Len(ServerQueue') : ServerQueue'[i] = ServerQueue[i + 1]
  BY <1>1
<1>3. \A i \in 1..Len(ServerQueue') : i + 1 \in 1..Len(ServerQueue)
  BY <1>2
<1>4. CASE m = "IPERF_CREATE_STREAM"
  <2>1. Creating /\ SMain' = "acceptStreams"
    BY <1>1, <1>4, PopStep DEF ServerOn, Creating, ServerQueue
  <2>2. 1 \in 1..Len(ServerQueue) /\ ServerQueue[1] = "IPERF_CREATE_STREAM"
    BY <1>2, <1>4
  <2>3. \A j \in 1..Len(ServerQueue) : 1 < j => ServerQueue[j] = "TEST_END"
    BY <2>1, <2>2 DEF Share, CreateQueued
  <2>4. \A i \in 1..Len(ServerQueue') : 1 < i + 1
    BY <1>2
  <2>5. \A i \in 1..Len(ServerQueue') : ServerQueue'[i] = "TEST_END"
    BY <1>2, <1>3, <2>3, <2>4
  <2>6. OnlyEnds'
    BY <2>5 DEF OnlyEnds, Queued, ServerQueue
  <2>7. DOMAIN ServerQueue' = 1..Len(ServerQueue')
    BY <1>1
  <2>8. OneState("server")'
    BY <2>5, <2>7 DEF OneState, ServerQueue
  <2>9. QED
    BY <2>1, <2>6, <2>8 DEF Share, Starting, CreateQueued, Creating
<1>5. CASE m # "IPERF_CREATE_STREAM"
  <2>1. SMain' \in {"loop", "waitCtrl"}
    BY <1>1, <1>5 DEF ServerOn
  <2>2. CASE Creating
    <3>1. ASSUME NEW i \in 1..Len(ServerQueue'), NEW j \in 1..Len(ServerQueue'),
                 ServerQueue'[i] = "IPERF_CREATE_STREAM", i < j
          PROVE  ServerQueue'[j] = "TEST_END"
      <4>1. i + 1 < j + 1 /\ ServerQueue[i + 1] = "IPERF_CREATE_STREAM"
        BY <1>2, <3>1
      <4>2. ServerQueue[j + 1] = "TEST_END"
        BY <1>3, <2>2, <4>1 DEF Share, CreateQueued
      <4>3. QED
        BY <1>2, <4>2
    <3>2. QED
      BY <2>1, <3>1 DEF Share, Starting
  <2>3. CASE ~Creating
    <3>1. ~Creating'
      BY <1>1, <2>3, PopStep DEF Creating
    <3>2. QED
      BY <2>1, <3>1, ShareElsewhere
  <2>4. QED
    BY <2>2, <2>3
<1>6. QED
  BY <1>4, <1>5

LEMMA ShareSetsUp ==
    /\ TypeOK /\ Conversation /\ Share
    /\ \/ ServerGetsParams \/ ServerListens \/ ServerAccepts \/ ServerInits
       \/ ServerWritten("sMain")
    => Share'
<1> SUFFICES ASSUME TypeOK, Conversation, Share,
                    \/ ServerGetsParams \/ ServerListens \/ ServerAccepts \/ ServerInits
                    \/ ServerWritten("sMain")
             PROVE  Share'
  OBVIOUS
<1> USE DEF TypeOK, CtrlType, SMain
<1>1. UNCHANGED ctrlChan
  BY DEF ServerGetsParams, ServerListens, ServerAccepts, ServerInits, ServerWritten
<1>2. UNCHANGED <<ServerQueue, OnlyEnds, OneState("server"),
                  Queued("server", "IPERF_CREATE_STREAM")>>
  BY <1>1 DEF ServerQueue, OnlyEnds, OneState, Queued
<1> USE <1>2 DEF Share, Starting, OwnStates, CreateQueued, Creating
<1>3. CASE ServerGetsParams \/ ServerListens
  <2>1. /\ SMain \in {"getParams", "listen"}
        /\ \/ SMain' = "listen"
           \/ SMain' = "push" /\ arg'["sMain"] = "IPERF_CREATE_STREAM"
    BY <1>3 DEF ServerGetsParams, ServerListens
  <2>2. QED
    BY <2>1
<1>4. CASE ServerAccepts
  <2>1. /\ SMain = "acceptStreams"
        /\ \/ SMain' = "acceptStreams"
           \/ SMain' = "push" /\ arg'["sMain"] = "TEST_START"
    BY <1>4 DEF ServerAccepts
  <2>2. QED
    BY <2>1
<1>5. CASE ServerInits
  <2>1. SMain = "init" /\ SMain' = "push" /\ arg'["sMain"] = "TEST_RUNNING"
    BY <1>5 DEF ServerInits
  <2>2. QED
    BY <2>1
<1>6. CASE ServerWritten("sMain")
  <2>1. SMain = "write" /\ SMain' = AfterSend(arg["sMain"])
    BY <1>6 DEF ServerWritten
  <2>2. arg["sMain"] \in {"IPERF_EXCHANGE_PARAMS", "IPERF_CREATE_STREAM", "TEST_START",
                          "TEST_RUNNING"}
    BY <2>1 DEF Conversation, ServerPart
  <2>3. CASE arg["sMain"] \in {"IPERF_EXCHANGE_PARAMS", "TEST_START"}
    <3>1. SMain' \in {"getParams", "init"}
      BY <2>1, <2>3 DEF AfterSend
    <3>2. QED
      BY <2>1, <2>3, <3>1
  <2>4. CASE arg["sMain"] = "IPERF_CREATE_STREAM"
    <3>1. SMain' = "loop"
      BY <2>1, <2>4 DEF AfterSend
    <3>2. QED
      BY <2>1, <2>4, <3>1
  <2>5. CASE arg["sMain"] = "TEST_RUNNING"
    <3>1. SMain' = "loop" /\ ~Creating'
      BY <2>1, <2>5 DEF AfterSend, Conversation, ServerPart
    <3>2. QED
      BY <3>1, ShareElsewhere
  <2>6. QED
    BY <2>2, <2>3, <2>4, <2>5
<1>7. QED
  BY <1>3, <1>4, <1>5, <1>6

LEMMA ShareMain == TypeOK /\ Conversation /\ Share /\ ServerMain => Share'
<1> SUFFICES ASSUME TypeOK, Conversation, Share, ServerMain, ~Gone("server") PROVE Share'
  BY ShareGone
<1>1. CASE ServerPops \/ SendPush("sMain")
  BY <1>1, SharePops, SharePush
<1>2. CASE \/ ServerGetsParams \/ ServerListens \/ ServerAccepts \/ ServerInits
           \/ ServerWritten("sMain")
  BY <1>2, ShareSetsUp
<1>3. CASE ServerParamsFail \/ ServerListenFails \/ ServerNotWritten("sMain") \/ ServerCtrlDone
  <2>1. SMain' \in {"waitCtrl", "waitReset", "reset"}
    BY <1>3 DEF ServerParamsFail, ServerListenFails, ServerNotWritten, ServerCtrlDone, Panic,
                AfterSendFailed, SMain, TypeOK, CtrlType
  <2>2. QED
    BY <2>1, ShareElsewhere DEF Creating
<1>4. CASE ServerResets
  <2>1. SMain' = "accept" /\ ctrlChan'["server"] = <<>>
    BY <1>4 DEF ServerResets, SMain, TypeOK, CtrlType
  <2>2. Len(ctrlChan'["server"]) = 0
    BY <2>1
  <2>3. QED
    BY <2>1, <2>2 DEF Share, OnlyEnds, Queued, Starting, CreateQueued, Creating
<1>5. QED
  BY <1>1, <1>2, <1>3, <1>4 DEF ServerMain

LEMMA ShareCtrl == TypeOK /\ Conversation /\ Share /\ ServerCtrl => Share'
<1> SUFFICES ASSUME TypeOK, Conversation, Share, ServerCtrl, ~Gone("server") PROVE Share'
  BY ShareGone
<1> USE DEF TypeOK, CtrlType, SMain, SCtrl
<1>1. SMain' = SMain
  BY DEF ServerCtrl, ServerReadsEnd, ServerReadsOther, ServerClosesStreams, ServerGetsResults,
         ServerSendsResults, ServerReports, SendPush, ServerWritten, ServerNotWritten,
         ServerHandlerFails, ServerHandlerReturns, Panic
<1>2. CASE SendPush("sCtrl") \/ ServerHandlerReturns
  <2>1. PICK m \in State : m # "IPERF_CREATE_STREAM" /\ Push("server", m)
    BY <1>2 DEF SendPush, ServerHandlerReturns, Conversation, ServerPart, State
  <2>2. SMain \in {"loop", "waitCtrl", "waitReset"} /\ ~Creating
    BY <1>2 DEF SendPush, ServerHandlerReturns, Conversation, ServerPart, MainLeads
  <2>3. ~Creating'
    BY <1>1, <2>1, <2>2, PushStep DEF Creating
  <2>4. QED
    BY <1>1, <2>2, <2>3, ShareElsewhere
<1>3. CASE ~(SendPush("sCtrl") \/ ServerHandlerReturns)
  <2>1. UNCHANGED ctrlChan /\ arg'["sMain"] = arg["sMain"]
    BY <1>3 DEF ServerCtrl, ServerReadsEnd, ServerReadsOther, ServerClosesStreams,
                ServerGetsResults, ServerSendsResults, ServerReports, ServerWritten,
                ServerNotWritten, ServerHandlerFails, Panic
  <2>2. QED
    BY <1>1, <2>1, ShareStays DEF ShareView
<1>4. QED
  BY <1>2, <1>3

\* A stream goroutine adds nothing but a TEST_END.
LEMMA ShareStream == \A e \in End : TypeOK /\ Share /\ Stream(e) => Share'
<1> SUFFICES ASSUME NEW e \in End, TypeOK, Share, Stream(e) PROVE Share'
  OBVIOUS
<1>1. /\ UNCHANGED <<pc, arg>> /\ e[1] \in Side
      /\ UNCHANGED ctrlChan \/ Push(e[1], "TEST_END")
  BY DEF Stream, StreamSends, StreamReceives, StreamFails, StreamEnds, Turn, Quit, ctrlVars, End
<1>2. CASE UNCHANGED ctrlChan["server"]
  BY <1>1, <1>2, ShareStays DEF ShareView, SMain
<1>3. CASE Push("server", "TEST_END")
  <2>1. "TEST_END" \in State
    BY DEF State
  <2>2. \A x : Queued("server", x)' <=> Queued("server", x) \/ x = "TEST_END"
    BY <1>3, <2>1, PushStep
  <2>3. ServerQueue \in Seq(State) /\ ServerQueue' = Append(ServerQueue, "TEST_END")
    BY <1>3 DEF Push, ServerQueue, TypeOK, CtrlType
  <2>4. /\ Len(ServerQueue) \in Nat /\ Len(ServerQueue') = Len(ServerQueue) + 1
        /\ DOMAIN ServerQueue = 1..Len(ServerQueue) /\ DOMAIN ServerQueue' = 1..Len(ServerQueue')
        /\ \A i \in 1..Len(ServerQueue) : ServerQueue'[i] = ServerQueue[i]
        /\ ServerQueue'[Len(ServerQueue) + 1] = "TEST_END"
    BY <2>1, <2>3
  <2>5. \A i \in 1..Len(ServerQueue') :
            i \in 1..Len(ServerQueue) \/ ServerQueue'[i] = "TEST_END"
    BY <2>4
  <2>6. OneState("server") => OneState("server")'
    BY <2>4, <2>5 DEF OneState, ServerQueue
  <2>7. OnlyEnds => OnlyEnds'
    BY <2>2 DEF OnlyEnds
  <2>8. /\ CreateQueued' => CreateQueued
        /\ UNCHANGED <<SMain, arg, Starting, OwnStates>>
    BY <1>1, <2>2 DEF CreateQueued, Creating, SMain, Starting, OwnStates
  <2>9. ASSUME CreateQueued, NEW i \in 1..Len(ServerQueue'), NEW j \in 1..Len(ServerQueue'),
               ServerQueue'[i] = "IPERF_CREATE_STREAM", i < j
        PROVE  ServerQueue'[j] = "TEST_END"
    <3>1. i \in 1..Len(ServerQueue) /\ ServerQueue[i] = "IPERF_CREATE_STREAM"
      BY <2>4, <2>5, <2>9
    <3>2. j \in 1..Len(ServerQueue) => ServerQueue[j] = "TEST_END"
      BY <2>9, <3>1 DEF Share
    <3>3. QED
      BY <2>4, <2>5, <3>2
  <2>10. QED
    BY <2>6, <2>7, <2>8, <2>9 DEF Share
<1>4. QED
  BY <1>1, <1>2, <1>3 DEF Push, TypeOK, CtrlType

LEMMA ShareNext == TypeOK /\ Conversation /\ Share /\ [Next]_vars => Share'
<1> SUFFICES ASSUME TypeOK, Conversation, Share, [Next]_vars PROVE Share'
  OBVIOUS
<1>1. CASE Connect
  <2>1. /\ SMain = "accept" /\ SMain' = "push" /\ arg'["sMain"] = "IPERF_EXCHANGE_PARAMS"
        /\ UNCHANGED ctrlChan
    BY <1>1 DEF Connect, SMain, TypeOK, CtrlType
  <2>2. OnlyEnds /\ UNCHANGED <<OnlyEnds, OneState("server")>>
    BY <2>1 DEF Share, OnlyEnds, OneState, Queued
  <2>3. QED
    BY <2>1, <2>2, EndsShare DEF Share, Starting, CreateQueued, Creating
<1>2. CASE ServerMain \/ ServerCtrl
  BY <1>2, ShareMain, ShareCtrl
<1>3. CASE ClientMain \/ ClientCtrl
  BY <1>3, ClientLeavesServer, ShareStays, ShareGone DEF ServerView, ShareView, SMain
<1>4. CASE ClientCrash \/ ServerCrash
  BY <1>4, ShareGone DEF ClientCrash, ServerCrash, Exit
<1>5. ASSUME NEW n \in Session, ClientTimer(n) \/ ServerTimer(n) PROVE Share'
  BY <1>5, ShareStays DEF ClientTimer, ServerTimer, ShareView, SMain
<1>6. ASSUME NEW e \in End, Stream(e) PROVE Share'
  BY <1>6, ShareStream
<1>7. ASSUME NEW t \in Ticker, TickerStep(t) PROVE Share'
  <2>1. t[1] \in Side
    BY DEF Ticker
  <2>2. Gone(t[1]) \/ UNCHANGED ShareView
    BY <1>7 DEF TickerStep, Tick, StatsTickEnds, ReportTickEnds, Panic, ShareView, SMain, ctrlVars
  <2>3. QED
    BY <2>1, <2>2, ShareStays, ShareGone
<1>8. CASE Rest \/ UNCHANGED vars
  BY <1>8, ShareStays DEF Rest, vars, ShareView, SMain, ctrlVars
<1>9. QED
  BY <1>1, <1>2, <1>3, <1>4, <1>5, <1>6, <1>7, <1>8 DEF Next

LEMMA ShareInit == Init => Share
<1> SUFFICES ASSUME Init PROVE Share
  OBVIOUS
<1>1. SMain = "accept" /\ ctrlChan["server"] = <<>>
  BY DEF Init, SMain
<1>2. Len(ctrlChan["server"]) = 0
  BY <1>1
<1>3. QED
  BY <1>1, <1>2 DEF Share, OnlyEnds, Queued, Starting, CreateQueued, Creating

-----------------------------------------------------------------------------
\* The client's channel.  The handler puts IPERF_DONE there once when it gives up,
\* and more often only when the test is over and the main goroutine has said so.
GivesUp ==
    /\ \A x : Queued("client", x) => x \in {"TEST_RUNNING", "TEST_END", "IPERF_DONE"}
    /\ state["client"] # "IPERF_DONE" =>
           /\ Once("client", "IPERF_DONE")
           /\ CCtrl # "exited" => ~Queued("client", "IPERF_DONE")

LEMMA GivesUpStays ==
    /\ GivesUp /\ UNCHANGED ctrlChan["client"]
    /\ state'["client"] = "IPERF_DONE" \/ state["client"] # "IPERF_DONE"
    /\ CCtrl' = "exited" \/ CCtrl # "exited"
    => GivesUp'
  BY DEF GivesUp, Queued, Once

LEMMA GivesUpGone == \A s \in Side : TypeOK /\ GivesUp /\ Gone(s) => GivesUp'
<1> SUFFICES ASSUME NEW s \in Side, TypeOK, GivesUp, Gone(s) PROVE GivesUp'
  OBVIOUS
<1> USE DEF TypeOK, CtrlType, Gone
<1>1. UNCHANGED state
  OBVIOUS
<1>2. CASE s = "client"
  <2>1. ctrlChan'["client"] = <<>>
    BY <1>2
  <2>2. Len(ctrlChan'["client"]) = 0
    BY <2>1
  <2>3. QED
    BY <2>2 DEF GivesUp, Queued, Once
<1>3. CASE s = "server"
  <2>1. UNCHANGED ctrlChan["client"] /\ CCtrl' = CCtrl
    BY <1>3 DEF CCtrl
  <2>2. QED
    BY <1>1, <2>1, GivesUpStays
<1>4. QED
  BY <1>2, <1>3

\* A state that is taken out; one that is put there.
LEMMA GivesUpPops ==
    TypeOK /\ GivesUp /\ Pop("client") /\ UNCHANGED <<state, CCtrl>> => GivesUp'
  BY PopStep DEF GivesUp

LEMMA GivesUpPushes ==
    ASSUME TypeOK, GivesUp, NEW m \in {"TEST_RUNNING", "TEST_END"}, Push("client", m),
           UNCHANGED state, CCtrl' = "exited" \/ CCtrl # "exited"
    PROVE  GivesUp'
<1>1. m \in State /\ m # "IPERF_DONE"
  BY DEF State
<1>2. /\ \A x : Queued("client", x)' <=> Queued("client", x) \/ x = m
      /\ Once("client", "IPERF_DONE") => Once("client", "IPERF_DONE")'
  BY <1>1, PushStep
<1>3. QED
  BY <1>1, <1>2 DEF GivesUp

LEMMA GivesUpMain == TypeOK /\ Conversation /\ Course /\ GivesUp /\ ClientMain => GivesUp'
<1> SUFFICES ASSUME TypeOK, Conversation, Course, GivesUp, ClientMain, ~Gone("client") PROVE GivesUp'
  BY GivesUpGone
<1> USE DEF TypeOK, CtrlType, CMain, CCtrl
<1>1. CASE ClientStart \/ ClientContinue \/ ClientAllEnded
  <2>1. Pop("client") /\ UNCHANGED <<state, CCtrl>>
    BY <1>1 DEF ClientStart, ClientContinue, ClientAllEnded
  <2>2. QED
    BY <2>1, GivesUpPops
<1>2. CASE ClientSendsEnd
  <2>1. /\ UNCHANGED ctrlChan /\ CCtrl' = CCtrl
        /\ CMain = "stats" /\ state'["client"] = "TEST_END"
    BY <1>2 DEF ClientSendsEnd
  <2>2. state["client"] # "IPERF_DONE"
    BY <1>2 DEF ClientSendsEnd, Course
  <2>3. QED
    BY <2>1, <2>2, GivesUpStays
<1>3. CASE SendPush("cMain")
  <2>1. Push("client", "TEST_END") /\ UNCHANGED state /\ CCtrl' = CCtrl
    BY <1>3 DEF SendPush, Conversation, ClientPart
  <2>2. QED
    BY <2>1, GivesUpPushes
<1>4. CASE ClientEndWritten
  BY <1>4, GivesUpStays DEF ClientEndWritten
<1>5. QED
  BY <1>1, <1>2, <1>3, <1>4 DEF ClientMain, ClientEndNotWritten, ClientExit, Exit

LEMMA GivesUpCtrl == TypeOK /\ Conversation /\ GivesUp /\ ClientCtrl => GivesUp'
<1> SUFFICES ASSUME TypeOK, Conversation, GivesUp, ClientCtrl, ~Gone("client") PROVE GivesUp'
  BY GivesUpGone
<1> USE DEF TypeOK, CtrlType, CCtrl
<1>1. CASE ClientReads
  <2>1. state["client"] # "IPERF_DONE" /\ CCtrl = "read" /\ UNCHANGED ctrlChan
    BY <1>1 DEF ClientReads, Conversation, ClientPart
  <2>2. QED
    BY <2>1, GivesUpStays
<1>2. CASE \/ ClientReadFails \/ ClientSendParams \/ ClientSendResults \/ ClientGetResults
           \/ ClientResultsFail \/ ClientConnects \/ ClientConnectRefused \/ ClientInits
           \/ ClientClosesStreams \/ ClientSendsDone \/ ClientClosesCtrl
  <2>1. UNCHANGED <<ctrlChan, state>> /\ CCtrl # "exited"
    BY <1>2 DEF ClientReadFails, ClientSendParams, ClientSendResults, ClientGetResults,
                ClientResultsFail, ClientConnects, ClientConnectRefused, ClientInits,
                ClientClosesStreams, ClientSendsDone, ClientClosesCtrl, ClientSends
  <2>2. QED
    BY <2>1, GivesUpStays
<1>3. CASE ClientPushesRunning
  <2>1. Push("client", "TEST_RUNNING") /\ UNCHANGED state /\ CCtrl # "exited"
    BY <1>3 DEF ClientPushesRunning
  <2>2. QED
    BY <2>1, GivesUpPushes
<1>4. CASE ClientReports
  <2>1. UNCHANGED ctrlChan /\ state'["client"] = "IPERF_DONE" /\ CCtrl # "exited"
    BY <1>4 DEF ClientReports, Panic
  <2>2. QED
    BY <2>1, GivesUpStays
<1>5. CASE SendPush("cCtrl") \/ ClientPushesDone
  <2>1. Push("client", "IPERF_DONE") /\ UNCHANGED state /\ CCtrl # "exited"
    BY <1>5 DEF SendPush, ClientPushesDone, Conversation, ClientPart
  <2>2. \/ state["client"] = "IPERF_DONE"
        \/ CCtrl' = "exited"
    BY <1>5 DEF SendPush, ClientPushesDone, Conversation, ClientPart
  <2>3. /\ \A x : Queued("client", x)' <=> Queued("client", x) \/ x = "IPERF_DONE"
        /\ ~Queued("client", "IPERF_DONE") => Once("client", "IPERF_DONE")'
    BY <2>1, PushStep DEF State
  <2>4. QED
    BY <2>1, <2>2, <2>3 DEF GivesUp
<1>6. QED
  BY <1>1, <1>2, <1>3, <1>4, <1>5 DEF ClientCtrl

LEMMA GivesUpNext ==
    TypeOK /\ Conversation /\ Course /\ GivesUp /\ [Next]_vars => GivesUp'
<1> SUFFICES ASSUME TypeOK, Conversation, Course, GivesUp, [Next]_vars PROVE GivesUp'
  OBVIOUS
<1> USE DEF CCtrl
<1>1. CASE Connect
  <2>1. ctrlChan'["client"] = <<>>
    BY <1>1 DEF Connect, Conversation, ClientPart, CMain
  <2>2. Len(ctrlChan'["client"]) = 0
    BY <2>1
  <2>3. QED
    BY <2>2 DEF GivesUp, Queued, Once
<1>2. CASE ClientMain \/ ClientCtrl
  BY <1>2, GivesUpMain, GivesUpCtrl
<1>3. CASE ServerMain \/ ServerCtrl
  BY <1>3, ServerLocal, GivesUpStays, GivesUpGone DEF ClientView
<1>4. CASE ClientCrash \/ ServerCrash
  BY <1>4, GivesUpGone DEF ClientCrash, ServerCrash, Exit
<1>5. ASSUME NEW n \in Session, ClientTimer(n) \/ ServerTimer(n) PROVE GivesUp'
  BY <1>5, GivesUpStays DEF ClientTimer, ServerTimer
<1>6. ASSUME NEW e \in End, Stream(e) PROVE GivesUp'
  <2>1. /\ UNCHANGED <<state, pc>> /\ e[1] \in Side
        /\ UNCHANGED ctrlChan \/ Push(e[1], "TEST_END")
    BY <1>6 DEF Stream, StreamSends, StreamReceives, StreamFails, StreamEnds, Turn, Quit, ctrlVars,
                End
  <2>2. CASE UNCHANGED ctrlChan["client"]
    BY <2>1, <2>2, GivesUpStays
  <2>3. CASE Push("client", "TEST_END")
    BY <2>1, <2>3, GivesUpPushes
  <2>4. QED
    BY <2>1, <2>2, <2>3 DEF Push, TypeOK, CtrlType
<1>7. ASSUME NEW t \in Ticker, TickerStep(t) PROVE GivesUp'
  <2>1. t[1] \in Side
    BY DEF Ticker
  <2>2. Gone(t[1]) \/ UNCHANGED ctrlVars
    BY <1>7 DEF TickerStep, Tick, StatsTickEnds, ReportTickEnds, Panic
  <2>3. QED
    BY <2>1, <2>2, GivesUpStays, GivesUpGone DEF ctrlVars
<1>8. CASE Rest \/ UNCHANGED vars
  BY <1>8, GivesUpStays DEF Rest, vars, ctrlVars
<1>9. QED
  BY <1>1, <1>2, <1>3, <1>4, <1>5, <1>6, <1>7, <1>8 DEF Next

LEMMA GivesUpInit == Init => GivesUp
<1> SUFFICES ASSUME Init PROVE GivesUp
  OBVIOUS
<1>1. ctrlChan["client"] = <<>>
  BY DEF Init
<1>2. Len(ctrlChan["client"]) = 0
  BY <1>1
<1>3. QED
  BY <1>2 DEF GivesUp, Queued, Once

-----------------------------------------------------------------------------
\* What each main goroutine finds in its channel when it is about to fill it.
LEMMA ServerFindsRoom ==
    TypeOK /\ Room /\ Share /\ SMain = "push" =>
        OneState("server") /\ Len(ctrlChan["server"]) <= NumStreams * (session - 1) + 1
<1> SUFFICES ASSUME TypeOK, Room, Share, SMain = "push"
             PROVE  /\ OneState("server")
                    /\ Len(ctrlChan["server"]) <= NumStreams * (session - 1) + 1
  OBVIOUS
<1>1. Load <= NumStreams * (session - 1) + OwnStates /\ OwnStates \in 0..1
  BY DEF Room, Starting, OwnStates
<1>2. NumStreams * (session - 1) \in Int
  BY LoadTypes
<1>3. Len(ServerQueue) <= Load /\ Load \in Nat /\ Len(ServerQueue) \in Nat
  BY LoadTypes DEF Load
<1>4. Len(ServerQueue) <= NumStreams * (session - 1) + 1
  BY <1>1, <1>2, <1>3
<1>5. QED
  BY <1>4 DEF Share, Starting, ServerQueue

LEMMA ClientFindsRoom ==
    TypeOK /\ Conversation /\ Counting /\ LastEnd /\ GivesUp /\ CMain = "push" =>
        OneState("client") /\ Len(ctrlChan["client"]) <= 1
<1> SUFFICES ASSUME TypeOK, Conversation, Counting, LastEnd, GivesUp, CMain = "push"
             PROVE  OneState("client") /\ Len(ctrlChan["client"]) <= 1
  OBVIOUS
<1> DEFINE q == ctrlChan["client"]
<1>1. state["client"] = "TEST_END" /\ ends = NumStreams /\ ~Queued("client", "TEST_END")
  BY DEF Conversation, ClientPart, LastEnd
<1>2. ~Queued("client", "TEST_RUNNING")
  BY <1>1 DEF Counting
<1>3. /\ Len(q) \in Nat /\ DOMAIN q = 1..Len(q)
      /\ \A i \in 1..Len(q) : q[i] = "IPERF_DONE"
  <2>1. \A i \in 1..Len(q) : Queued("client", q[i])
    BY DEF Queued
  <2>2. \A x : Queued("client", x) => x = "IPERF_DONE"
    BY <1>1, <1>2 DEF GivesUp
  <2>3. q \in Seq(State)
    BY DEF TypeOK, CtrlType
  <2>4. QED
    BY <2>1, <2>2, <2>3
<1>4. \A i, j \in 1..Len(q) : i = j
  BY <1>1, <1>3 DEF GivesUp, Once
<1>5. ~(Len(q) > 1)
  <2>1. Len(q) > 1 => 1 \in 1..Len(q) /\ 2 \in 1..Len(q)
    BY <1>3
  <2>2. QED
    BY <1>4, <2>1
<1>6. QED
  BY <1>3, <1>4, <1>5 DEF OneState

\* Of what is in ctrlChan when the goroutine that empties it is about to fill it, at
\* most one is a state of this session; the rest of a server's are the TEST_ENDs of
\* its earlier sessions, one for each of their streams at most.  This for any number
\* of streams and sessions and any capacity: whether the goroutine then waits for
\* itself is a sum.
THEOREM OwnRoom == Spec => []OwnShare
<1>1. Init => Room /\ Share /\ GivesUp /\ Course /\ LastEnd
  BY RoomInit, ShareInit, GivesUpInit, CourseInit
<1>2. /\ TypeOK /\ Conversation /\ Counting /\ Room /\ Share /\ GivesUp /\ Course /\ LastEnd
      /\ [Next]_vars
      => Room' /\ Share' /\ GivesUp' /\ Course' /\ LastEnd'
  BY RoomNext, ShareNext, GivesUpNext, CourseNext
<1>3. TypeOK /\ Conversation /\ Counting /\ Room /\ Share /\ GivesUp /\ LastEnd => OwnShare
  BY ServerFindsRoom, ClientFindsRoom DEF OwnShare, SMain, CMain
<1>4. QED
  BY <1>1, <1>2, <1>3, TypeCorrect, Converses, EndsCounted, PTL DEF Spec

-----------------------------------------------------------------------------
\* The reports of the server.  Its statistics, like the client's, come from the
\* tickers and from the handler; unlike the client it serves session after session
\* with one chStats.
ServerUntimed ==
    /\ chStats["server"] = 0
    /\ \A t \in Ticker : t[1] = "server" => left[t] = 0 /\ t \notin busy
ServerPending ==
    \/ chStats["server"] > 0
    \/ \E t \in Ticker : t[1] = "server" /\ t[2] = "stats" /\ t \in busy

\* The server takes its first client, up to the timers of the test; up to there it
\* has bound no port, up to there no handler has sampled its streams.
Taking ==
    \/ SMain = "accept" /\ session = 0
    \/ SMain \in {"getParams", "listen", "acceptStreams", "init"} \/ Creating
    \/ SMain \in {"push", "write"} /\ arg["sMain"] # "TEST_RUNNING"
Unbound ==
    \/ SMain = "accept" /\ session = 0
    \/ SMain \in {"getParams", "listen"}
    \/ SMain \in {"push", "write"} /\ arg["sMain"] = "IPERF_EXCHANGE_PARAMS"
Reporting == SCtrl \in {"stats", "push", "write", "getResults", "sendResults", "report"}

\* The handler has sampled every stream before its last report; for a server of
\* one session every token stands for results of every stream.
ServerSampled ==
    /\ MaxTicks = 0 => busy = {}
    /\ Reporting => Streams("server") \subseteq sampled
    /\ SMain \notin {"accept", "exited"} => session # 0
    /\ MaxSessions = 1 =>
           /\ Taking => ServerUntimed
           /\ Unbound => ~protoOpen
           /\ ServerPending => Streams("server") \subseteq sampled

LEMMA ServerSampledStays ==
    ASSUME ServerSampled, sampled \subseteq sampled', busy' \subseteq busy,
           UNCHANGED <<session, nstreams["server"], chStats["server"], protoOpen>>,
           \A t \in Ticker : t[1] = "server" => TickerSame(t),
           SMain' \notin {"accept", "exited"} => SMain \notin {"accept", "exited"},
           Taking' => Taking, Unbound' => Unbound, Reporting' => Reporting
    PROVE  ServerSampled'
<1>1. Streams("server")' = Streams("server")
  BY DEF Streams
<1>2. (ServerUntimed => ServerUntimed') /\ (ServerPending' => ServerPending)
  BY DEF ServerUntimed, ServerPending, TickerSame
<1>3. QED
  BY <1>1, <1>2 DEF ServerSampled

LEMMA ServerSampledGone == \A s \in Side : TypeOK /\ ServerSampled /\ Gone(s) => ServerSampled'
<1> SUFFICES ASSUME NEW s \in Side, TypeOK, ServerSampled, Gone(s) PROVE ServerSampled'
  OBVIOUS
<1> USE DEF TypeOK, CtrlType, StatType
<1>1. CASE s = "client"
  <2>1. /\ UNCHANGED <<sampled, session, nstreams, chStats["server"], SMain, SCtrl>>
        /\ UNCHANGED <<arg, ctrlChan["server"], protoOpen>>
        /\ busy' \subseteq busy
    BY <1>1 DEF Gone, SMain, SCtrl, TestType
  <2>2. \A t \in Ticker : t[1] = "server" => TickerSame(t)
    BY <1>1 DEF Gone, TickerSame
  <2>3. (Taking' => Taking) /\ (Unbound' => Unbound) /\ (Reporting' => Reporting)
    BY <2>1 DEF Taking, Unbound, Reporting, Creating, Queued
  <2>4. QED
    BY <2>1, <2>2, <2>3, ServerSampledStays
<1>2. CASE s = "server"
  <2>1. SMain' = "exited" /\ SCtrl' = "exited" /\ chStats'["server"] = 0 /\ busy' \subseteq busy
    BY <1>2 DEF Gone, SMain, SCtrl
  <2>2. \A t \in Ticker : t[1] = "server" => t \notin busy'
    BY <1>2 DEF Gone
  <2>3. ~Taking' /\ ~Unbound' /\ ~Reporting' /\ ~ServerPending'
    BY <2>1, <2>2 DEF Taking, Unbound, Reporting, Creating, ServerPending
  <2>4. QED
    BY <2>1, <2>3 DEF ServerSampled
<1>3. QED
  BY <1>1, <1>2

\* The setting up of a session goes one way.
LEMMA TakingMain ==
    TypeOK /\ Conversation /\ ServerMain /\ ~Gone("server") /\ session # 0 =>
        /\ Taking' => Taking
        /\ Unbound' => Unbound
        /\ SMain' # "exited"
<1> SUFFICES ASSUME TypeOK, Conversation, ServerMain, ~Gone("server"), session # 0
             PROVE  (Taking' => Taking) /\ (Unbound' => Unbound) /\ SMain' # "exited"
  OBVIOUS
<1> USE DEF TypeOK, CtrlType, SMain, Taking, Unbound
<1>1. CASE ServerResets
  BY <1>1 DEF ServerResets, testVars, Creating
<1>2. CASE ServerGetsParams \/ ServerListens \/ ServerAccepts \/ ServerInits
  BY <1>2 DEF ServerGetsParams, ServerListens, ServerAccepts, ServerInits, Creating
<1>3. CASE SendPush("sMain")
  BY <1>3 DEF SendPush, Creating
<1>4. CASE ServerWritten("sMain")
  <2>1. /\ SMain = "write" /\ SMain' = AfterSend(arg["sMain"]) /\ UNCHANGED <<arg, ctrlChan>>
    BY <1>4 DEF ServerWritten
  <2>2. Creating' => arg["sMain"] = "IPERF_CREATE_STREAM"
    BY <2>1 DEF Creating, Queued, Conversation, ServerPart
  <2>3. QED
    BY <2>1, <2>2 DEF AfterSend, Conversation, ServerPart
<1>5. CASE ServerPops
  <2>1. /\ SMain = "loop" /\ SMain' = ServerOn(Head(ctrlChan["server"])) /\ Pop("server")
    BY <1>5 DEF ServerPops
  <2>2. /\ Queued("server", Head(ctrlChan["server"]))
        /\ \A x : Queued("server", x)' => Queued("server", x)
    BY <2>1, PopStep
  <2>3. QED
    BY <2>1, <2>2 DEF ServerOn, Creating
<1>6. CASE ServerParamsFail \/ ServerListenFails \/ ServerNotWritten("sMain") \/ ServerCtrlDone
  <2>1. SMain' \in {"waitCtrl", "waitReset", "reset"}
    BY <1>6 DEF ServerParamsFail, ServerListenFails, ServerNotWritten, ServerCtrlDone, Panic,
                AfterSendFailed
  <2>2. QED
    BY <2>1 DEF Creating
<1>7. QED
  BY <1>1, <1>2, <1>3, <1>4, <1>5, <1>6 DEF ServerMain

LEMMA ServerSampledMain ==
    TypeOK /\ Conversation /\ ServerSampled /\ ServerMain => ServerSampled'
<1> SUFFICES ASSUME TypeOK, Conversation, ServerSampled, ServerMain, ~Gone("server")
             PROVE  ServerSampled'
  BY ServerSampledGone
<1> USE DEF TypeOK, CtrlType, SMain, SCtrl
<1>1. /\ SMain \notin {"accept", "exited"} /\ UNCHANGED <<session, sampled, chStats, busy>>
      /\ SCtrl' \in {SCtrl, "read"}
  BY DEF ServerMain, ServerResets, ServerGetsParams, ServerParamsFail, ServerListens,
         ServerListenFails, ServerPops, ServerAccepts, ServerInits, SendPush, ServerWritten,
         ServerNotWritten, ServerCtrlDone, Panic, CreateTimer, statVars, timeVars, testVars
<1>2. (Taking' => Taking) /\ (Unbound' => Unbound) /\ (Reporting' => Reporting)
  <2>1. session # 0
    BY <1>1 DEF ServerSampled
  <2>2. QED
    BY <1>1, <2>1, TakingMain DEF Reporting
<1>3. CASE ServerResets
  <2>1. SMain = "reset" /\ SMain' = "accept" /\ UNCHANGED <<SCtrl, protoOpen>>
    BY <1>3 DEF ServerResets, testVars
  <2>2. Streams("server")' = {}
    BY <1>3 DEF ServerResets, Streams, DataType, End, Index
  <2>3. ~Taking' /\ ~Unbound' /\ ~Reporting'
    BY <1>1, <1>3, <2>1
       DEF ServerResets, Taking, Unbound, Creating, Reporting, ServerSampled, Conversation,
           HandlerInv, NoHandlerYet, BetweenSessions
  <2>4. QED
    BY <1>1, <2>1, <2>2, <2>3 DEF ServerSampled
<1>4. CASE ServerAccepts
  <2>1. SMain = "acceptStreams" /\ UNCHANGED <<left, SCtrl, protoOpen>>
    BY <1>4 DEF ServerAccepts, timeVars, testVars
  <2>2. Taking /\ ~Reporting
    BY <2>1 DEF Taking, Reporting, Conversation, ServerPart, MainLeads
  <2>3. ServerUntimed => ServerUntimed' /\ ~ServerPending'
    BY <1>1, <2>1 DEF ServerUntimed, ServerPending, StatType
  <2>4. QED
    BY <1>1, <1>2, <2>1, <2>2, <2>3 DEF ServerSampled
<1>5. CASE ServerListens
  <2>1. SMain' = "push" /\ arg'["sMain"] = "IPERF_CREATE_STREAM" /\ UNCHANGED <<nstreams, left>>
    BY <1>5 DEF ServerListens, dataVars, timeVars
  <2>2. ~Unbound'
    BY <2>1 DEF Unbound
  <2>3. UNCHANGED Streams("server") /\ (ServerUntimed => ServerUntimed')
        /\ (ServerPending' => ServerPending)
    BY <1>1, <2>1 DEF Streams, ServerUntimed, ServerPending
  <2>4. QED
    BY <1>1, <1>2, <2>2, <2>3 DEF ServerSampled
<1>6. CASE ServerInits
  <2>1. SMain' = "push" /\ arg'["sMain"] = "TEST_RUNNING" /\ UNCHANGED <<nstreams, protoOpen>>
    BY <1>6 DEF ServerInits, dataVars, testVars
  <2>2. ~Taking'
    BY <2>1 DEF Taking, Creating
  <2>3. UNCHANGED Streams("server") /\ (ServerPending' => ServerPending)
    BY <1>1, <2>1 DEF Streams, ServerPending
  <2>4. QED
    BY <1>1, <1>2, <2>1, <2>2, <2>3 DEF ServerSampled
<1>7. CASE ServerCtrlDone
  <2>1. SMain' = "reset" /\ UNCHANGED <<nstreams, left>>
    BY <1>7 DEF ServerCtrlDone, dataVars, timeVars
  <2>2. ~Taking' /\ ~Unbound'
    BY <2>1 DEF Taking, Unbound, Creating
  <2>3. UNCHANGED Streams("server") /\ (ServerPending' => ServerPending)
    BY <1>1, <2>1 DEF Streams, ServerPending
  <2>4. QED
    BY <1>1, <1>2, <2>2, <2>3 DEF ServerSampled
<1>8. CASE \/ ServerGetsParams \/ ServerParamsFail \/ ServerListenFails \/ ServerPops
           \/ SendPush("sMain") \/ ServerWritten("sMain") \/ ServerNotWritten("sMain")
  <2>1. UNCHANGED <<nstreams, left, protoOpen>>
    BY <1>8 DEF ServerGetsParams, ServerParamsFail, ServerListenFails, ServerPops, SendPush,
                ServerWritten, ServerNotWritten, Panic, dataVars, timeVars, testVars
  <2>2. QED
    BY <1>1, <1>2, <2>1, ServerSampledStays DEF TickerSame
<1>9. QED
  BY <1>3, <1>4, <1>5, <1>6, <1>7, <1>8 DEF ServerMain

LEMMA ServerSampledCtrl ==
    TypeOK /\ Conversation /\ ServerSampled /\ ServerCtrl => ServerSampled'
<1> SUFFICES ASSUME TypeOK, Conversation, ServerSampled, ServerCtrl, ~Gone("server")
             PROVE  ServerSampled'
  BY ServerSampledGone
<1> USE DEF TypeOK, CtrlType, SMain, SCtrl
<1>1. /\ SMain' = SMain /\ UNCHANGED <<session, nstreams, arg["sMain"], protoOpen, busy>>
      /\ sampled \subseteq sampled'
      /\ \A t \in Ticker : t[1] = "server" /\ left[t] = 0 => left'[t] = 0
  BY DEF ServerCtrl, ServerReadsEnd, ServerReadsOther, ServerClosesStreams, ServerGetsResults,
         ServerSendsResults, ServerReports, SendPush, ServerWritten, ServerNotWritten,
         ServerHandlerFails, ServerHandlerReturns, Panic, Sample, statVars, dataVars, timeVars,
         testVars
<1>2. Creating' => Creating
  <2>1. CASE SendPush("sCtrl") \/ ServerHandlerReturns
    <3>1. PICK m \in State : m # "IPERF_CREATE_STREAM" /\ Push("server", m)
      BY <2>1 DEF SendPush, ServerHandlerReturns, Conversation, ServerPart, State
    <3>2. QED
      BY <1>1, <3>1, PushStep DEF Creating
  <2>2. CASE ~(SendPush("sCtrl") \/ ServerHandlerReturns)
    <3>1. UNCHANGED ctrlChan
      BY <2>2 DEF ServerCtrl, ServerReadsEnd, ServerReadsOther, ServerClosesStreams,
                  ServerGetsResults, ServerSendsResults, ServerReports, ServerWritten,
                  ServerNotWritten, ServerHandlerFails, Panic
    <3>2. QED
      BY <1>1, <3>1 DEF Creating, Queued
  <2>3. QED
    BY <2>1, <2>2
<1>3. (Taking' => Taking) /\ (Unbound' => Unbound) /\ UNCHANGED Streams("server")
  BY <1>1, <1>2 DEF Taking, Unbound, Streams
<1>4. CASE ServerReadsEnd
  <2>1. UNCHANGED chStats /\ sampled' = sampled \cup Streams("server")
    BY <1>4 DEF ServerReadsEnd, Sample
  <2>2. ServerUntimed => ServerUntimed'
    BY <1>1, <2>1 DEF ServerUntimed
  <2>3. QED
    BY <1>1, <1>3, <2>1, <2>2 DEF ServerSampled
<1>5. CASE ServerClosesStreams
  <2>1. SCtrl = "stats"
    BY <1>5 DEF ServerClosesStreams
  <2>2. Reporting /\ SMain # "accept" /\ ~Taking
    BY <2>1 DEF Reporting, Taking, Conversation, ServerPart, MainLeads
  <2>3. QED
    BY <1>1, <1>3, <2>2 DEF ServerSampled
<1>6. CASE ~(ServerReadsEnd \/ ServerClosesStreams)
  <2>1. chStats["server"] \in Nat
    BY DEF StatType
  <2>2. chStats'["server"] > 0 => chStats["server"] > 0
    BY <1>6, <2>1 DEF ServerCtrl, ServerReadsOther, ServerGetsResults,
                ServerSendsResults, ServerReports, SendPush, ServerWritten, ServerNotWritten,
                ServerHandlerFails, ServerHandlerReturns, Panic, TakeToken, statVars, StatType
  <2>3. chStats["server"] = 0 => chStats'["server"] = 0
    BY <1>6, <2>1 DEF ServerCtrl, ServerReadsOther, ServerGetsResults,
                ServerSendsResults, ServerReports, SendPush, ServerWritten, ServerNotWritten,
                ServerHandlerFails, ServerHandlerReturns, Panic, TakeToken, CanReport, statVars,
                StatType
  <2>4. Reporting' => Reporting
    BY <1>6 DEF ServerCtrl, ServerReadsOther, ServerGetsResults, ServerSendsResults,
                ServerReports, SendPush, ServerWritten, ServerNotWritten, ServerHandlerFails,
                ServerHandlerReturns, Panic, Reporting, ServerHandles
  <2>5. (ServerUntimed => ServerUntimed') /\ (ServerPending' => ServerPending)
    BY <1>1, <2>2, <2>3 DEF ServerUntimed, ServerPending
  <2>6. QED
    BY <1>1, <1>3, <2>4, <2>5 DEF ServerSampled
<1>7. QED
  BY <1>4, <1>5, <1>6

LEMMA ServerSampledTicker ==
    \A t \in Ticker : TypeOK /\ ServerSampled /\ TickerStep(t) => ServerSampled'
<1> SUFFICES ASSUME NEW t \in Ticker, TypeOK, ServerSampled, TickerStep(t),
                    ~Gone("client"), ~Gone("server")
             PROVE  ServerSampled'
  BY ServerSampledGone DEF Ticker
<1> USE DEF TypeOK, CtrlType, StatType, TimeType, SMain, SCtrl
<1>1. t[1] \in Side /\ ~Gone(t[1])
  BY DEF Ticker
<1>2. /\ UNCHANGED <<pc, arg, ctrlChan, session, nstreams, protoOpen>>
      /\ sampled \subseteq sampled' /\ UNCHANGED Streams("server")
  BY <1>1 DEF TickerStep, Tick, StatsTickEnds, ReportTickEnds, Panic, Sample, ctrlVars, dataVars,
              testVars, Streams
<1>3. (Taking' => Taking) /\ (Unbound' => Unbound) /\ (Reporting' => Reporting)
  BY <1>2 DEF Taking, Unbound, Reporting, Creating, Queued
<1>4. MaxTicks = 0 /\ busy = {} => FALSE
  BY <1>1 DEF TickerStep, Tick, StatsTickEnds, ReportTickEnds
<1>5. CASE t[1] = "client"
  <2>1. UNCHANGED chStats["server"] /\ \A u \in Ticker : u[1] = "server" => TickerSame(u)
    BY <1>1, <1>5 DEF TickerStep, Tick, StatsTickEnds, ReportTickEnds, Panic, PutToken, TakeToken,
                      TickerSame
  <2>2. (ServerUntimed => ServerUntimed') /\ (ServerPending' => ServerPending)
    BY <2>1 DEF ServerUntimed, ServerPending, TickerSame
  <2>3. QED
    BY <1>2, <1>3, <1>4, <2>2 DEF ServerSampled
<1>6. CASE t[1] = "server"
  <2>1. ~ServerUntimed
    BY <1>6 DEF TickerStep, Tick, StatsTickEnds, ReportTickEnds, ServerUntimed
  <2>2. \/ Streams("server") \subseteq sampled'
        \/ /\ chStats'["server"] > 0 => chStats["server"] > 0
           /\ \A u \in Ticker : u[2] = "stats" /\ u \in busy' => u \in busy
        \/ ServerPending
    <3>1. CASE Tick(t)
      BY <1>6, <3>1 DEF Tick, Sample
    <3>2. CASE StatsTickEnds(t)
      BY <1>6, <3>2 DEF StatsTickEnds, ServerPending
    <3>3. CASE ReportTickEnds(t)
      BY <1>1, <1>6, <3>3 DEF ReportTickEnds, Panic, TakeToken, CanReport
    <3>4. QED
      BY <3>1, <3>2, <3>3 DEF TickerStep
  <2>3. MaxSessions = 1 /\ ServerPending' => Streams("server") \subseteq sampled'
    BY <1>2, <2>2 DEF ServerPending, ServerSampled
  <2>4. QED
    BY <1>2, <1>3, <1>4, <2>1, <2>3 DEF ServerSampled
<1>7. QED
  BY <1>1, <1>5, <1>6

LEMMA ServerSampledNext ==
    TypeOK /\ Conversation /\ ServerSampled /\ [Next]_vars => ServerSampled'
<1> SUFFICES ASSUME TypeOK, Conversation, ServerSampled, [Next]_vars PROVE ServerSampled'
  OBVIOUS
<1> USE DEF TypeOK, CtrlType, SMain, SCtrl
<1>1. CASE Connect
  <2>1. /\ SMain = "accept" /\ SCtrl' = SCtrl /\ session < MaxSessions /\ session' = session + 1
        /\ UNCHANGED <<chStats, left, busy, protoOpen>>
    BY <1>1 DEF Connect, statVars, timeVars
  <2>2. ~Reporting' /\ session' # 0
    BY <2>1 DEF Reporting, Conversation, HandlerInv, NoHandlerYet, BetweenSessions, TestType
  <2>3. MaxSessions = 1 => session = 0 /\ ServerUntimed /\ ~protoOpen
    BY <2>1 DEF ServerSampled, Taking, Unbound, TestType
  <2>4. MaxSessions = 1 => ServerUntimed' /\ ~ServerPending' /\ ~protoOpen'
    BY <2>1, <2>3 DEF ServerUntimed, ServerPending
  <2>5. QED
    BY <2>1, <2>2, <2>4 DEF ServerSampled
<1>2. CASE ClientMain \/ ClientCtrl
  <2> SUFFICES ASSUME ~Gone("client") PROVE ServerSampled'
    BY ServerSampledGone
  <2>1. UNCHANGED ServerView /\ UNCHANGED protoOpen
    BY <1>2, ClientLeavesServer
  <2>2. /\ UNCHANGED <<session, nstreams["server"], chStats["server"], busy>>
        /\ sampled \subseteq sampled'
        /\ \A t \in Ticker : t[1] = "server" => TickerSame(t)
    BY <1>2 DEF ClientMain, ClientStart, ClientContinue, ClientAllEnded, ClientSendsEnd, SendPush,
                ClientEndWritten, ClientEndNotWritten, ClientExit, ClientCtrl, ClientReads,
                ClientReadFails, ClientSendParams, ClientSendResults, ClientGetResults,
                ClientResultsFail, ClientConnects, ClientConnectRefused, ClientInits,
                ClientPushesRunning, ClientClosesStreams, ClientReports, ClientSendsDone,
                ClientClosesCtrl, ClientPushesDone, ClientSends, Exit, Panic, PutToken, TakeToken,
                Sample, CreateTimer, TickerSame, StatType, DataType, TimeType, statVars, dataVars,
                timeVars, testVars
  <2>3. (Taking' => Taking) /\ (Unbound' => Unbound) /\ (Reporting' => Reporting)
    BY <2>1, <2>2 DEF ServerView, Taking, Unbound, Reporting, Creating, Queued
  <2>4. QED
    BY <2>1, <2>2, <2>3, ServerSampledStays DEF ServerView
<1>3. CASE ServerMain \/ ServerCtrl
  BY <1>3, ServerSampledMain, ServerSampledCtrl
<1>4. CASE ClientCrash \/ ServerCrash
  BY <1>4, ServerSampledGone DEF ClientCrash, ServerCrash, Exit
<1>5. ASSUME NEW n \in Session, ClientTimer(n) \/ ServerTimer(n) PROVE ServerSampled'
  <2>1. /\ UNCHANGED <<pc, arg, ctrlChan, sampled, session, nstreams, chStats, protoOpen>>
        /\ UNCHANGED <<left, busy>>
    BY <1>5 DEF ClientTimer, ServerTimer, statVars, dataVars, testVars
  <2>2. (Taking' => Taking) /\ (Unbound' => Unbound) /\ (Reporting' => Reporting)
    BY <2>1 DEF Taking, Unbound, Reporting, Creating, Queued
  <2>3. QED
    BY <2>1, <2>2, ServerSampledStays DEF TickerSame
<1>6. ASSUME NEW e \in End, Stream(e) PROVE ServerSampled'
  <2>1. UNCHANGED <<pc, arg, sampled, session, nstreams, chStats, protoOpen, left, busy>>
    BY <1>6 DEF Stream, StreamSends, StreamReceives, StreamFails, StreamEnds, Turn, Quit,
                ctrlVars, statVars, timeVars, testVars
  <2>2. UNCHANGED ctrlChan \/ Push("client", "TEST_END") \/ Push("server", "TEST_END")
    BY <1>6 DEF Stream, StreamSends, StreamReceives, StreamFails, StreamEnds, Turn, Quit,
                ctrlVars, End
  <2>3. Creating' => Creating
    BY <2>1, <2>2, PushStep DEF Creating, Queued, State
  <2>4. (Taking' => Taking) /\ (Unbound' => Unbound) /\ (Reporting' => Reporting)
    BY <2>1, <2>3 DEF Taking, Unbound, Reporting
  <2>5. QED
    BY <2>1, <2>4, ServerSampledStays DEF TickerSame
<1>7. ASSUME NEW t \in Ticker, TickerStep(t) PROVE ServerSampled'
  BY <1>7, ServerSampledTicker
<1>8. CASE Rest \/ UNCHANGED vars
  <2>1. /\ UNCHANGED <<pc, arg, ctrlChan, sampled, session, nstreams, chStats, protoOpen>>
        /\ UNCHANGED <<left, busy>>
    BY <1>8 DEF Rest, vars, ctrlVars, statVars, dataVars, timeVars, testVars
  <2>2. (Taking' => Taking) /\ (Unbound' => Unbound) /\ (Reporting' => Reporting)
    BY <2>1 DEF Taking, Unbound, Reporting, Creating, Queued
  <2>3. QED
    BY <2>1, <2>2, ServerSampledStays DEF TickerSame
<1>9. QED
  BY <1>1, <1>2, <1>3, <1>4, <1>5, <1>6, <1>7, <1>8 DEF Next

LEMMA ServerSampledInit == Init => ServerSampled
<1> SUFFICES ASSUME Init PROVE ServerSampled
  OBVIOUS
<1>1. /\ SMain = "accept" /\ SCtrl = "exited" /\ chStats["server"] = 0 /\ busy = {}
      /\ \A t \in Ticker : left[t] = 0
      /\ ~protoOpen
  BY DEF Init, SMain, SCtrl
<1>2. ~Reporting /\ ~ServerPending /\ ServerUntimed
  BY <1>1 DEF Reporting, ServerPending, ServerUntimed
<1>3. QED
  BY <1>1, <1>2 DEF ServerSampled

-----------------------------------------------------------------------------
\* The reports of the server find results: one client, or no ticker to race its
\* handler.  A listen that fails finds its error, or the port is free.
ReportsServed == MaxSessions = 1 \/ MaxTicks = 0
ListensSafely == SMain = "listen" /\ protoOpen => Proto # "kcp"

\* No report of the server, and no listen, has ended its process.
ServerUnharmed == "server" \notin panicked

LEMMA ServerKept ==
    TypeOK /\ ServerSampled /\ ReportsServed /\ ListensSafely /\ [Next]_vars /\ ServerUnharmed
        => ServerUnharmed'
<1> SUFFICES ASSUME TypeOK, ServerSampled, ReportsServed, ListensSafely, [Next]_vars,
                    "server" \notin panicked
             PROVE  "server" \notin panicked'
  BY DEF ServerUnharmed
<1> USE DEF testVars, Exit, Panic, SMain, SCtrl
<1>1. CASE ServerMain
  <2>1. CASE ServerListenFails
    <3>1. Proto # "kcp"
      BY <2>1 DEF ServerListenFails, ListensSafely
    <3>2. QED
      BY <2>1, <3>1 DEF ServerListenFails
  <2>2. QED
    BY <1>1, <2>1
       DEF ServerMain, ServerResets, ServerGetsParams, ServerParamsFail, ServerListens, ServerPops,
           ServerAccepts, ServerInits, SendPush, ServerWritten, ServerNotWritten, ServerCtrlDone
<1>2. CASE ServerCtrl
  <2>1. CASE ServerReports
    <3>1. ~PrintPanics("server")
      BY <2>1 DEF ServerReports, ServerSampled, Reporting, PrintPanics
    <3>2. QED
      BY <2>1, <3>1 DEF ServerReports
  <2>2. QED
    BY <1>2, <2>1
       DEF ServerCtrl, ServerReadsEnd, ServerReadsOther, ServerClosesStreams, ServerGetsResults,
           ServerSendsResults, SendPush, ServerWritten, ServerNotWritten, ServerHandlerFails,
           ServerHandlerReturns
<1>3. CASE ClientMain \/ ClientCtrl
  BY <1>3 DEF ClientMain, ClientStart, ClientContinue, ClientAllEnded, ClientSendsEnd, SendPush,
              ClientEndWritten, ClientEndNotWritten, ClientExit, ClientCtrl, ClientReads,
              ClientReadFails, ClientSendParams, ClientSendResults, ClientGetResults,
              ClientResultsFail, ClientConnects, ClientConnectRefused, ClientInits,
              ClientPushesRunning, ClientClosesStreams, ClientReports, ClientSendsDone,
              ClientClosesCtrl, ClientPushesDone, ClientSends
<1>4. ASSUME NEW t \in Ticker, TickerStep(t) PROVE "server" \notin panicked'
  <2>1. CASE t[1] = "server" /\ ReportTickEnds(t)
    <3>1. t \in busy /\ CanReport("server")
      BY <2>1 DEF ReportTickEnds
    <3>2. ~PrintPanics("server")
      BY <3>1 DEF ServerSampled, ReportsServed, ServerPending, CanReport, PrintPanics
    <3>3. QED
      BY <2>1, <3>2 DEF ReportTickEnds
  <2>2. QED
    BY <1>4, <2>1 DEF TickerStep, Tick, StatsTickEnds, ReportTickEnds, Ticker
<1>5. CASE \/ \E n \in Session : ClientTimer(n) \/ ServerTimer(n)
           \/ \E e \in End : Stream(e)
  BY <1>5 DEF ClientTimer, ServerTimer, Stream, StreamSends, StreamReceives, StreamFails,
              StreamEnds, Turn, Quit
<1>6. CASE Connect \/ ClientCrash \/ ServerCrash \/ Rest \/ UNCHANGED vars
  BY <1>6 DEF Connect, ClientCrash, ServerCrash, Rest, vars
<1>7. QED
  BY <1>1, <1>2, <1>3, <1>4, <1>5, <1>6 DEF Next

-----------------------------------------------------------------------------
\* The end of a test as the server hears of it.  The client has told it that its
\* test is over.
Told == \E i \in 1..Len(wire["server"]) : wire["server"][i] = "TEST_END"

\* The client tells it after its test.done and after its last stream; neither is
\* taken back while the message is on its way, nor by the death of the client.
Over == done["client"] /\ ends >= NumStreams
EndTold == Telling \/ Told => Over

LEMMA EndToldStays ==
    ASSUME EndTold, Over => Over', Telling' => Telling, Told' => Told
    PROVE  EndTold'
  BY DEF EndTold

LEMMA EndToldGone == \A s \in Side : TypeOK /\ EndTold /\ Gone(s) => EndTold'
<1> SUFFICES ASSUME NEW s \in Side, TypeOK, EndTold, Gone(s) PROVE EndTold'
  OBVIOUS
<1> USE DEF TypeOK, CtrlType, NetType
<1>1. UNCHANGED Over
  BY DEF Gone, Over
<1>2. CASE s = "client"
  <2>1. CMain' = "exited" /\ wire'["server"] = wire["server"]
    BY <1>2 DEF Gone, CMain
  <2>2. QED
    BY <1>1, <2>1, EndToldStays DEF Telling, Told
<1>3. CASE s = "server"
  <2>1. CMain' = CMain /\ wire'["server"] = <<>>
    BY <1>3 DEF Gone, CMain
  <2>2. Len(wire'["server"]) = 0
    BY <2>1
  <2>3. (Telling' => Telling) /\ ~Told'
    BY <2>1, <2>2 DEF Telling, Told
  <2>4. QED
    BY <1>1, <2>3, EndToldStays
<1>4. QED
  BY <1>2, <1>3

\* What a write of the client and a read of the server do to what is told.
LEMMA ToldSteps ==
    ASSUME TypeOK
    PROVE  /\ \A m \in Message : WriteOk("client", m) => (Told' => Told \/ m = "TEST_END")
           /\ CanRead("server") /\ Consume("server") => (Told' => Told)
           /\ CanRead("server") /\ Head(wire["server"]) = "TEST_END" => Told
<1>1. wire["server"] \in Seq(Message)
  BY DEF TypeOK, NetType
<1>2. ASSUME NEW m \in Message, WriteOk("client", m), Told' PROVE Told \/ m = "TEST_END"
  <2>1. UNCHANGED wire["server"] \/ wire'["server"] = Append(wire["server"], m)
    BY <1>2 DEF WriteOk, TypeOK, NetType
  <2>2. CASE wire'["server"] = Append(wire["server"], m)
    BY <1>1, <1>2, <2>2 DEF Told
  <2>3. CASE UNCHANGED wire["server"]
    BY <1>2, <2>3 DEF Told
  <2>4. QED
    BY <2>1, <2>2, <2>3
<1>3. ASSUME CanRead("server"), Consume("server"), Told' PROVE Told
  <2>1. wire'["server"] = Tail(wire["server"]) /\ wire["server"] # <<>>
    BY <1>3 DEF CanRead, Consume, TypeOK, NetType
  <2>2. PICK i \in 1..Len(wire'["server"]) : wire'["server"][i] = "TEST_END"
    BY <1>3 DEF Told
  <2>3. i + 1 \in 1..Len(wire["server"]) /\ wire["server"][i + 1] = "TEST_END"
    BY <1>1, <2>1, <2>2
  <2>4. QED
    BY <2>3 DEF Told
<1>4. ASSUME CanRead("server"), Head(wire["server"]) = "TEST_END" PROVE Told
  <2>1. wire["server"] # <<>>
    BY <1>4 DEF CanRead
  <2>2. 1 \in 1..Len(wire["server"]) /\ wire["server"][1] = "TEST_END"
    BY <1>1, <1>4, <2>1
  <2>3. QED
    BY <2>2 DEF Told
<1>5. QED
  BY <1>2, <1>3, <1>4

LEMMA EndToldMain == TypeOK /\ Conversation /\ EndTold /\ ClientMain => EndTold'
<1> SUFFICES ASSUME TypeOK, Conversation, EndTold, ClientMain, ~Gone("client") PROVE EndTold'
  BY EndToldGone
<1> USE DEF TypeOK, CtrlType, CMain
<1>1. CASE ClientAllEnded
  <2>1. done'["client"] /\ ends' = NumStreams
    BY <1>1 DEF ClientAllEnded, ClientPops, Verdict
  <2>2. QED
    BY <2>1 DEF EndTold, Over
<1>2. CASE ClientEndWritten
  <2>1. Over /\ UNCHANGED <<done, ends>>
    BY <1>2 DEF ClientEndWritten, EndTold, Telling, testVars
  <2>2. QED
    BY <2>1 DEF EndTold, Over
<1>3. CASE ClientContinue
  <2>1. ends' \in Nat /\ ends \in Nat /\ ends' >= ends
    BY <1>3 DEF ClientContinue, Counted, TestType
  <2>2. UNCHANGED <<done, wire, pc>>
    BY <1>3 DEF ClientContinue, netVars
  <2>3. QED
    BY <2>1, <2>2, EndToldStays DEF Over, Telling, Told
<1>4. CASE ClientStart \/ ClientSendsEnd \/ SendPush("cMain")
  <2>1. UNCHANGED <<done, wire, ends>> /\ (Telling' => Telling)
    BY <1>4 DEF ClientStart, ClientSendsEnd, SendPush, Telling, netVars, testVars
  <2>2. QED
    BY <2>1, EndToldStays DEF Over, Told
<1>5. QED
  BY <1>1, <1>2, <1>3, <1>4 DEF ClientMain, ClientEndNotWritten, ClientExit, Exit

\* The handler of the client does not tell it, and the server only hears it.
LEMMA ToldCtrl ==
    TypeOK /\ Conversation /\ ClientCtrl /\ ~Gone("client") => (Told' => Told)
<1> SUFFICES ASSUME TypeOK, Conversation, ClientCtrl, ~Gone("client") PROVE Told' => Told
  OBVIOUS
<1> USE DEF TypeOK, CtrlType, CMain, CCtrl
<1>1. CASE ClientSendParams \/ ClientSendResults \/ ClientSendsDone
  <2>1. \/ UNCHANGED wire
        \/ WriteOk("client", "PARAMS") \/ WriteOk("client", "RESULTS")
        \/ WriteOk("client", "IPERF_DONE")
    BY <1>1 DEF ClientSendParams, ClientSendResults, ClientSendsDone, ClientSends, Conversation,
                ClientPart
  <2>2. QED
    BY <2>1, ToldSteps DEF Told, Message, State
<1>2. CASE ~(ClientSendParams \/ ClientSendResults \/ ClientSendsDone)
  <2>1. UNCHANGED wire["server"]
    BY <1>2 DEF ClientCtrl, ClientReads, ClientReadFails, ClientGetResults, ClientResultsFail,
                ClientConnects, ClientConnectRefused, ClientInits, ClientPushesRunning,
                ClientClosesStreams, ClientReports, SendPush, ClientClosesCtrl,
                ClientPushesDone, Panic, Consume, NetType, netVars
  <2>2. QED
    BY <2>1 DEF Told
<1>3. QED
  BY <1>1, <1>2

LEMMA EndToldCtrl == TypeOK /\ Conversation /\ EndTold /\ ClientCtrl => EndTold'
<1> SUFFICES ASSUME TypeOK, Conversation, EndTold, ClientCtrl, ~Gone("client") PROVE EndTold'
  BY EndToldGone
<1> USE DEF TypeOK, CtrlType, CMain
<1>1. UNCHANGED <<done, ends, CMain>>
  BY DEF ClientCtrl, ClientReads, ClientReadFails, ClientSendParams, ClientSendResults,
         ClientGetResults, ClientResultsFail, ClientConnects, ClientConnectRefused, ClientInits,
         ClientPushesRunning, ClientClosesStreams, ClientReports, SendPush, ClientSendsDone,
         ClientClosesCtrl, ClientPushesDone, ClientSends, Panic, testVars
<1>2. QED
  BY <1>1, ToldCtrl, EndToldStays DEF Over, Telling

LEMMA ToldServer ==
    TypeOK /\ (ServerMain \/ ServerCtrl) /\ ~Gone("server") => (Told' => Told)
<1> SUFFICES ASSUME TypeOK, ServerMain \/ ServerCtrl, ~Gone("server") PROVE Told' => Told
  OBVIOUS
<1> USE DEF TypeOK, CtrlType
<1>1. CASE ServerGetsParams \/ ServerReadsEnd \/ ServerReadsOther \/ ServerGetsResults
  BY <1>1, ToldSteps DEF ServerGetsParams, ServerReadsEnd, ServerReadsOther, ServerGetsResults
<1>2. CASE ~(ServerGetsParams \/ ServerReadsEnd \/ ServerReadsOther \/ ServerGetsResults)
  <2>1. UNCHANGED wire["server"]
    BY <1>2 DEF ServerMain, ServerResets, ServerParamsFail, ServerListens, ServerListenFails,
                ServerPops, ServerAccepts, ServerInits, SendPush, ServerWritten,
                ServerNotWritten, ServerCtrlDone, ServerCtrl, ServerClosesStreams,
                ServerSendsResults, ServerReports, ServerHandlerFails, ServerHandlerReturns,
                Panic, WriteOk, NetType, netVars
  <2>2. QED
    BY <2>1 DEF Told
<1>3. QED
  BY <1>1, <1>2

LEMMA EndToldServer ==
    TypeOK /\ Conversation /\ EndTold /\ (ServerMain \/ ServerCtrl) => EndTold'
<1> SUFFICES ASSUME TypeOK, Conversation, EndTold, ServerMain \/ ServerCtrl, ~Gone("server")
             PROVE  EndTold'
  BY EndToldGone
<1> USE DEF TypeOK, CtrlType
<1>1. UNCHANGED <<CMain, ends>>
  BY ServerLocal DEF ClientView, CMain
<1>2. UNCHANGED done["client"]
  BY DEF ServerMain, ServerResets, ServerGetsParams, ServerParamsFail, ServerListens,
         ServerListenFails, ServerPops, ServerAccepts, ServerInits, SendPush, ServerWritten,
         ServerNotWritten, ServerCtrlDone, ServerCtrl, ServerReadsEnd, ServerReadsOther,
         ServerClosesStreams, ServerGetsResults, ServerSendsResults, ServerReports,
         ServerHandlerFails, ServerHandlerReturns, Panic
<1>3. QED
  BY <1>1, <1>2, ToldServer, EndToldStays DEF Over, Telling

LEMMA EndToldNext == TypeOK /\ Conversation /\ EndTold /\ [Next]_vars => EndTold'
<1> SUFFICES ASSUME TypeOK, Conversation, EndTold, [Next]_vars PROVE EndTold'
  OBVIOUS
<1> USE DEF TypeOK, CtrlType, CMain, ctrlVars, netVars, testVars
<1>1. CASE Connect
  <2>1. CMain' = "loop" /\ wire'["server"] = <<>>
    BY <1>1 DEF Connect
  <2>2. Len(wire'["server"]) = 0
    BY <2>1
  <2>3. QED
    BY <2>1, <2>2 DEF EndTold, Telling, Told
<1>2. CASE ClientMain \/ ClientCtrl \/ ServerMain \/ ServerCtrl
  BY <1>2, EndToldMain, EndToldCtrl, EndToldServer
<1>3. CASE ClientCrash \/ ServerCrash
  BY <1>3, EndToldGone DEF ClientCrash, ServerCrash, Exit
<1>4. ASSUME NEW n \in Session, ClientTimer(n) \/ ServerTimer(n) PROVE EndTold'
  <2>1. UNCHANGED <<pc, wire, ends>> /\ (done["client"] => done'["client"])
    BY <1>4 DEF ClientTimer, ServerTimer
  <2>2. QED
    BY <2>1, EndToldStays DEF Over, Telling, Told
<1>5. ASSUME NEW e \in End, Stream(e) PROVE EndTold'
  BY <1>5, EndToldStays
     DEF Stream, StreamSends, StreamReceives, StreamFails, StreamEnds, Turn, Quit, Over,
         Telling, Told
<1>6. ASSUME NEW t \in Ticker, TickerStep(t) PROVE EndTold'
  <2>1. t[1] \in Side
    BY DEF Ticker
  <2>2. Gone(t[1]) \/ UNCHANGED <<done, ends, pc, wire>>
    BY <1>6 DEF TickerStep, Tick, StatsTickEnds, ReportTickEnds, Panic
  <2>3. QED
    BY <2>1, <2>2, EndToldGone, EndToldStays DEF Over, Telling, Told
<1>7. CASE Rest \/ UNCHANGED vars
  BY <1>7, EndToldStays DEF Rest, vars, Over, Telling, Told
<1>8. QED
  BY <1>1, <1>2, <1>3, <1>4, <1>5, <1>6, <1>7 DEF Next

LEMMA EndToldInit == Init => EndTold
<1> SUFFICES ASSUME Init PROVE EndTold
  OBVIOUS
<1>1. Len(wire["server"]) = 0
  BY DEF Init
<1>2. QED
  BY <1>1 DEF Init, EndTold, Telling, Told, CMain

\* The one step that takes the handler of the server to its last statistics.
LEMMA HandlerHears ==
    TypeOK /\ [Next]_vars /\ SCtrl = "read" /\ SCtrl' = "stats" => ServerReadsEnd
<1> SUFFICES ASSUME TypeOK, [Next]_vars, SCtrl = "read", SCtrl' = "stats", ~ServerReadsEnd
             PROVE  FALSE
  OBVIOUS
<1> USE DEF TypeOK, CtrlType, SCtrl
<1>0. \A s \in Side : ~Gone(s)
  BY DEF Gone
<1>1. CASE ServerMain \/ ServerCtrl
  BY <1>0, <1>1 DEF ServerMain, ServerResets, ServerGetsParams, ServerParamsFail, ServerListens,
         ServerListenFails, ServerPops, ServerAccepts, ServerInits, SendPush, ServerWritten,
         ServerNotWritten, ServerCtrlDone, ServerCtrl, ServerReadsOther, ServerHandles,
         ServerClosesStreams, ServerGetsResults, ServerSendsResults, ServerReports,
         ServerHandlerFails, ServerHandlerReturns, Panic
<1>2. CASE ClientMain \/ ClientCtrl
  BY <1>0, <1>2, ClientLeavesServer DEF ServerView
<1>3. CASE Connect \/ ClientCrash \/ ServerCrash \/ Rest \/ UNCHANGED vars
  BY <1>0, <1>3 DEF Connect, ClientCrash, ServerCrash, Exit, Rest, vars, ctrlVars
<1>4. CASE \/ \E n \in Session : ClientTimer(n) \/ ServerTimer(n)
           \/ \E e \in End : Stream(e)
  BY <1>4 DEF ClientTimer, ServerTimer, Stream, StreamSends, StreamReceives, StreamFails,
              StreamEnds, Turn, Quit, ctrlVars
<1>5. ASSUME NEW t \in Ticker, TickerStep(t) PROVE FALSE
  BY <1>0, <1>5 DEF TickerStep, Tick, StatsTickEnds, ReportTickEnds, Ticker, Panic, ctrlVars
<1>6. QED
  BY <1>1, <1>2, <1>3, <1>4, <1>5 DEF Next

\* The server takes the end of a test from a client whose test.done is set and whose
\* streams have all returned: with any faults, any number of sessions and tickers,
\* and timers of earlier sessions.
THEOREM EndsHeard == Spec => EndHeard
<1> DEFINE Step == /\ pc["sCtrl"] = "read" /\ pc'["sCtrl"] = "stats"
                   => done["client"] /\ \A e \in Streams("client") : strm[e] = "none"
<1>1. Init => EndTold
  BY EndToldInit
<1>2. TypeOK /\ Conversation /\ EndTold /\ [Next]_vars => EndTold'
  BY EndToldNext
<1>3. TypeOK /\ Counting /\ EndTold /\ [Next]_vars => Step
  <2> SUFFICES ASSUME TypeOK, Counting, EndTold, [Next]_vars, SCtrl = "read", SCtrl' = "stats"
               PROVE  done["client"] /\ \A e \in Streams("client") : strm[e] = "none"
    BY DEF SCtrl
  <2>1. Over
    BY HandlerHears, ToldSteps DEF ServerReadsEnd, EndTold
  <2>2. Running = {}
    BY <2>1 DEF Over, Counting
  <2>3. QED
    BY <2>1, <2>2 DEF Over, Running, Streams
<1>4. QED
  BY <1>1, <1>2, <1>3, TypeCorrect, Converses, EndsCounted, PTL DEF Spec, EndHeard
=============================================================================
