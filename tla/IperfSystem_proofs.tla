-------------------------- MODULE IperfSystem_proofs --------------------------
(* Theorems about IperfSystem for every number of streams, capacity, protocol, *)
(* direction and set of faults.                                               *)
EXTENDS IperfSystem, TLAPS

USE ParamsAssumption

USE DEF Side, Goroutine, SideOf, Peer, Goto, SetSend

\* A group of fields that a step leaves alone keeps its type.
LEMMA Frame ==
    /\ CtrlType /\ UNCHANGED ctrlVars => CtrlType'
    /\ StatType /\ UNCHANGED statVars => StatType'
    /\ NetType  /\ UNCHANGED netVars  => NetType'
    /\ DataType /\ UNCHANGED dataVars => DataType'
    /\ TimeType /\ UNCHANGED timeVars => TimeType'
    /\ TestType /\ UNCHANGED testVars => TestType'
  BY DEF CtrlType, StatType, NetType, DataType, TimeType, TestType,
         ctrlVars, statVars, netVars, dataVars, timeVars, testVars

\* Whatever is written, the connection carries messages.
LEMMA WriteType ==
    \A s \in Side, m \in Message : NetType /\ WriteOk(s, m) => wire' \in [Side -> Seq(Message)]
<1> SUFFICES ASSUME NEW s \in Side, NEW m \in Message, NetType, WriteOk(s, m)
             PROVE  wire' \in [Side -> Seq(Message)]
  OBVIOUS
<1>1. Append(wire[Peer(s)], m) \in Seq(Message)
  BY DEF NetType
<1>2. QED
  BY <1>1 DEF NetType, WriteOk

\* What is read leaves messages behind it.
LEMMA ConsumeType ==
    \A s \in Side : NetType /\ CanRead(s) /\ Consume(s) => wire' \in [Side -> Seq(Message)]
<1> SUFFICES ASSUME NEW s \in Side, NetType, CanRead(s), Consume(s)
             PROVE  wire' \in [Side -> Seq(Message)]
  OBVIOUS
<1>1. Tail(wire[s]) \in Seq(Message)
  BY DEF NetType, CanRead
<1>2. QED
  BY <1>1 DEF NetType, Consume

\* ctrlChan of a side as a channel: the elements are states, and fit.
LEMMA PushQueue ==
    \A s \in Side, m \in State : CtrlType /\ Push(s, m) =>
        ctrlChan' \in [Side -> Seq(State)] /\ \A r \in Side : Len(ctrlChan'[r]) <= CtrlCap
<1> SUFFICES ASSUME NEW s \in Side, NEW m \in State, CtrlType, Push(s, m)
             PROVE  /\ ctrlChan' \in [Side -> Seq(State)]
                    /\ \A r \in Side : Len(ctrlChan'[r]) <= CtrlCap
  OBVIOUS
<1>1. /\ Append(ctrlChan[s], m) \in Seq(State)
      /\ Len(Append(ctrlChan[s], m)) <= CtrlCap
  BY DEF CtrlType, Push, CanPush
<1>2. QED
  BY <1>1 DEF CtrlType, Push

LEMMA PopQueue ==
    \A s \in Side : CtrlType /\ Pop(s) =>
        /\ Head(ctrlChan[s]) \in State
        /\ ctrlChan' \in [Side -> Seq(State)] /\ \A r \in Side : Len(ctrlChan'[r]) <= CtrlCap
<1> SUFFICES ASSUME NEW s \in Side, CtrlType, Pop(s)
             PROVE  /\ Head(ctrlChan[s]) \in State
                    /\ ctrlChan' \in [Side -> Seq(State)]
                    /\ \A r \in Side : Len(ctrlChan'[r]) <= CtrlCap
  OBVIOUS
<1>1. ctrlChan[s] \in Seq(State) /\ ctrlChan[s] # <<>> /\ Len(ctrlChan[s]) <= CtrlCap
  BY DEF CtrlType, Pop, CanPop
<1>2. /\ Head(ctrlChan[s]) \in State /\ Tail(ctrlChan[s]) \in Seq(State)
      /\ Len(Tail(ctrlChan[s])) <= CtrlCap
  BY <1>1
<1>3. QED
  BY <1>2 DEF CtrlType, Pop

\* statsCallback and reporterCallback keep at most one token.
LEMMA TokenType ==
    \A s \in Side : StatType /\ (PutToken(s) \/ TakeToken(s)) => chStats' \in [Side -> 0..1]
<1> SUFFICES ASSUME NEW s \in Side, StatType, PutToken(s) \/ TakeToken(s)
             PROVE  chStats' \in [Side -> 0..1]
  OBVIOUS
<1>1. CASE PutToken(s)
  BY <1>1 DEF StatType, PutToken, CanToken
<1>2. CASE TakeToken(s)
  BY <1>2 DEF StatType, TakeToken, CanReport
<1>3. QED
  BY <1>1, <1>2

\* createClientTimer and createServerTimer.
LEMMA TimerCreated ==
    \A s \in Side : TimeType /\ TestType /\ CreateTimer(s) => TimeType'
<1> SUFFICES ASSUME NEW s \in Side, TimeType, TestType, CreateTimer(s) PROVE TimeType'
  OBVIOUS
<1>1. timer' \in [Side \X Session -> {"off", "armed", "fired"}]
  BY DEF TimeType, CreateTimer
<1>2. curTimer' \in [Side -> 0..MaxSessions]
  BY DEF TimeType, TestType, CreateTimer
<1>3. left' \in [Ticker -> 0..MaxTicks] /\ busy' \subseteq Ticker
  BY DEF TimeType, CreateTimer
<1>4. QED
  BY <1>1, <1>2, <1>3 DEF TimeType

LEMMA InitType == Init => TypeOK
<1> SUFFICES ASSUME Init PROVE TypeOK
  OBVIOUS
<1>1. CtrlType
  BY DEF Init, CtrlType, State, Label
<1>2. StatType /\ NetType
  BY DEF Init, StatType, NetType
<1>3. DataType
  BY DEF Init, DataType
<1>4. TimeType
  BY DEF Init, TimeType
<1>5. session \in 0..MaxSessions /\ ends \in 0..(NumStreams + 1)
  BY DEF Init
<1>6. TestType
  BY <1>5 DEF Init, TestType
<1>7. QED
  BY <1>1, <1>2, <1>3, <1>4, <1>6 DEF TypeOK

LEMMA PushType == \A g \in Goroutine : TypeOK /\ SendPush(g) => TypeOK'
<1> SUFFICES ASSUME NEW g \in Goroutine, TypeOK, SendPush(g) PROVE TypeOK'
  OBVIOUS
<1> USE DEF SendPush
<1>1. CtrlType'
  BY PushQueue DEF TypeOK, CtrlType, Label, State
<1>2. QED
  BY <1>1, Frame DEF TypeOK

LEMMA WrittenType == \A g \in {"sMain", "sCtrl"} : TypeOK /\ ServerWritten(g) => TypeOK'
<1> SUFFICES ASSUME NEW g \in {"sMain", "sCtrl"}, TypeOK, ServerWritten(g) PROVE TypeOK'
  OBVIOUS
<1> USE DEF ServerWritten
<1>1. CtrlType'
  BY DEF TypeOK, CtrlType, Label, State, AfterSend
<1>2. NetType'
  BY WriteType DEF TypeOK, NetType, CtrlType, State, Message
<1>3. QED
  BY <1>1, <1>2, Frame DEF TypeOK

LEMMA NotWrittenType == \A g \in {"sMain", "sCtrl"} : TypeOK /\ ServerNotWritten(g) => TypeOK'
<1> SUFFICES ASSUME NEW g \in {"sMain", "sCtrl"}, TypeOK, ServerNotWritten(g) PROVE TypeOK'
  OBVIOUS
<1> USE DEF ServerNotWritten, CloseCtrl
<1>1. CtrlType'
  BY DEF TypeOK, CtrlType, Label, State, AfterSendFailed
<1>2. NetType'
  BY DEF TypeOK, NetType
<1>3. QED
  BY <1>1, <1>2, Frame DEF TypeOK

\* A process that ends, by its own decision or by a panic.
LEMMA GoneType == \A s \in Side : TypeOK /\ (Exit(s) \/ Panic(s)) => TypeOK'
<1> SUFFICES ASSUME NEW s \in Side, TypeOK, Gone(s), panicked' \subseteq panicked \cup {s}
             PROVE  TypeOK'
  BY DEF Exit, Panic
<1> USE DEF Gone, CloseCtrl
<1>1. CtrlType'
  BY DEF TypeOK, CtrlType, Label, State
<1>2. StatType'
  BY DEF TypeOK, StatType
<1>3. NetType'
  BY DEF TypeOK, NetType
<1>4. DataType'
  BY DEF TypeOK, DataType
<1>5. TimeType'
  BY DEF TypeOK, TimeType
<1>6. TestType'
  BY DEF TypeOK, TestType
<1>7. QED
  BY <1>1, <1>2, <1>3, <1>4, <1>5, <1>6 DEF TypeOK

-----------------------------------------------------------------------------
LEMMA ClientStartType == TypeOK /\ ClientStart => TypeOK'
<1> SUFFICES ASSUME TypeOK, ClientStart PROVE TypeOK'
  OBVIOUS
<1> USE DEF ClientStart, ClientPops, StartStreams, Streams
<1>1. CtrlType'
  BY PopQueue DEF TypeOK, CtrlType, Label, State, Verdict, Counted
<1>2. DataType'
  BY DEF TypeOK, DataType
<1>3. QED
  BY <1>1, <1>2, Frame DEF TypeOK

LEMMA ClientContinueType == TypeOK /\ ClientContinue => TypeOK'
<1> SUFFICES ASSUME TypeOK, ClientContinue PROVE TypeOK'
  OBVIOUS
<1> USE DEF ClientContinue, ClientPops
<1>1. CtrlType'
  BY PopQueue DEF TypeOK, CtrlType, Label, State, Verdict, Counted
<1>2. TestType'
  BY DEF TypeOK, TestType, Verdict, Counted
<1>3. QED
  BY <1>1, <1>2, Frame DEF TypeOK

LEMMA ClientAllEndedType == TypeOK /\ ClientAllEnded => TypeOK'
<1> SUFFICES ASSUME TypeOK, ClientAllEnded PROVE TypeOK'
  OBVIOUS
<1> USE DEF ClientAllEnded, ClientPops, Sample, Streams
<1>1. CtrlType'
  BY PopQueue DEF TypeOK, CtrlType, Label, State, Verdict, Counted
<1>2. StatType'
  BY DEF TypeOK, StatType, Streams
<1>3. TestType'
  BY DEF TypeOK, TestType, Verdict, Counted
<1>4. QED
  BY <1>1, <1>2, <1>3, Frame DEF TypeOK

LEMMA ClientSendsEndType == TypeOK /\ ClientSendsEnd => TypeOK'
<1> SUFFICES ASSUME TypeOK, ClientSendsEnd PROVE TypeOK'
  OBVIOUS
<1> USE DEF ClientSendsEnd
<1>1. CtrlType'
  BY DEF TypeOK, CtrlType, Label, State
<1>2. StatType'
  BY TokenType DEF TypeOK, StatType
<1>3. QED
  BY <1>1, <1>2, Frame DEF TypeOK

LEMMA ClientEndWrittenType == TypeOK /\ ClientEndWritten => TypeOK'
<1> SUFFICES ASSUME TypeOK, ClientEndWritten PROVE TypeOK'
  OBVIOUS
<1> USE DEF ClientEndWritten
<1>1. CtrlType'
  BY DEF TypeOK, CtrlType, Label, State
<1>2. NetType'
  BY WriteType DEF TypeOK, NetType, CtrlType, State, Message
<1>3. QED
  BY <1>1, <1>2, Frame DEF TypeOK

LEMMA ClientMainType == TypeOK /\ ClientMain => TypeOK'
  BY ClientStartType, ClientContinueType, ClientAllEndedType, ClientSendsEndType,
     PushType, ClientEndWrittenType, GoneType
     DEF ClientMain, ClientEndNotWritten, ClientExit

-----------------------------------------------------------------------------
LEMMA ClientReadsType == TypeOK /\ ClientReads => TypeOK'
<1> SUFFICES ASSUME TypeOK, ClientReads PROVE TypeOK'
  OBVIOUS
<1> USE DEF ClientReads
<1>1. CtrlType'
  BY DEF TypeOK, CtrlType, Label, State, ClientOn
<1>2. NetType'
  BY ConsumeType DEF TypeOK, NetType
<1>3. QED
  BY <1>1, <1>2, Frame DEF TypeOK

LEMMA ClientReadFailsType == TypeOK /\ ClientReadFails => TypeOK'
<1> SUFFICES ASSUME TypeOK, ClientReadFails PROVE TypeOK'
  OBVIOUS
<1> USE DEF ClientReadFails, CloseCtrl
<1>1. CtrlType'
  BY DEF TypeOK, CtrlType, Label, State
<1>2. NetType'
  BY DEF TypeOK, NetType
<1>3. QED
  BY <1>1, <1>2, Frame DEF TypeOK

LEMMA ClientSendParamsType == TypeOK /\ ClientSendParams => TypeOK'
<1> SUFFICES ASSUME TypeOK, ClientSendParams PROVE TypeOK'
  OBVIOUS
<1> USE DEF ClientSendParams, ClientSends
<1>1. CtrlType'
  BY DEF TypeOK, CtrlType, Label, State, CtrlTop
<1>2. NetType'
  BY WriteType DEF TypeOK, NetType, CtrlType, State, Message
<1>3. QED
  BY <1>1, <1>2, Frame DEF TypeOK

LEMMA ClientSendResultsType == TypeOK /\ ClientSendResults => TypeOK'
<1> SUFFICES ASSUME TypeOK, ClientSendResults PROVE TypeOK'
  OBVIOUS
<1> USE DEF ClientSendResults, ClientSends
<1>1. CtrlType'
  BY DEF TypeOK, CtrlType, Label, State
<1>2. NetType'
  BY WriteType DEF TypeOK, NetType, CtrlType, State, Message
<1>3. QED
  BY <1>1, <1>2, Frame DEF TypeOK

LEMMA ClientGetResultsType == TypeOK /\ ClientGetResults => TypeOK'
<1> SUFFICES ASSUME TypeOK, ClientGetResults PROVE TypeOK'
  OBVIOUS
<1> USE DEF ClientGetResults
<1>1. CtrlType'
  BY DEF TypeOK, CtrlType, Label, State, CtrlTop
<1>2. NetType'
  BY ConsumeType DEF TypeOK, NetType
<1>3. QED
  BY <1>1, <1>2, Frame DEF TypeOK

LEMMA ClientResultsFailType == TypeOK /\ ClientResultsFail => TypeOK'
<1> SUFFICES ASSUME TypeOK, ClientResultsFail PROVE TypeOK'
  OBVIOUS
<1> USE DEF ClientResultsFail
<1>1. CtrlType'
  BY DEF TypeOK, CtrlType, Label, State
<1>2. QED
  BY <1>1, Frame DEF TypeOK

LEMMA ClientConnectsType == TypeOK /\ ClientConnects => TypeOK'
<1> SUFFICES ASSUME TypeOK, ClientConnects PROVE TypeOK'
  OBVIOUS
<1> USE DEF ClientConnects
<1>1. CtrlType'
  BY DEF TypeOK, CtrlType, Label, CtrlTop
<1>2. nstreams["client"] + 1 \in 0..NumStreams
  BY DEF TypeOK, DataType, MoreStreams
<1>3. nstreams' \in [Side -> 0..NumStreams]
  BY <1>2 DEF TypeOK, DataType
<1>4. sock' \in [End -> BOOLEAN]
  BY DEF TypeOK, DataType
<1>5. DataType'
  BY <1>3, <1>4 DEF TypeOK, DataType
<1>6. QED
  BY <1>1, <1>5, Frame DEF TypeOK

LEMMA ClientConnectRefusedType == TypeOK /\ ClientConnectRefused => TypeOK'
<1> SUFFICES ASSUME TypeOK, ClientConnectRefused PROVE TypeOK'
  OBVIOUS
<1> USE DEF ClientConnectRefused
<1>1. CtrlType'
  BY DEF TypeOK, CtrlType, Label, State
<1>2. QED
  BY <1>1, Frame DEF TypeOK

LEMMA ClientInitsType == TypeOK /\ ClientInits => TypeOK'
<1> SUFFICES ASSUME TypeOK, ClientInits PROVE TypeOK'
  OBVIOUS
<1> USE DEF ClientInits
<1>1. CtrlType'
  BY DEF TypeOK, CtrlType, Label, State, CtrlTop
<1>2. TimeType'
  BY TimerCreated DEF TypeOK
<1>3. QED
  BY <1>1, <1>2, Frame DEF TypeOK

LEMMA ClientPushesRunningType == TypeOK /\ ClientPushesRunning => TypeOK'
<1> SUFFICES ASSUME TypeOK, ClientPushesRunning PROVE TypeOK'
  OBVIOUS
<1> USE DEF ClientPushesRunning
<1>1. CtrlType'
  BY PushQueue DEF TypeOK, CtrlType, Label, State, CtrlTop
<1>2. QED
  BY <1>1, Frame DEF TypeOK

LEMMA ClientClosesStreamsType == TypeOK /\ ClientClosesStreams => TypeOK'
<1> SUFFICES ASSUME TypeOK, ClientClosesStreams PROVE TypeOK'
  OBVIOUS
<1> USE DEF ClientClosesStreams, CloseStreams, Streams
<1>1. CtrlType'
  BY DEF TypeOK, CtrlType, Label, State
<1>2. DataType'
  BY DEF TypeOK, DataType
<1>3. QED
  BY <1>1, <1>2, Frame DEF TypeOK

LEMMA ClientReportsType == TypeOK /\ ClientReports => TypeOK'
<1> SUFFICES ASSUME TypeOK, ClientReports, ~PrintPanics("client") PROVE TypeOK'
  BY GoneType DEF ClientReports
<1> USE DEF ClientReports
<1>1. CtrlType'
  BY DEF TypeOK, CtrlType, Label, State
<1>2. StatType'
  BY TokenType DEF TypeOK, StatType
<1>3. QED
  BY <1>1, <1>2, Frame DEF TypeOK

LEMMA ClientSendsDoneType == TypeOK /\ ClientSendsDone => TypeOK'
<1> SUFFICES ASSUME TypeOK, ClientSendsDone PROVE TypeOK'
  OBVIOUS
<1> USE DEF ClientSendsDone, ClientSends
<1>1. CtrlType'
  BY DEF TypeOK, CtrlType, Label, State
<1>2. NetType'
  BY WriteType DEF TypeOK, NetType, CtrlType, State, Message
<1>3. QED
  BY <1>1, <1>2, Frame DEF TypeOK

LEMMA ClientClosesCtrlType == TypeOK /\ ClientClosesCtrl => TypeOK'
<1> SUFFICES ASSUME TypeOK, ClientClosesCtrl PROVE TypeOK'
  OBVIOUS
<1> USE DEF ClientClosesCtrl, CloseCtrl
<1>1. CtrlType'
  BY DEF TypeOK, CtrlType, Label, State
<1>2. NetType'
  BY DEF TypeOK, NetType
<1>3. QED
  BY <1>1, <1>2, Frame DEF TypeOK

LEMMA ClientPushesDoneType == TypeOK /\ ClientPushesDone => TypeOK'
<1> SUFFICES ASSUME TypeOK, ClientPushesDone PROVE TypeOK'
  OBVIOUS
<1> USE DEF ClientPushesDone
<1>1. CtrlType'
  BY PushQueue DEF TypeOK, CtrlType, Label, State, CtrlTop
<1>2. QED
  BY <1>1, Frame DEF TypeOK

LEMMA ClientCtrlType == TypeOK /\ ClientCtrl => TypeOK'
  BY ClientReadsType, ClientReadFailsType, ClientSendParamsType, ClientSendResultsType,
     ClientGetResultsType, ClientResultsFailType, ClientConnectsType,
     ClientConnectRefusedType, ClientInitsType, ClientPushesRunningType,
     ClientClosesStreamsType, ClientReportsType, PushType, ClientSendsDoneType,
     ClientClosesCtrlType, ClientPushesDoneType
     DEF ClientCtrl

-----------------------------------------------------------------------------
LEMMA ServerResetsType == TypeOK /\ ServerResets => TypeOK'
<1> SUFFICES ASSUME TypeOK, ServerResets PROVE TypeOK'
  OBVIOUS
<1> USE DEF ServerResets
<1>1. CtrlType'
  BY DEF TypeOK, CtrlType, Label, State
<1>2. DataType'
  BY DEF TypeOK, DataType
<1>3. QED
  BY <1>1, <1>2, Frame DEF TypeOK

LEMMA ServerGetsParamsType == TypeOK /\ ServerGetsParams => TypeOK'
<1> SUFFICES ASSUME TypeOK, ServerGetsParams PROVE TypeOK'
  OBVIOUS
<1> USE DEF ServerGetsParams
<1>1. CtrlType'
  BY DEF TypeOK, CtrlType, Label, State
<1>2. NetType'
  BY ConsumeType DEF TypeOK, NetType
<1>3. QED
  BY <1>1, <1>2, Frame DEF TypeOK

LEMMA ServerParamsFailType == TypeOK /\ ServerParamsFail => TypeOK'
<1> SUFFICES ASSUME TypeOK, ServerParamsFail PROVE TypeOK'
  OBVIOUS
<1> USE DEF ServerParamsFail, CloseCtrl
<1>1. CtrlType'
  BY DEF TypeOK, CtrlType, Label, State
<1>2. NetType'
  BY DEF TypeOK, NetType
<1>3. QED
  BY <1>1, <1>2, Frame DEF TypeOK

LEMMA ServerListensType == TypeOK /\ ServerListens => TypeOK'
<1> SUFFICES ASSUME TypeOK, ServerListens PROVE TypeOK'
  OBVIOUS
<1> USE DEF ServerListens
<1>1. CtrlType'
  BY DEF TypeOK, CtrlType, Label, State
<1>2. TestType'
  BY DEF TypeOK, TestType
<1>3. QED
  BY <1>1, <1>2, Frame DEF TypeOK

LEMMA ServerListenFailsType == TypeOK /\ ServerListenFails => TypeOK'
<1> SUFFICES ASSUME TypeOK, ServerListenFails, Proto # "kcp" PROVE TypeOK'
  BY GoneType DEF ServerListenFails
<1> USE DEF ServerListenFails, CloseCtrl
<1>1. CtrlType'
  BY DEF TypeOK, CtrlType, Label, State
<1>2. NetType'
  BY DEF TypeOK, NetType
<1>3. QED
  BY <1>1, <1>2, Frame DEF TypeOK

LEMMA ServerPopsType == TypeOK /\ ServerPops => TypeOK'
<1> SUFFICES ASSUME TypeOK, ServerPops PROVE TypeOK'
  OBVIOUS
<1> USE DEF ServerPops, StartStreams, Streams
<1>1. CtrlType'
  BY PopQueue DEF TypeOK, CtrlType, Label, State, ServerOn
<1>2. DataType'
  BY DEF TypeOK, DataType
<1>3. QED
  BY <1>1, <1>2, Frame DEF TypeOK

LEMMA ServerAcceptsType == TypeOK /\ ServerAccepts => TypeOK'
<1> SUFFICES ASSUME TypeOK, ServerAccepts PROVE TypeOK'
  OBVIOUS
<1> USE DEF ServerAccepts
<1>1. CtrlType'
  BY DEF TypeOK, CtrlType, Label, State
<1>2. nstreams["server"] + 1 \in 0..NumStreams
  BY DEF TypeOK, DataType
<1>3. nstreams' \in [Side -> 0..NumStreams]
  BY <1>2 DEF TypeOK, DataType
<1>4. sock' \in [End -> BOOLEAN]
  BY DEF TypeOK, DataType
<1>5. DataType'
  BY <1>3, <1>4 DEF TypeOK, DataType
<1>6. QED
  BY <1>1, <1>5, Frame DEF TypeOK

LEMMA ServerInitsType == TypeOK /\ ServerInits => TypeOK'
<1> SUFFICES ASSUME TypeOK, ServerInits PROVE TypeOK'
  OBVIOUS
<1> USE DEF ServerInits
<1>1. CtrlType'
  BY DEF TypeOK, CtrlType, Label, State
<1>2. TimeType'
  BY TimerCreated DEF TypeOK
<1>3. QED
  BY <1>1, <1>2, Frame DEF TypeOK

LEMMA ServerCtrlDoneType == TypeOK /\ ServerCtrlDone => TypeOK'
<1> SUFFICES ASSUME TypeOK, ServerCtrlDone PROVE TypeOK'
  OBVIOUS
<1> USE DEF ServerCtrlDone
<1>1. CtrlType'
  BY DEF TypeOK, CtrlType, Label, State
<1>2. TestType'
  BY DEF TypeOK, TestType
<1>3. QED
  BY <1>1, <1>2, Frame DEF TypeOK

LEMMA ServerMainType == TypeOK /\ ServerMain => TypeOK'
  BY ServerResetsType, ServerGetsParamsType, ServerParamsFailType, ServerListensType,
     ServerListenFailsType, ServerPopsType, ServerAcceptsType, ServerInitsType,
     PushType, WrittenType, NotWrittenType, ServerCtrlDoneType
     DEF ServerMain

-----------------------------------------------------------------------------
LEMMA ServerReadsEndType == TypeOK /\ ServerReadsEnd => TypeOK'
<1> SUFFICES ASSUME TypeOK, ServerReadsEnd PROVE TypeOK'
  OBVIOUS
<1> USE DEF ServerReadsEnd, Sample, Streams
<1>1. CtrlType'
  BY DEF TypeOK, CtrlType, Label, State, ServerHandles
<1>2. StatType'
  BY DEF TypeOK, StatType, Streams
<1>3. NetType'
  BY ConsumeType DEF TypeOK, NetType
<1>4. QED
  BY <1>1, <1>2, <1>3, Frame DEF TypeOK

LEMMA ServerReadsOtherType == TypeOK /\ ServerReadsOther => TypeOK'
<1> SUFFICES ASSUME TypeOK, ServerReadsOther PROVE TypeOK'
  OBVIOUS
<1> USE DEF ServerReadsOther
<1>1. CtrlType'
  BY DEF TypeOK, CtrlType, Label, State, ServerHandles
<1>2. NetType'
  BY ConsumeType DEF TypeOK, NetType
<1>3. TimeType'
  BY DEF TypeOK, TimeType
<1>4. QED
  BY <1>1, <1>2, <1>3, Frame DEF TypeOK

LEMMA ServerClosesStreamsType == TypeOK /\ ServerClosesStreams => TypeOK'
<1> SUFFICES ASSUME TypeOK, ServerClosesStreams PROVE TypeOK'
  OBVIOUS
<1> USE DEF ServerClosesStreams, CloseStreams, Streams
<1>1. CtrlType'
  BY DEF TypeOK, CtrlType, Label, State
<1>2. StatType'
  BY TokenType DEF TypeOK, StatType
<1>3. DataType'
  BY DEF TypeOK, DataType
<1>4. QED
  BY <1>1, <1>2, <1>3, Frame DEF TypeOK

LEMMA ServerGetsResultsType == TypeOK /\ ServerGetsResults => TypeOK'
<1> SUFFICES ASSUME TypeOK, ServerGetsResults PROVE TypeOK'
  OBVIOUS
<1> USE DEF ServerGetsResults
<1>1. CtrlType'
  BY DEF TypeOK, CtrlType, Label, State
<1>2. NetType'
  BY ConsumeType DEF TypeOK, NetType
<1>3. QED
  BY <1>1, <1>2, Frame DEF TypeOK

LEMMA ServerSendsResultsType == TypeOK /\ ServerSendsResults => TypeOK'
<1> SUFFICES ASSUME TypeOK, ServerSendsResults PROVE TypeOK'
  OBVIOUS
<1> USE DEF ServerSendsResults
<1>1. CtrlType'
  BY DEF TypeOK, CtrlType, Label, State
<1>2. NetType'
  BY WriteType DEF TypeOK, NetType, CtrlType, State, Message
<1>3. QED
  BY <1>1, <1>2, Frame DEF TypeOK

LEMMA ServerReportsType == TypeOK /\ ServerReports => TypeOK'
<1> SUFFICES ASSUME TypeOK, ServerReports, ~PrintPanics("server") PROVE TypeOK'
  BY GoneType DEF ServerReports
<1> USE DEF ServerReports
<1>1. CtrlType'
  BY DEF TypeOK, CtrlType, Label, State
<1>2. StatType'
  BY TokenType DEF TypeOK, StatType
<1>3. QED
  BY <1>1, <1>2, Frame DEF TypeOK

LEMMA ServerHandlerFailsType == TypeOK /\ ServerHandlerFails => TypeOK'
<1> SUFFICES ASSUME TypeOK, ServerHandlerFails PROVE TypeOK'
  OBVIOUS
<1> USE DEF ServerHandlerFails, CloseCtrl
<1>1. CtrlType'
  BY DEF TypeOK, CtrlType, Label, State
<1>2. NetType'
  BY DEF TypeOK, NetType
<1>3. QED
  BY <1>1, <1>2, Frame DEF TypeOK

LEMMA ServerHandlerReturnsType == TypeOK /\ ServerHandlerReturns => TypeOK'
<1> SUFFICES ASSUME TypeOK, ServerHandlerReturns PROVE TypeOK'
  OBVIOUS
<1> USE DEF ServerHandlerReturns, CloseCtrl
<1>1. CtrlType'
  BY PushQueue DEF TypeOK, CtrlType, Label, State
<1>2. NetType'
  BY DEF TypeOK, NetType
<1>3. QED
  BY <1>1, <1>2, Frame DEF TypeOK

LEMMA ServerCtrlType == TypeOK /\ ServerCtrl => TypeOK'
  BY ServerReadsEndType, ServerReadsOtherType, ServerClosesStreamsType,
     ServerGetsResultsType, ServerSendsResultsType, ServerReportsType, PushType,
     WrittenType, NotWrittenType, ServerHandlerFailsType, ServerHandlerReturnsType
     DEF ServerCtrl

-----------------------------------------------------------------------------
LEMMA ClientTimerType == \A n \in Session : TypeOK /\ ClientTimer(n) => TypeOK'
<1> SUFFICES ASSUME NEW n \in Session, TypeOK, ClientTimer(n) PROVE TypeOK'
  OBVIOUS
<1> USE DEF ClientTimer
<1>1. CtrlType'
  BY DEF TypeOK, CtrlType, Label, State
<1>2. TimeType'
  BY DEF TypeOK, TimeType
<1>3. QED
  BY <1>1, <1>2, Frame DEF TypeOK

LEMMA ServerTimerType == \A n \in Session : TypeOK /\ ServerTimer(n) => TypeOK'
<1> SUFFICES ASSUME NEW n \in Session, TypeOK, ServerTimer(n) PROVE TypeOK'
  OBVIOUS
<1> USE DEF ServerTimer
<1>1. done' \in [Side -> BOOLEAN]
  BY DEF TypeOK, CtrlType
<1>2. CtrlType'
  BY <1>1 DEF TypeOK, CtrlType
<1>3. sock' \in [End -> BOOLEAN]
  BY DEF TypeOK, DataType, CloseStreams
<1>4. DataType'
  BY <1>3 DEF TypeOK, DataType
<1>5. TimeType'
  BY DEF TypeOK, TimeType
<1>6. QED
  BY <1>2, <1>4, <1>5, Frame DEF TypeOK

LEMMA TurnType ==
    \A e \in End, b \in 0..DataCap : TypeOK /\ Turn(e, b) => TypeOK'
<1> SUFFICES ASSUME NEW e \in End, NEW b \in 0..DataCap, TypeOK, Turn(e, b) PROVE TypeOK'
  OBVIOUS
<1>1. data' \in [Flow -> 0..DataCap]
  BY DEF TypeOK, DataType, Turn
<1>2. strm' \in [End -> {"none", "io", "push"}]
  BY DEF TypeOK, DataType, Turn, AfterTurn
<1>3. DataType'
  BY <1>1, <1>2 DEF TypeOK, DataType, Turn
<1>4. QED
  BY <1>3, Frame DEF TypeOK, Turn

LEMMA SendsType == \A e \in End : TypeOK /\ StreamSends(e) => TypeOK'
<1> SUFFICES ASSUME NEW e \in End, TypeOK, StreamSends(e) PROVE TypeOK'
  OBVIOUS
<1>1. FlowOf(e) \in Flow
  BY DEF FlowOf, Flow, End
<1>2. data[FlowOf(e)] \in 0..DataCap
  BY <1>1 DEF TypeOK, DataType
<1>3. PICK b \in 0..DataCap : Turn(e, b)
  BY <1>2 DEF StreamSends
<1>4. QED
  BY <1>3, TurnType

LEMMA ReceivesType == \A e \in End : TypeOK /\ StreamReceives(e) => TypeOK'
<1> SUFFICES ASSUME NEW e \in End, TypeOK, StreamReceives(e) PROVE TypeOK'
  OBVIOUS
<1>1. FlowOf(e) \in Flow
  BY DEF FlowOf, Flow, End
<1>2. data[FlowOf(e)] \in 0..DataCap
  BY <1>1 DEF TypeOK, DataType
<1>3. data[FlowOf(e)] - 1 \in 0..DataCap /\ Turn(e, data[FlowOf(e)] - 1)
  BY <1>2 DEF StreamReceives
<1>4. QED
  BY <1>3, TurnType

LEMMA FailsType == \A e \in End : TypeOK /\ StreamFails(e) => TypeOK'
<1> SUFFICES ASSUME NEW e \in End, TypeOK, StreamFails(e) PROVE TypeOK'
  OBVIOUS
<1> USE DEF StreamFails, PeerGone, Other, Sender, FlowOf, Quit
<1>1. DataType'
  BY DEF TypeOK, DataType, End, Flow, Index, Session
<1>2. QED
  BY <1>1, Frame DEF TypeOK

LEMMA EndsType == \A e \in End : TypeOK /\ StreamEnds(e) => TypeOK'
<1> SUFFICES ASSUME NEW e \in End, TypeOK, StreamEnds(e) PROVE TypeOK'
  OBVIOUS
<1> USE DEF StreamEnds
<1>1. CtrlType'
  BY PushQueue DEF TypeOK, CtrlType, Label, State, End
<1>2. DataType'
  BY DEF TypeOK, DataType, AfterPush
<1>3. QED
  BY <1>1, <1>2, Frame DEF TypeOK

LEMMA TickType == \A t \in Ticker : TypeOK /\ Tick(t) => TypeOK'
<1> SUFFICES ASSUME NEW t \in Ticker, TypeOK, Tick(t) PROVE TypeOK'
  OBVIOUS
<1> USE DEF Tick, Sample, Streams
<1>1. StatType'
  BY DEF TypeOK, StatType, Streams
<1>2. TimeType'
  BY DEF TypeOK, TimeType
<1>3. QED
  BY <1>1, <1>2, Frame DEF TypeOK

LEMMA StatsTickType == \A t \in Ticker : TypeOK /\ StatsTickEnds(t) => TypeOK'
<1> SUFFICES ASSUME NEW t \in Ticker, TypeOK, StatsTickEnds(t) PROVE TypeOK'
  OBVIOUS
<1> USE DEF StatsTickEnds
<1>1. StatType'
  BY TokenType DEF TypeOK, StatType, Ticker
<1>2. TimeType'
  BY DEF TypeOK, TimeType
<1>3. QED
  BY <1>1, <1>2, Frame DEF TypeOK

LEMMA ReportTickType == \A t \in Ticker : TypeOK /\ ReportTickEnds(t) => TypeOK'
<1> SUFFICES ASSUME NEW t \in Ticker, TypeOK, ReportTickEnds(t), ~PrintPanics(t[1])
             PROVE  TypeOK'
  BY GoneType DEF ReportTickEnds, Ticker
<1> USE DEF ReportTickEnds
<1>1. StatType'
  BY TokenType DEF TypeOK, StatType, Ticker
<1>2. TimeType'
  BY DEF TypeOK, TimeType
<1>3. QED
  BY <1>1, <1>2, Frame DEF TypeOK

LEMMA ConnectType == TypeOK /\ Connect => TypeOK'
<1> SUFFICES ASSUME TypeOK, Connect PROVE TypeOK'
  OBVIOUS
<1> USE DEF Connect
<1>1. CtrlType'
  BY DEF TypeOK, CtrlType, Label, State
<1>2. NetType'
  BY DEF TypeOK, NetType
<1>3. DataType'
  BY DEF TypeOK, DataType
<1>4. TestType'
  BY DEF TypeOK, TestType
<1>5. QED
  BY <1>1, <1>2, <1>3, <1>4, Frame DEF TypeOK

-----------------------------------------------------------------------------
LEMMA StreamType == \A e \in End : TypeOK /\ Stream(e) => TypeOK'
  BY SendsType, ReceivesType, FailsType, EndsType DEF Stream

LEMMA TickerType == \A t \in Ticker : TypeOK /\ TickerStep(t) => TypeOK'
  BY TickType, StatsTickType, ReportTickType DEF TickerStep

LEMMA StutterType == TypeOK /\ UNCHANGED vars => TypeOK'
  BY Frame DEF TypeOK, vars

LEMMA NextType == TypeOK /\ [Next]_vars => TypeOK'
<1> SUFFICES ASSUME TypeOK, [Next]_vars PROVE TypeOK'
  OBVIOUS
<1>1. CASE Connect
  BY <1>1, ConnectType
<1>2. CASE ClientMain \/ ClientCtrl \/ ClientCrash
  BY <1>2, ClientMainType, ClientCtrlType, GoneType DEF ClientCrash
<1>3. CASE ServerMain \/ ServerCtrl \/ ServerCrash
  BY <1>3, ServerMainType, ServerCtrlType, GoneType DEF ServerCrash
<1>4. CASE \E n \in Session : ClientTimer(n) \/ ServerTimer(n)
  BY <1>4, ClientTimerType, ServerTimerType
<1>5. CASE \E e \in End : Stream(e)
  BY <1>5, StreamType
<1>6. CASE \E t \in Ticker : TickerStep(t)
  BY <1>6, TickerType
<1>7. CASE Rest \/ UNCHANGED vars
  BY <1>7, StutterType DEF Rest
<1>8. QED
  BY <1>1, <1>2, <1>3, <1>4, <1>5, <1>6, <1>7 DEF Next

\* Every field of the two programs keeps its type and its bound: ctrlChan never
\* holds more than its capacity, chStats more than one token, the client never
\* counts more than one TEST_END beyond its streams.
THEOREM TypeCorrect == Spec => []TypeOK
<1>1. Init => TypeOK
  BY InitType
<1>2. TypeOK /\ [Next]_vars => TypeOK'
  BY NextType
<1>3. QED
  BY <1>1, <1>2, PTL DEF Spec

-----------------------------------------------------------------------------
\* The server never runs two control handlers, and never resets the test under
\* the feet of one: OneHandler.
USE DEF HandlerInv, NoHandlerYet, BetweenSessions

\* The four fields HandlerInv reads.
HandlerView == <<pc["sMain"], pc["sCtrl"], arg["sMain"], open["server"]>>

LEMMA HandlerFrame == HandlerInv /\ UNCHANGED HandlerView => HandlerInv'
  BY DEF HandlerView

\* A process that ends closes its connection, and takes its handler with it.
LEMMA GoneHandler == \A s \in Side : TypeOK /\ HandlerInv /\ Gone(s) => HandlerInv'
  BY DEF Gone, CloseCtrl, TypeOK, CtrlType, NetType

LEMMA HandlerInit == Init => HandlerInv
  BY DEF Init

\* Nothing the client process does touches them.
LEMMA ClientMainView == TypeOK /\ ClientMain => UNCHANGED HandlerView
<1> SUFFICES ASSUME TypeOK, ClientMain PROVE UNCHANGED HandlerView
  OBVIOUS
<1> USE DEF TypeOK, CtrlType, NetType, HandlerView, ctrlVars, netVars
<1>1. CASE ClientStart \/ ClientContinue \/ ClientAllEnded
  BY <1>1 DEF ClientStart, ClientContinue, ClientAllEnded
<1>2. CASE ClientSendsEnd \/ SendPush("cMain") \/ ClientEndWritten
  BY <1>2 DEF ClientSendsEnd, SendPush, ClientEndWritten
<1>3. CASE ClientEndNotWritten \/ ClientExit
  BY <1>3 DEF ClientEndNotWritten, ClientExit, Exit, Gone, CloseCtrl
<1>4. QED
  BY <1>1, <1>2, <1>3 DEF ClientMain

LEMMA ClientCtrlView == TypeOK /\ ClientCtrl => UNCHANGED HandlerView
<1> SUFFICES ASSUME TypeOK, ClientCtrl PROVE UNCHANGED HandlerView
  OBVIOUS
<1> USE DEF TypeOK, CtrlType, NetType, HandlerView, ctrlVars, netVars, CloseCtrl
<1>1. CASE ClientReads \/ ClientReadFails \/ ClientGetResults \/ ClientResultsFail
  BY <1>1 DEF ClientReads, ClientReadFails, ClientGetResults, ClientResultsFail
<1>2. CASE ClientSendParams \/ ClientSendResults \/ ClientSendsDone
  BY <1>2 DEF ClientSendParams, ClientSendResults, ClientSendsDone, ClientSends
<1>3. CASE ClientConnects \/ ClientConnectRefused \/ ClientInits
  BY <1>3 DEF ClientConnects, ClientConnectRefused, ClientInits
<1>4. CASE ClientPushesRunning \/ ClientClosesStreams \/ ClientReports \/ SendPush("cCtrl")
  BY <1>4 DEF ClientPushesRunning, ClientClosesStreams, ClientReports, SendPush, Panic, Gone
<1>5. CASE ClientClosesCtrl \/ ClientPushesDone
  BY <1>5 DEF ClientClosesCtrl, ClientPushesDone
<1>6. QED
  BY <1>1, <1>2, <1>3, <1>4, <1>5 DEF ClientCtrl

\* Nor do stream goroutines, timers and tickers, save a report that panics.
LEMMA BackgroundHandler ==
    /\ TypeOK /\ HandlerInv
    /\ \/ \E n \in Session : ClientTimer(n) \/ ServerTimer(n)
       \/ \E e \in End : Stream(e)
       \/ \E t \in Ticker : TickerStep(t)
    => HandlerInv'
<1> SUFFICES ASSUME TypeOK, HandlerInv,
                    \/ \E n \in Session : ClientTimer(n) \/ ServerTimer(n)
                    \/ \E e \in End : Stream(e)
                    \/ \E t \in Ticker : TickerStep(t)
             PROVE  HandlerInv'
  OBVIOUS
<1> USE DEF HandlerView, ctrlVars, netVars
<1>1. ASSUME NEW n \in Session, ClientTimer(n) \/ ServerTimer(n) PROVE UNCHANGED HandlerView
  BY <1>1 DEF ClientTimer, ServerTimer
<1>2. ASSUME NEW e \in End, Stream(e) PROVE UNCHANGED HandlerView
  BY <1>2 DEF Stream, StreamSends, StreamReceives, StreamFails, StreamEnds, Turn, Quit
<1>3. ASSUME NEW t \in Ticker, TickerStep(t) PROVE UNCHANGED HandlerView \/ Gone(t[1])
  BY <1>3 DEF TickerStep, Tick, StatsTickEnds, ReportTickEnds, Panic
<1>4. \A t \in Ticker : t[1] \in Side
  BY DEF Ticker
<1>5. QED
  BY <1>1, <1>2, <1>3, <1>4, HandlerFrame, GoneHandler

LEMMA ServerMainHandler == TypeOK /\ HandlerInv /\ ServerMain => HandlerInv'
<1> SUFFICES ASSUME TypeOK, HandlerInv, ServerMain PROVE HandlerInv'
  OBVIOUS
<1> USE DEF TypeOK, CtrlType, NetType, ctrlVars, netVars, CloseCtrl
<1>1. CASE ServerResets
  BY <1>1 DEF ServerResets
<1>2. CASE ServerGetsParams
  BY <1>2 DEF ServerGetsParams
<1>3. CASE ServerParamsFail
  BY <1>3 DEF ServerParamsFail
<1>4. CASE ServerListens
  BY <1>4 DEF ServerListens
<1>5. CASE ServerListenFails
  BY <1>5, GoneHandler DEF ServerListenFails, Panic
<1>6. CASE ServerPops
  BY <1>6 DEF ServerPops, ServerOn
<1>7. CASE ServerAccepts
  BY <1>7 DEF ServerAccepts
<1>8. CASE ServerInits
  BY <1>8 DEF ServerInits
<1>9. CASE SendPush("sMain")
  BY <1>9 DEF SendPush
<1>10. CASE ServerWritten("sMain")
  BY <1>10 DEF ServerWritten, AfterSend
<1>11. CASE ServerNotWritten("sMain")
  BY <1>11 DEF ServerNotWritten, AfterSendFailed
<1>12. CASE ServerCtrlDone
  BY <1>12 DEF ServerCtrlDone, CtrlDone
<1>13. QED
  BY <1>1, <1>2, <1>3, <1>4, <1>5, <1>6, <1>7, <1>8, <1>9, <1>10, <1>11, <1>12
     DEF ServerMain

LEMMA ServerCtrlHandler == TypeOK /\ HandlerInv /\ ServerCtrl => HandlerInv'
<1> SUFFICES ASSUME TypeOK, HandlerInv, ServerCtrl PROVE HandlerInv'
  OBVIOUS
<1> USE DEF TypeOK, CtrlType, NetType, ctrlVars, netVars, CloseCtrl
<1>1. CASE ServerReadsEnd
  BY <1>1 DEF ServerReadsEnd, ServerHandles
<1>2. CASE ServerReadsOther
  BY <1>2 DEF ServerReadsOther, ServerHandles
<1>3. CASE ServerClosesStreams \/ ServerGetsResults \/ ServerSendsResults \/ ServerReports
  BY <1>3, GoneHandler
     DEF ServerClosesStreams, ServerGetsResults, ServerSendsResults, ServerReports, Panic
<1>4. CASE SendPush("sCtrl")
  BY <1>4 DEF SendPush
<1>5. CASE ServerWritten("sCtrl")
  BY <1>5 DEF ServerWritten, AfterSend
<1>6. CASE ServerNotWritten("sCtrl")
  BY <1>6 DEF ServerNotWritten
<1>7. CASE ServerHandlerFails \/ ServerHandlerReturns
  BY <1>7 DEF ServerHandlerFails, ServerHandlerReturns
<1>8. QED
  BY <1>1, <1>2, <1>3, <1>4, <1>5, <1>6, <1>7 DEF ServerCtrl

LEMMA HandlerNext == TypeOK /\ HandlerInv /\ [Next]_vars => HandlerInv'
<1> SUFFICES ASSUME TypeOK, HandlerInv, [Next]_vars PROVE HandlerInv'
  OBVIOUS
<1>1. CASE Connect
  BY <1>1 DEF Connect, TypeOK, CtrlType, NetType
<1>2. CASE ClientMain \/ ClientCtrl
  BY <1>2, ClientMainView, ClientCtrlView, HandlerFrame
<1>3. CASE ClientCrash
  BY <1>3, GoneHandler DEF ClientCrash, Exit
<1>4. CASE ServerMain \/ ServerCtrl
  BY <1>4, ServerMainHandler, ServerCtrlHandler
<1>5. CASE ServerCrash
  BY <1>5, GoneHandler DEF ServerCrash, Exit
<1>6. CASE \/ \E n \in Session : ClientTimer(n) \/ ServerTimer(n)
           \/ \E e \in End : Stream(e)
           \/ \E t \in Ticker : TickerStep(t)
  BY <1>6, BackgroundHandler
<1>7. CASE Rest \/ UNCHANGED vars
  BY <1>7, HandlerFrame DEF Rest, vars, HandlerView, ctrlVars, netVars
<1>8. QED
  BY <1>1, <1>2, <1>3, <1>4, <1>5, <1>6, <1>7 DEF Next

\* A control handler exists exactly from the reading of the parameters to the end
\* of its session's connection, whatever the clients do and whenever they die.
THEOREM HandlerLives == Spec => []HandlerInv
  BY HandlerInit, HandlerNext, TypeCorrect, PTL DEF Spec

\* So the server's main goroutine reads the parameters, resets the test and waits
\* for the next client with no handler running, and the last two with the
\* connection closed.
THEOREM HandlerAlone == Spec => []OneHandler
<1>1. HandlerInv => OneHandler
  BY DEF OneHandler
<1>2. QED
  BY <1>1, HandlerLives, PTL
=============================================================================
