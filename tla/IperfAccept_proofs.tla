-------------------------- MODULE IperfAccept_proofs --------------------------
(* However many clients use the server at once, and whichever die: their tests *)
(* do not overlap.                                                             *)
EXTENDS IperfAccept, TLAPS

LEMMA StreamsPositive == NumStreams \in Nat \ {0}
  BY AcceptAssumption DEF AcceptAssumption

USE StreamsPositive

\* What an accept yields, and what it leaves in the backlog, are connections.
LEMMA BacklogType ==
    ASSUME backlog \in Seq(Conn), backlog # <<>>
    PROVE  Head(backlog) \in Conn /\ Tail(backlog) \in Seq(Conn)
  OBVIOUS

\* test.ctrlConn is the connection of a client, and so are those of the streams.
LEMMA ConnFields ==
    /\ \A x \in Conn : x[1] \in Clients /\ x[2] \in 0..NumStreams /\ x = <<x[1], x[2]>>
    /\ \A c \in Clients : Ctrl(c) \in Conn
  BY DEF Conn, Ctrl

LEMMA TakenType == streams \in Seq(Conn) => Taken \subseteq Conn
  BY DEF Taken

LEMMA InitType == Init => TypeOK
<1> SUFFICES ASSUME Init PROVE TypeOK
  OBVIOUS
<1>1. ctrl \in Conn
  BY AcceptAssumption, ConnFields DEF AcceptAssumption, Init
<1>2. backlog \in Seq(Conn) /\ streams \in Seq(Conn)
  BY DEF Init
<1>3. /\ told \in [Clients -> 0..5] /\ said \in [Clients -> 0..4]
      /\ dialed \in [Clients -> 0..NumStreams]
  BY DEF Init
<1>4. cpc \in [Clients -> Phases \cup Over]
  BY DEF Init, Phases
<1>5. /\ pending \subseteq Conn /\ closed \subseteq Conn /\ timers \subseteq Clients
      /\ latest \in Clients
  BY <1>1, ConnFields DEF Init, Client
<1>6. QED
  BY <1>1, <1>2, <1>3, <1>4, <1>5 DEF Init, TypeOK

\* A client dials, and goes from one phase to another.
LEMMA ClientType == \A c \in Clients : TypeOK /\ ClientStep(c) /\ Record => TypeOK'
<1> SUFFICES ASSUME NEW c \in Clients, TypeOK, ClientStep(c), Record PROVE TypeOK'
  OBVIOUS
<1> USE DEF TypeOK, serverVars, testVars, clientVars, Phases, Over, Step
<1>0. spoiled' \in BOOLEAN
  BY DEF Record
<1>1. CASE Connects(c)
  <2>1. Append(backlog, Ctrl(c)) \in Seq(Conn)
    BY ConnFields
  <2>2. QED
    BY <1>0, <1>1, <2>1 DEF Connects
<1>2. CASE Dials(c)
  <2>1. dialed[c] + 1 \in 0..NumStreams
    BY <1>2 DEF Dials
  <2>2. <<c, dialed[c] + 1>> \in Conn
    BY <2>1 DEF Conn
  <2>3. Append(backlog, <<c, dialed[c] + 1>>) \in Seq(Conn)
    BY <2>2
  <2>4. QED
    BY <1>0, <1>2, <2>1, <2>2, <2>3 DEF Dials
<1>3. CASE CreatesStreams(c) \/ Starts(c)
  BY <1>0, <1>3 DEF CreatesStreams, Starts
<1>6. CASE SendsParams(c) \/ Ends(c) \/ SendsResults(c)
  <2>1. said' \in [Clients -> 0..4]
    <3>1. \E n \in 0..4 : Says(c, n)
      BY <1>6 DEF SendsParams, Ends, SendsResults
    <3>2. QED
      BY <3>1 DEF Says
  <2>2. QED
    BY <1>0, <1>6, <2>1 DEF SendsParams, Ends, SendsResults
<1>7. CASE Finishes(c)
  <2>1. said' \in [Clients -> 0..4]
    BY <1>7 DEF Finishes, Says
  <2>2. QED
    BY <1>0, <1>7, <2>1 DEF Finishes
<1>4. CASE Refused(c) \/ Dies(c)
  BY <1>0, <1>4 DEF Refused, Dies
<1>5. QED
  BY <1>1, <1>2, <1>3, <1>4, <1>6, <1>7 DEF ClientStep, Proceeds

LEMMA ToldType ==
    ASSUME told \in [Clients -> 0..5], NEW n \in 0..5, Tells(n) PROVE told' \in [Clients -> 0..5]
  BY DEF Tells

\* The server takes connections from one place and puts them in another.
LEMMA ServerType == TypeOK /\ (ServerStep \/ \E c \in Clients : TimerFires(c)) /\ Record => TypeOK'
<1> SUFFICES ASSUME TypeOK, ServerStep \/ \E c \in Clients : TimerFires(c), Record PROVE TypeOK'
  OBVIOUS
<1> USE DEF TypeOK, testVars, clientVars, StartsOver, Client
<1>0. spoiled' \in BOOLEAN /\ Client \in Clients /\ Taken \subseteq Conn
  BY ConnFields, TakenType DEF Record
<1>1. CASE AcceptsControl
  <2>1. ctrl' \in Conn /\ backlog' \in Seq(Conn)
    BY <1>1, BacklogType DEF AcceptsControl
  <2>2. told' \in [Clients -> 0..5]
    <3>1. CASE ctrl'[2] = 0
      <4>1. ctrl'[1] \in Clients
        BY <2>1, ConnFields
      <4>2. told' = [told EXCEPT ![ctrl'[1]] = 1]
        BY <1>1, <3>1 DEF AcceptsControl
      <4>3. QED
        BY <4>1, <4>2
    <3>2. CASE ctrl'[2] # 0
      BY <1>1, <3>2 DEF AcceptsControl
    <3>3. QED
      BY <3>1, <3>2
  <2>3. QED
    BY <1>0, <1>1, <2>1, <2>2 DEF AcceptsControl
<1>2. CASE AcceptsStream
  <2>1. PICK x \in Conn : Takes(x) /\ streams' = Append(streams, x)
    BY <1>2 DEF AcceptsStream
  <2>2. streams' \in Seq(Conn)
    BY <2>1
  <2>3. backlog' \in Seq(Conn) /\ pending' \subseteq Conn
    <3>1. CASE proto = "tcp"
      <4>1. backlog # <<>>
        BY <2>1, <3>1 DEF Takes, Arrived
      <4>2. QED
        BY <2>1, <3>1, <4>1, BacklogType DEF Takes
    <3>2. CASE proto # "tcp"
      BY <2>1, <3>2 DEF Takes
    <3>3. QED
      BY <3>1, <3>2
  <2>4. QED
    BY <1>0, <1>2, <2>1, <2>2, <2>3 DEF AcceptsStream, Takes
<1>3. CASE ReadsParams \/ Creates \/ ListenPanics
  BY <1>0, <1>3 DEF ReadsParams, Creates, ListenPanics
<1>4. CASE ParamsFail
  <2>1. streams' \in Seq(Conn) /\ closed' \subseteq Conn
    BY <1>4 DEF ParamsFail
  <2>2. QED
    BY <1>0, <1>4, <2>1 DEF ParamsFail
<1>11. CASE ListenFails
  <2>1. streams' \in Seq(Conn) /\ closed' \subseteq Conn
    BY <1>11 DEF ListenFails
  <2>2. QED
    BY <1>0, <1>11, <2>1 DEF ListenFails
<1>5. CASE Listens \/ StartsTest
  <2>1. told' \in [Clients -> 0..5]
    BY <1>0, <1>5, ToldType DEF Listens, StartsTest
  <2>2. QED
    BY <1>0, <1>5, <2>1 DEF Listens, StartsTest
<1>6. CASE EndsTest \/ Reports
  <2>1. told' \in [Clients -> 0..5]
    BY <1>0, <1>6, ToldType DEF EndsTest, Reports
  <2>2. QED
    BY <1>0, <1>6, <2>1 DEF EndsTest, Reports
<1>7. CASE ReadsEnd
  BY <1>0, <1>7 DEF ReadsEnd
<1>8. ASSUME NEW c \in Clients, TimerFires(c) PROVE TypeOK'
  BY <1>0, <1>8 DEF TimerFires
<1>9. CASE Leaves
  <2>1. /\ streams' \in Seq(Conn) /\ closed' \subseteq Conn /\ pending' \subseteq Conn
        /\ timers' \subseteq Clients
    BY <1>9 DEF Leaves
  <2>2. QED
    BY <1>0, <1>9, <2>1 DEF Leaves
<1>10. QED
  BY <1>1, <1>2, <1>3, <1>4, <1>5, <1>6, <1>7, <1>8, <1>9, <1>11 DEF ServerStep

LEMMA TypeNext == TypeOK /\ [Next]_vars => TypeOK'
<1>1. TypeOK /\ UNCHANGED vars => TypeOK'
  BY DEF TypeOK, vars, serverVars, testVars, clientVars
<1>2. QED
  BY <1>1, ClientType, ServerType DEF Next

\* The types hold, in every instance.
THEOREM AcceptTypes == Spec => []TypeOK
<1>1. QED
  BY InitType, TypeNext, PTL DEF Spec

-----------------------------------------------------------------------------
\* OneTest as an inductive invariant.  The server talks to a client from the
\* accept of its control connection to the end of its session, and ends none
\* before the client is gone or cut off.
Attended(c) == told[c] >= 1 /\ ~Gone(c) /\ Ctrl(c) \notin closed
OneTestInv ==
    /\ spc \notin {"accept", "params"} => ctrl = Ctrl(Client)
    /\ \A c \in Clients :
          cpc[c] \in {"dialing", "waiting", "running", "ending", "reporting"} => told[c] >= 1
    /\ \A c \in Clients : Attended(c) => ctrl = Ctrl(c) /\ spc # "accept"

LEMMA OneTestHolds == OneTestInv => OneTest
  BY DEF OneTestInv, OneTest, InTest, Attended, Gone, Over

LEMMA OneTestInit == Init => OneTestInv
  BY DEF Init, OneTestInv, Attended

LEMMA OneTestClient == \A c \in Clients : TypeOK /\ OneTestInv /\ ClientStep(c) => OneTestInv'
<1> SUFFICES ASSUME NEW c \in Clients, TypeOK, OneTestInv, ClientStep(c) PROVE OneTestInv'
  OBVIOUS
<1> USE DEF TypeOK, OneTestInv, Attended, Gone, Over, Client, serverVars, Step
<1>1. CASE Connects(c)
  BY <1>1 DEF Connects
<1>2. CASE Dials(c)
  BY <1>2 DEF Dials
<1>3. CASE SendsParams(c)
  BY <1>3 DEF SendsParams
<1>4. CASE CreatesStreams(c)
  <2>1. /\ UNCHANGED <<spc, ctrl, told, closed>>
        /\ told[c] >= 2 /\ cpc[c] = "sent" /\ cpc' = [cpc EXCEPT ![c] = "dialing"]
    BY <1>4 DEF CreatesStreams
  <2>2. told[c] >= 1
    <3>1. told[c] \in 0..5
      OBVIOUS
    <3>2. \A n \in 0..5 : n >= 2 => n >= 1
      OBVIOUS
    <3>3. QED
      BY <2>1, <3>1, <3>2, Zenon
  <2>3. \A d \in Clients : Attended(d)' => Attended(d)
    BY <2>1
  <2>4. \A d \in Clients :
           cpc'[d] \in {"dialing", "waiting", "running", "ending", "reporting"} => told'[d] >= 1
    BY <2>1, <2>2
  <2>5. QED
    BY <2>1, <2>3, <2>4, Zenon
<1>5. CASE Starts(c)
  BY <1>5 DEF Starts
<1>6. CASE Ends(c)
  BY <1>6 DEF Ends
<1>7. CASE SendsResults(c) \/ Finishes(c)
  BY <1>7 DEF SendsResults, Finishes
<1>8. CASE Refused(c) \/ Dies(c)
  BY <1>8 DEF Refused, Dies
<1>9. QED
  BY <1>1, <1>2, <1>3, <1>4, <1>5, <1>6, <1>7, <1>8 DEF ClientStep, Proceeds

LEMMA OneTestServer == TypeOK /\ OneTestInv /\ (ServerStep \/ \E c \in Clients : TimerFires(c)) => OneTestInv'
<1> SUFFICES ASSUME TypeOK, OneTestInv, ServerStep \/ \E c \in Clients : TimerFires(c)
             PROVE  OneTestInv'
  OBVIOUS
<1> USE DEF TypeOK, OneTestInv, Attended, Gone, Client, clientVars, StartsOver, Tells
<1>0. Client \in Clients
  BY ConnFields
<1>1. CASE AcceptsControl
  <2>1. ctrl' \in Conn
    BY <1>1, BacklogType DEF AcceptsControl
  <2>2. ctrl'[2] = 0 => ctrl' = Ctrl(ctrl'[1])
    BY <2>1, ConnFields DEF Ctrl
  <2>3. QED
    BY <1>1, <2>1, <2>2 DEF AcceptsControl
<1>2. CASE ReadsParams \/ Creates \/ ReadsEnd
  BY <1>0, <1>2 DEF ReadsParams, Creates, ReadsEnd
<1>3. CASE AcceptsStream
  BY <1>0, <1>3 DEF AcceptsStream, Takes
<1>4. CASE ParamsFail \/ ListenFails \/ Leaves
  BY <1>0, <1>4 DEF ParamsFail, ListenFails, Leaves, Left
<1>5. CASE Listens
  BY <1>0, <1>5 DEF Listens
<1>6. CASE StartsTest
  BY <1>0, <1>6 DEF StartsTest
<1>7. CASE ListenPanics
  BY <1>0, <1>7, ConnFields DEF ListenPanics
<1>10. CASE EndsTest
  BY <1>0, <1>10 DEF EndsTest
<1>11. CASE Reports
  BY <1>0, <1>11 DEF Reports
<1>8. ASSUME NEW c \in Clients, TimerFires(c) PROVE OneTestInv'
  BY <1>0, <1>8 DEF TimerFires
<1>9. QED
  BY <1>1, <1>2, <1>3, <1>4, <1>5, <1>6, <1>7, <1>8, <1>10, <1>11 DEF ServerStep

\* Two clients are never in a test at the same time, although any connection may
\* be taken for any other: a client that was told to create its streams has the
\* server to itself until it is gone or its control connection is closed.
THEOREM TestsApart == Spec => []OneTest
<1>1. OneTestInv /\ UNCHANGED vars => OneTestInv'
  BY DEF OneTestInv, Attended, Gone, Client, vars, serverVars, clientVars
<1>2. TypeOK /\ OneTestInv /\ [Next]_vars => OneTestInv'
  BY <1>1, OneTestClient, OneTestServer DEF Next
<1>3. QED
  BY AcceptTypes, OneTestInit, OneTestHolds, <1>2, PTL DEF Spec

-----------------------------------------------------------------------------
\* IndexMatches as an inductive invariant.  The connections of a client are in
\* the backlog in the order of its calls; those that are not there any more are
\* the streams of its session, if nothing else is.
InBacklog(x) == \E i \in DOMAIN backlog : backlog[i] = x
OwnStreams   == \A i \in DOMAIN streams : streams[i][1] = Client
Session      == spc \notin {"accept", "params"}

Ordered ==
    \A i, j \in DOMAIN backlog :
        i < j /\ backlog[i][1] = backlog[j][1] => backlog[i][2] < backlog[j][2]
Known(c) ==
    /\ InBacklog(Ctrl(c)) => told[c] = 0
    /\ told[c] < 2 => dialed[c] = 0 /\ cpc[c] # "dialing"
    /\ \A k \in 0..NumStreams : InBacklog(<<c, k>>) => k <= dialed[c] /\ cpc[c] # "new"
    /\ cpc[c] = "new" => told[c] = 0 /\ said[c] = 0
    /\ said[c] >= 1 => told[c] >= 1
Begun ==
    /\ Session => said[Client] >= 1
    /\ spc \in {"accept", "params", "listen"} => streams = <<>>
    /\ spc \in {"params", "listen"} /\ ctrl = Ctrl(Client) => told[Client] = 1
Matched == OwnStreams => \A i \in DOMAIN streams : streams[i] = <<Client, i>>
Waiting ==
    Session /\ OwnStreams =>
        /\ Len(streams) <= dialed[Client]
        /\ \A k \in 1..NumStreams :
              /\ InBacklog(<<Client, k>>) => k > Len(streams)
              /\ k > Len(streams) /\ k <= dialed[Client] => InBacklog(<<Client, k>>)
OrderInv == Ordered /\ (\A c \in Clients : Known(c)) /\ Begun /\ Matched /\ Waiting

\* What is put into the backlog and what is taken from it.
LEMMA Enqueues ==
    ASSUME backlog \in Seq(Conn), NEW x, backlog' = Append(backlog, x)
    PROVE  /\ DOMAIN backlog' = DOMAIN backlog \cup {Len(backlog) + 1}
           /\ DOMAIN backlog = 1..Len(backlog) /\ Len(backlog) \in Nat
           /\ \A i \in DOMAIN backlog : backlog'[i] = backlog[i]
           /\ backlog'[Len(backlog) + 1] = x
           /\ \A y : InBacklog(y)' <=> InBacklog(y) \/ y = x
<1>1. /\ Len(backlog) \in Nat /\ DOMAIN backlog = 1..Len(backlog)
      /\ Len(backlog') = Len(backlog) + 1 /\ DOMAIN backlog' = 1..(Len(backlog) + 1)
      /\ \A i \in 1..Len(backlog) : backlog'[i] = backlog[i]
      /\ backlog'[Len(backlog) + 1] = x
  OBVIOUS
<1>2. DOMAIN backlog' = DOMAIN backlog \cup {Len(backlog) + 1}
  BY <1>1
<1>3. QED
  BY <1>1, <1>2 DEF InBacklog

LEMMA Dequeues ==
    ASSUME backlog \in Seq(Conn), backlog # <<>>, backlog' = Tail(backlog)
    PROVE  /\ DOMAIN backlog \subseteq Nat /\ DOMAIN backlog' \subseteq Nat
           /\ 1 \in DOMAIN backlog /\ Head(backlog) = backlog[1]
           /\ \A i \in DOMAIN backlog' : i + 1 \in DOMAIN backlog /\ backlog'[i] = backlog[i + 1]
           /\ \A y : InBacklog(y)' => InBacklog(y)
           /\ \A y : InBacklog(y) /\ y # Head(backlog) => InBacklog(y)'
<1>1. /\ Len(backlog) \in Nat \ {0} /\ DOMAIN backlog = 1..Len(backlog)
      /\ Len(backlog') = Len(backlog) - 1 /\ DOMAIN backlog' = 1..(Len(backlog) - 1)
      /\ \A i \in 1..(Len(backlog) - 1) : backlog'[i] = backlog[i + 1]
      /\ Head(backlog) = backlog[1]
  OBVIOUS
<1>2. \A i \in DOMAIN backlog' : i + 1 \in DOMAIN backlog /\ backlog'[i] = backlog[i + 1]
  BY <1>1
<1>3. \A i \in DOMAIN backlog : i # 1 => i - 1 \in DOMAIN backlog' /\ backlog'[i - 1] = backlog[i]
  BY <1>1
<1>4. QED
  BY <1>1, <1>2, <1>3 DEF InBacklog

\* The first of the backlog is before every other.
LEMMA HeadFirst ==
    ASSUME TypeOK, Ordered, backlog # <<>>, NEW y \in Conn, InBacklog(y), y[1] = Head(backlog)[1]
    PROVE  y = Head(backlog) \/ Head(backlog)[2] < y[2]
<1>1. PICK i \in DOMAIN backlog : backlog[i] = y
  BY DEF InBacklog
<1>2. /\ DOMAIN backlog = 1..Len(backlog) /\ Len(backlog) \in Nat \ {0} /\ Head(backlog) = backlog[1]
  BY DEF TypeOK
<1>3. i = 1 \/ 1 < i
  BY <1>1, <1>2
<1>4. QED
  BY <1>1, <1>2, <1>3 DEF Ordered

LEMMA OrderDequeue ==
    ASSUME TypeOK, Ordered, backlog # <<>>, backlog' = Tail(backlog)
    PROVE  Ordered' /\ \A y : y = Head(backlog) => ~InBacklog(y)'
<1>1. backlog \in Seq(Conn)
  BY DEF TypeOK
<1>2. Ordered'
  <2> SUFFICES ASSUME NEW i \in DOMAIN backlog', NEW j \in DOMAIN backlog', i < j,
                      backlog'[i][1] = backlog'[j][1]
               PROVE  backlog'[i][2] < backlog'[j][2]
    BY DEF Ordered
  <2>1. /\ i + 1 \in DOMAIN backlog /\ j + 1 \in DOMAIN backlog /\ i + 1 < j + 1
        /\ backlog'[i] = backlog[i + 1] /\ backlog'[j] = backlog[j + 1]
    BY <1>1, Dequeues
  <2>2. QED
    BY <2>1 DEF Ordered
<1>3. \A y : y = Head(backlog) => ~InBacklog(y)'
  <2> SUFFICES ASSUME NEW i \in DOMAIN backlog', backlog'[i] = Head(backlog) PROVE FALSE
    BY DEF InBacklog
  <2>1. /\ i + 1 \in DOMAIN backlog /\ backlog[i + 1] = backlog[1] /\ 1 \in DOMAIN backlog /\ 1 < i + 1
    BY <1>1, Dequeues
  <2>2. backlog[1] \in Conn /\ backlog[1][2] \in Nat
    BY <1>1, <2>1, ConnFields
  <2>3. backlog[1][2] < backlog[1][2]
    BY <2>1 DEF Ordered
  <2>4. QED
    BY <2>2, <2>3
<1>4. QED
  BY <1>2, <1>3

LEMMA OrderInit == Init => OrderInv
  BY DEF Init, OrderInv, Ordered, Known, InBacklog, Begun, Matched, Waiting, Session, OwnStreams

\* A client's step puts its own connections at the end of the backlog, if any.
LEMMA OrderAppend ==
    ASSUME TypeOK, OrderInv, NEW c \in Clients, NEW k \in 0..NumStreams,
           backlog' = Append(backlog, <<c, k>>),
           \A m \in 0..NumStreams : InBacklog(<<c, m>>) => m < k
    PROVE  Ordered'
<1> SUFFICES ASSUME NEW i \in DOMAIN backlog', NEW j \in DOMAIN backlog', i < j,
                    backlog'[i][1] = backlog'[j][1]
             PROVE  backlog'[i][2] < backlog'[j][2]
  BY DEF Ordered
<1>0. backlog \in Seq(Conn)
  BY DEF TypeOK
<1>1. /\ i \in DOMAIN backlog /\ backlog'[i] = backlog[i]
      /\ j \in DOMAIN backlog \/ j = Len(backlog) + 1
  BY <1>0, Enqueues
<1>2. CASE j \in DOMAIN backlog
  <2>1. backlog'[j] = backlog[j]
    BY <1>0, <1>2, Enqueues
  <2>2. QED
    BY <1>1, <1>2, <2>1 DEF OrderInv, Ordered
<1>3. CASE j = Len(backlog) + 1
  <2>1. backlog'[j] = <<c, k>>
    BY <1>0, <1>3, Enqueues
  <2>2. backlog[i] \in Conn
    BY <1>0, <1>1
  <2>3. /\ backlog[i][1] = c /\ backlog[i][2] \in 0..NumStreams
        /\ backlog[i] = <<c, backlog[i][2]>>
    BY <1>1, <2>1, <2>2, ConnFields
  <2>4. InBacklog(<<c, backlog[i][2]>>)
    BY <1>1, <2>3 DEF InBacklog
  <2>5. QED
    BY <1>1, <2>1, <2>3, <2>4
<1>4. QED
  BY <1>1, <1>2, <1>3

LEMMA OrderConnects ==
    ASSUME TypeOK, OrderInv, NEW c \in Clients, Connects(c), proto = "tcp"
    PROVE  OrderInv'
<1>0. /\ backlog \in Seq(Conn) /\ backlog' = Append(backlog, <<c, 0>>)
      /\ cpc[c] = "new" /\ cpc' = [cpc EXCEPT ![c] = "connected"]
      /\ UNCHANGED <<serverVars, said, dialed>>
  BY DEF Connects, Step, Ctrl, TypeOK
<1>1. ~\E m \in 0..NumStreams : InBacklog(<<c, m>>)
  BY <1>0 DEF OrderInv, Known
<1>2. \A y : InBacklog(y)' <=> InBacklog(y) \/ y = <<c, 0>>
  BY <1>0, Enqueues
<1>3. Ordered'
  <2>1. 0 \in 0..NumStreams
    OBVIOUS
  <2>2. QED
    BY <1>0, <1>1, <2>1, OrderAppend
<1>4. ASSUME NEW d \in Clients PROVE Known(d)'
  <2>0. Known(d) /\ cpc \in [Clients -> Phases \cup Over]
    BY DEF OrderInv, TypeOK
  <2>1. /\ InBacklog(Ctrl(d))' => told[d] = 0
        /\ \A k \in 0..NumStreams : InBacklog(<<d, k>>)' => k <= dialed[d] /\ cpc'[d] # "new"
    <3>1. CASE d = c
      <4>1. told[c] = 0 /\ cpc'[c] = "connected" /\ dialed[c] \in Nat
        BY <1>0, <2>0, <3>1 DEF Known, TypeOK
      <4>2. \A k \in 0..NumStreams : InBacklog(<<d, k>>)' => k = 0
        BY <1>1, <1>2, <3>1
      <4>3. QED
        BY <3>1, <4>1, <4>2
    <3>2. CASE d # c
      <4>1. cpc'[d] = cpc[d] /\ \A k \in 0..NumStreams : InBacklog(<<d, k>>)' <=> InBacklog(<<d, k>>)
        BY <1>0, <1>2, <2>0, <3>2
      <4>2. QED
        BY <2>0, <4>1 DEF Known, Ctrl
    <3>3. QED
      BY <3>1, <3>2
  <2>2. cpc'[d] = cpc[d] \/ cpc'[d] = "connected"
    BY <1>0, <2>0
  <2>3. QED
    BY <1>0, <2>0, <2>1, <2>2 DEF Known, serverVars
<1>5. Begun' /\ Matched'
  BY <1>0 DEF OrderInv, Begun, Matched, Session, OwnStreams, Client, serverVars
<1>6. Waiting'
  <2>1. \A k \in 1..NumStreams : InBacklog(<<Client, k>>)' <=> InBacklog(<<Client, k>>)
    BY <1>0, <1>2 DEF serverVars, Client
  <2>2. QED
    BY <1>0, <2>1 DEF OrderInv, Waiting, Session, OwnStreams, Client, serverVars
<1>7. QED
  BY <1>3, <1>4, <1>5, <1>6 DEF OrderInv

LEMMA OrderDials ==
    ASSUME TypeOK, OrderInv, NEW c \in Clients, Dials(c), proto = "tcp"
    PROVE  OrderInv'
<1> DEFINE k == dialed[c] + 1
<1>0. /\ backlog \in Seq(Conn) /\ backlog' = Append(backlog, <<c, k>>)
      /\ cpc[c] = "dialing" /\ k \in 1..NumStreams /\ dialed[c] \in Nat
      /\ dialed' = [dialed EXCEPT ![c] = k]
      /\ UNCHANGED <<serverVars, said>>
      /\ cpc' = [cpc EXCEPT ![c] = IF k = NumStreams THEN "waiting" ELSE "dialing"]
  BY DEF Dials, Step, TypeOK
<1>1. Known(c) /\ told[c] >= 2
  <2>1. Known(c) /\ told[c] \in 0..5
    BY DEF OrderInv, TypeOK
  <2>2. QED
    BY <1>0, <2>1 DEF Known
<1>2. \A y : InBacklog(y)' <=> InBacklog(y) \/ y = <<c, k>>
  BY <1>0, Enqueues
<1>3. Ordered'
  <2>1. \A m \in 0..NumStreams : InBacklog(<<c, m>>) => m < k
    BY <1>0, <1>1 DEF Known
  <2>2. QED
    BY <1>0, <2>1, OrderAppend
<1>4. ASSUME NEW d \in Clients PROVE Known(d)'
  <2>0. Known(d) /\ cpc \in [Clients -> Phases \cup Over] /\ dialed \in [Clients -> 0..NumStreams]
    BY DEF OrderInv, TypeOK
  <2>1. CASE d = c
    <3>1. cpc'[c] \in {"waiting", "dialing"} /\ dialed'[c] = k /\ told' = told
      BY <1>0, <2>0 DEF serverVars
    <3>2. \A m \in 0..NumStreams : InBacklog(<<c, m>>)' => m <= k
      BY <1>0, <1>1, <1>2 DEF Known
    <3>3. ~InBacklog(Ctrl(c))'
      <4>1. ~InBacklog(Ctrl(c)) /\ Ctrl(c) # <<c, k>>
        BY <1>0, <1>1 DEF Known, TypeOK, Ctrl
      <4>2. QED
        BY <1>2, <4>1
    <3>4. QED
      BY <1>0, <1>1, <2>1, <3>1, <3>2, <3>3 DEF Known
  <2>2. CASE d # c
    <3>1. /\ cpc'[d] = cpc[d] /\ dialed'[d] = dialed[d] /\ UNCHANGED <<told, said>>
          /\ \A m \in 0..NumStreams : InBacklog(<<d, m>>)' <=> InBacklog(<<d, m>>)
      BY <1>0, <1>2, <2>0, <2>2 DEF serverVars
    <3>2. QED
      BY <2>0, <3>1 DEF Known, Ctrl
  <2>3. QED
    BY <2>1, <2>2
<1>5. Begun' /\ Matched'
  BY <1>0 DEF OrderInv, Begun, Matched, Session, OwnStreams, Client, serverVars
<1>6. Waiting'
  <2> SUFFICES ASSUME Session, OwnStreams
               PROVE  /\ Len(streams) <= dialed'[Client]
                      /\ \A m \in 1..NumStreams :
                            /\ InBacklog(<<Client, m>>)' => m > Len(streams)
                            /\ m > Len(streams) /\ m <= dialed'[Client] => InBacklog(<<Client, m>>)'
    BY <1>0 DEF Waiting, Session, OwnStreams, Client, serverVars
  <2>0. /\ Client \in Clients /\ Client' = Client /\ Len(streams) \in Nat
        /\ Len(streams) <= dialed[Client] /\ dialed \in [Clients -> 0..NumStreams]
        /\ \A m \in 1..NumStreams :
              /\ InBacklog(<<Client, m>>) => m > Len(streams)
              /\ m > Len(streams) /\ m <= dialed[Client] => InBacklog(<<Client, m>>)
    <3>1. Client \in Clients /\ Client' = Client
      BY <1>0, ConnFields DEF TypeOK, Client, serverVars
    <3>2. Len(streams) \in Nat /\ dialed \in [Clients -> 0..NumStreams]
      BY DEF TypeOK
    <3>3. QED
      BY <3>1, <3>2 DEF OrderInv, Waiting
  <2>1. CASE Client = c
    BY <1>0, <1>2, <2>0, <2>1
  <2>2. CASE Client # c
    BY <1>0, <1>2, <2>0, <2>2
  <2>3. QED
    BY <2>1, <2>2
<1>7. QED
  BY <1>3, <1>4, <1>5, <1>6 DEF OrderInv

\* The other steps of a client leave the backlog alone.
LEMMA OrderProceeds ==
    ASSUME TypeOK, OrderInv, OneTestInv, proto = "tcp",
           NEW c \in Clients, ClientStep(c), ~Connects(c), ~Dials(c)
    PROVE  OrderInv'
<1>1. UNCHANGED <<backlog, serverVars, dialed>>
  BY DEF ClientStep, Proceeds, SendsParams, CreatesStreams, Starts, Ends, SendsResults, Finishes,
         Refused, Dies
<1>0. /\ cpc[c] # "new" /\ \A d \in Clients \ {c} : cpc'[d] = cpc[d]
      /\ cpc'[c] # "new" /\ (cpc'[c] = "dialing" => told[c] >= 2)
  BY DEF ClientStep, Proceeds, SendsParams, CreatesStreams, Starts, Ends, SendsResults, Finishes,
         Refused, Dies, Step, TypeOK, Over
<1>2. ASSUME NEW d \in Clients
      PROVE  /\ d # c => said'[d] = said[d]
             /\ said[d] >= 1 => said'[d] >= 1
             /\ said'[d] >= 1 => said[d] >= 1 \/ told[d] >= 1
  <2>1. CASE SendsParams(c)
    BY <2>1 DEF SendsParams, Says, TypeOK
  <2>2. CASE Ends(c) \/ SendsResults(c) \/ Finishes(c)
    <3>1. told[c] >= 1 /\ \E n \in 2..4 : said' = [said EXCEPT ![c] = n]
      BY <2>2 DEF Ends, SendsResults, Finishes, Step, Says, OneTestInv
    <3>2. QED
      BY <3>1 DEF TypeOK
  <2>3. CASE CreatesStreams(c) \/ Starts(c) \/ Refused(c) \/ Dies(c)
    BY <2>3 DEF CreatesStreams, Starts, Refused, Dies
  <2>4. QED
    BY <2>1, <2>2, <2>3 DEF ClientStep, Proceeds
<1>3. \A y : InBacklog(y)' <=> InBacklog(y)
  BY <1>1 DEF InBacklog
<1>4. Ordered'
  BY <1>1 DEF OrderInv, Ordered
<1>5. ASSUME NEW d \in Clients PROVE Known(d)'
  <2>1. Known(d) /\ told \in [Clients -> 0..5]
    BY DEF OrderInv, TypeOK
  <2>2. QED
    BY <1>0, <1>1, <1>2, <1>3, <2>1 DEF Known, serverVars
<1>6. Begun' /\ Matched'
  <2>1. Client \in Clients
    BY ConnFields DEF TypeOK, Client
  <2>2. said[Client] >= 1 => said'[Client] >= 1
    BY <1>2, <2>1
  <2>3. QED
    BY <1>1, <2>2 DEF OrderInv, Begun, Matched, Session, OwnStreams, Client, serverVars
<1>7. Waiting'
  BY <1>1, <1>3 DEF OrderInv, Waiting, Session, OwnStreams, Client, serverVars
<1>8. QED
  BY <1>4, <1>5, <1>6, <1>7 DEF OrderInv

\* The server takes a connection: the first, for a control connection.
LEMMA OrderAcceptsControl ==
    ASSUME TypeOK, OrderInv, AcceptsControl, proto = "tcp"
    PROVE  OrderInv'
<1>0. /\ backlog \in Seq(Conn) /\ backlog # <<>> /\ backlog' = Tail(backlog)
      /\ spc = "accept" /\ spc' = "params" /\ streams' = streams /\ ctrl' = Head(backlog)
      /\ UNCHANGED clientVars
      /\ told' = IF ctrl'[2] = 0 THEN [told EXCEPT ![ctrl'[1]] = 1] ELSE told
  BY DEF AcceptsControl, TypeOK
<1>1. ctrl' \in Conn /\ ctrl'[1] \in Clients /\ ctrl' = <<ctrl'[1], ctrl'[2]>>
  BY <1>0, BacklogType, ConnFields
<1>2. InBacklog(ctrl')
  <2>1. 1 \in DOMAIN backlog /\ Head(backlog) = backlog[1]
    BY <1>0, Dequeues
  <2>2. QED
    BY <1>0, <2>1 DEF InBacklog
<1>3. ctrl'[2] = 0 => told[ctrl'[1]] = 0 /\ ctrl' = Ctrl(ctrl'[1]) /\ cpc[ctrl'[1]] # "new"
  <2>1. Known(ctrl'[1]) /\ 0 \in 0..NumStreams
    BY <1>1 DEF OrderInv
  <2>2. QED
    BY <1>1, <1>2, <2>1 DEF Known, Ctrl
<1>4. Ordered' /\ \A y : y = ctrl' => ~InBacklog(y)'
  BY <1>0, OrderDequeue DEF OrderInv
<1>5. \A y : InBacklog(y)' => InBacklog(y)
  BY <1>0, Dequeues
<1>6. ASSUME NEW d \in Clients PROVE Known(d)'
  <2>0. Known(d) /\ told \in [Clients -> 0..5]
    BY DEF OrderInv, TypeOK
  <2>1. CASE ctrl'[2] = 0 /\ d = ctrl'[1]
    <3>1. told[d] = 0 /\ told'[d] = 1 /\ ctrl' = Ctrl(d) /\ cpc[d] # "new"
      BY <1>0, <1>3, <2>0, <2>1
    <3>2. ~InBacklog(Ctrl(d))'
      BY <1>4, <3>1
    <3>3. QED
      BY <1>0, <1>5, <2>0, <3>1, <3>2 DEF Known, clientVars
  <2>2. CASE ~(ctrl'[2] = 0 /\ d = ctrl'[1])
    <3>1. told'[d] = told[d]
      BY <1>0, <1>1, <2>0, <2>2
    <3>2. QED
      BY <1>0, <1>5, <2>0, <3>1 DEF Known, clientVars
  <2>3. QED
    BY <2>1, <2>2
<1>10. streams' = <<>>
  BY <1>0 DEF OrderInv, Begun
<1>7. Begun'
  <2>1. ASSUME ctrl' = Ctrl(ctrl'[1]) PROVE told'[ctrl'[1]] = 1
    <3>1. ctrl'[2] = 0
      BY <2>1 DEF Ctrl
    <3>2. QED
      BY <1>0, <1>1, <3>1 DEF TypeOK
  <2>2. QED
    BY <1>0, <1>10, <2>1 DEF Begun, Session, Client
<1>8. Matched' /\ Waiting'
  BY <1>0, <1>10 DEF Matched, Waiting, Session
<1>9. QED
  BY <1>4, <1>6, <1>7, <1>8 DEF OrderInv

\* proto.accept: the first again, and the next of its client if all were its own.
LEMMA OrderAcceptsStream ==
    ASSUME TypeOK, OrderInv, AcceptsStream, proto = "tcp"
    PROVE  OrderInv'
<1>1. PICK x \in Conn : Takes(x) /\ streams' = Append(streams, x)
  BY DEF AcceptsStream
<1>2. /\ backlog \in Seq(Conn) /\ backlog # <<>> /\ backlog' = Tail(backlog) /\ x = Head(backlog)
      /\ UNCHANGED <<ctrl, told, clientVars>>
      /\ spc = "streams" /\ spc' \in {"streams", "start"}
  BY <1>1 DEF AcceptsStream, Takes, Arrived, TypeOK
<1>3. Ordered' /\ ~InBacklog(x)'
  BY <1>2, OrderDequeue DEF OrderInv
<1>4. /\ \A y : InBacklog(y)' => InBacklog(y)
      /\ \A y : InBacklog(y) /\ y # x => InBacklog(y)'
      /\ InBacklog(x)
  BY <1>2, Dequeues DEF InBacklog
<1>5. \A d \in Clients : Known(d)'
  BY <1>2, <1>4 DEF OrderInv, Known, clientVars
<1>6. Begun'
  BY <1>2 DEF OrderInv, Begun, Session, Client, clientVars
<1>7. /\ streams \in Seq(Conn) /\ Len(streams) \in Nat /\ DOMAIN streams = 1..Len(streams)
      /\ Len(streams') = Len(streams) + 1 /\ DOMAIN streams' = 1..(Len(streams) + 1)
      /\ \A i \in DOMAIN streams : streams'[i] = streams[i]
      /\ streams'[Len(streams) + 1] = x
  BY <1>1 DEF TypeOK
<1>8. ASSUME OwnStreams'
      PROVE  OwnStreams /\ x = <<Client, Len(streams) + 1>> /\ Len(streams) + 1 <= dialed[Client]
  <2>1. OwnStreams /\ x[1] = Client
    BY <1>2, <1>7, <1>8 DEF OwnStreams, Client
  <2>2. /\ Client \in Clients /\ Known(Client) /\ x[2] \in 0..NumStreams /\ x = <<Client, x[2]>>
        /\ told[Client] >= 1 /\ dialed[Client] \in 0..NumStreams
    <3>1. Client \in Clients /\ x[2] \in 0..NumStreams /\ x = <<Client, x[2]>>
      BY <2>1, ConnFields DEF TypeOK, Client
    <3>2. Known(Client) /\ said[Client] >= 1
      BY <1>2, <3>1 DEF OrderInv, Begun, Session
    <3>3. QED
      BY <3>1, <3>2 DEF Known, TypeOK
  <2>3. x[2] # 0
    <3>1. x[2] = 0 => x = Ctrl(Client)
      BY <2>2 DEF Ctrl
    <3>2. QED
      BY <1>4, <2>2, <3>1 DEF Known
  <2>4. /\ x[2] \in 1..NumStreams /\ x[2] <= dialed[Client] /\ InBacklog(<<Client, x[2]>>)
    BY <1>4, <2>2, <2>3 DEF Known
  <2>5. /\ x[2] > Len(streams)
        /\ \A k \in 1..NumStreams :
              k > Len(streams) /\ k <= dialed[Client] => InBacklog(<<Client, k>>)
    BY <1>2, <2>1, <2>4 DEF OrderInv, Waiting, Session
  <2>6. Len(streams) + 1 \in 1..NumStreams /\ Len(streams) + 1 <= x[2]
    BY <1>7, <2>4, <2>5
  <2>7. InBacklog(<<Client, Len(streams) + 1>>)
    BY <1>7, <2>2, <2>4, <2>5, <2>6
  <2>8. <<Client, Len(streams) + 1>> \in Conn
    BY <2>2, <2>6 DEF Conn
  <2>9. <<Client, Len(streams) + 1>> = x \/ x[2] < Len(streams) + 1
    BY <1>2, <2>1, <2>7, <2>8, HeadFirst DEF OrderInv
  <2>10. x = <<Client, Len(streams) + 1>>
    BY <1>7, <2>2, <2>6, <2>9
  <2>11. QED
    BY <1>7, <2>1, <2>2, <2>4, <2>6, <2>10
<1>9. Matched'
  <2> SUFFICES ASSUME OwnStreams', NEW i \in DOMAIN streams' PROVE streams'[i] = <<Client, i>>
    BY <1>2 DEF Matched, Client
  <2>1. OwnStreams /\ \A j \in DOMAIN streams : streams[j] = <<Client, j>>
    BY <1>8 DEF OrderInv, Matched
  <2>2. i \in DOMAIN streams \/ i = Len(streams) + 1
    BY <1>7
  <2>3. QED
    BY <1>7, <1>8, <2>1, <2>2
<1>10. Waiting'
  <2> SUFFICES ASSUME OwnStreams', NEW k \in 1..NumStreams
               PROVE  /\ Len(streams') <= dialed[Client]
                      /\ InBacklog(<<Client, k>>)' => k > Len(streams')
                      /\ k > Len(streams') /\ k <= dialed[Client] => InBacklog(<<Client, k>>)'
    BY <1>2, <1>7, <1>8 DEF Waiting, Client, clientVars
  <2>1. /\ OwnStreams /\ x = <<Client, Len(streams) + 1>> /\ Len(streams) + 1 <= dialed[Client]
        /\ Client' = Client
    BY <1>2, <1>8 DEF Client
  <2>2. /\ InBacklog(<<Client, k>>) => k > Len(streams)
        /\ k > Len(streams) /\ k <= dialed[Client] => InBacklog(<<Client, k>>)
    BY <1>2, <2>1 DEF OrderInv, Waiting, Session
  <2>3. <<Client, k>> = x <=> k = Len(streams) + 1
    BY <2>1
  <2>4. InBacklog(<<Client, k>>)' => k > Len(streams')
    BY <1>3, <1>4, <1>7, <2>1, <2>2, <2>3
  <2>5. k > Len(streams') /\ k <= dialed[Client] => InBacklog(<<Client, k>>)'
    BY <1>4, <1>7, <2>1, <2>2, <2>3
  <2>6. QED
    BY <1>7, <2>1, <2>4, <2>5
<1>11. QED
  BY <1>3, <1>5, <1>6, <1>9, <1>10 DEF OrderInv

\* The other steps of the server, and its timers, move it through the session or
\* out of it.
Timers == \E c \in Clients : TimerFires(c)
Moves ==
    \/ ReadsParams \/ Listens \/ ListenPanics \/ Creates \/ StartsTest \/ ReadsEnd
    \/ EndsTest \/ Reports
Returns == ParamsFail \/ ListenFails \/ Leaves
LEMMA OrderServer ==
    ASSUME TypeOK, OrderInv, OneTestInv, Moves \/ Returns \/ Timers, proto = "tcp"
    PROVE  OrderInv'
<1>1. UNCHANGED <<backlog, ctrl, clientVars>>
  BY DEF Moves, Returns, Timers, ReadsParams, ParamsFail, Listens, ListenFails, ListenPanics,
         Creates, StartsTest, ReadsEnd, EndsTest, Reports, Leaves, TimerFires
<1>2. \A y : InBacklog(y)' <=> InBacklog(y)
  BY <1>1 DEF InBacklog
<1>3. Client \in Clients /\ Client' = Client /\ Known(Client) /\ told \in [Clients -> 0..5]
  BY <1>1, ConnFields DEF TypeOK, OrderInv, Client
<1>4. \/ told' = told
      \/ /\ Session /\ spc # "accept" /\ spc' \notin {"accept", "params", "listen"}
         /\ \E n \in {2, 3, 4, 5} : told' = [told EXCEPT ![Client] = n]
  BY DEF Moves, Returns, Timers, ReadsParams, ParamsFail, Listens, ListenFails, ListenPanics,
         Creates, StartsTest, ReadsEnd, EndsTest, Reports, Leaves, TimerFires, Tells, Session
<1>5. Ordered'
  BY <1>1 DEF OrderInv, Ordered
<1>6. ASSUME NEW d \in Clients PROVE Known(d)'
  <2>0. Known(d) /\ told[d] \in 0..5
    BY <1>3 DEF OrderInv
  <2>1. CASE told' = told
    BY <1>1, <1>2, <2>0, <2>1 DEF Known, clientVars
  <2>2. CASE told' # told /\ d # Client
    <3>1. told'[d] = told[d]
      BY <1>3, <1>4, <2>2
    <3>2. QED
      BY <1>1, <1>2, <2>0, <3>1 DEF Known, clientVars
  <2>3. CASE told' # told /\ d = Client
    <3>1. told'[d] \in {2, 3, 4, 5} /\ said[Client] >= 1
      BY <1>3, <1>4, <2>3 DEF OrderInv, Begun
    <3>2. told[d] >= 1 /\ ~InBacklog(Ctrl(d)) /\ cpc[d] # "new"
      BY <2>0, <2>3, <3>1 DEF Known
    <3>3. QED
      BY <1>1, <1>2, <2>0, <3>1, <3>2 DEF Known, clientVars
  <2>4. QED
    BY <2>1, <2>2, <2>3
<1>7. CASE Returns
  <2>1. spc' = "accept" /\ streams' = <<>>
    BY <1>7 DEF Returns, ParamsFail, ListenFails, Leaves, StartsOver
  <2>2. Begun' /\ Matched' /\ Waiting'
    BY <2>1 DEF Begun, Matched, Waiting, Session
  <2>3. QED
    BY <1>5, <1>6, <2>2 DEF OrderInv
<1>8. CASE ReadsParams
  <2>1. /\ spc = "params" /\ spc' = "listen" /\ ctrl = Ctrl(Client) /\ said[Client] >= 1
        /\ told' = told /\ streams = <<>> /\ streams' = streams /\ told[Client] = 1
    BY <1>8 DEF ReadsParams, OrderInv, Begun
  <2>2. Begun'
    BY <1>1, <1>3, <2>1 DEF Begun, Session, clientVars
  <2>3. dialed[Client] = 0 /\ \A k \in 1..NumStreams : ~InBacklog(<<Client, k>>)
    BY <1>3, <2>1 DEF Known
  <2>4. Matched' /\ Waiting'
    BY <1>1, <1>2, <1>3, <2>1, <2>3 DEF Matched, Waiting, clientVars
  <2>5. QED
    BY <1>5, <1>6, <2>2, <2>4 DEF OrderInv
<1>9. CASE (Moves /\ ~ReadsParams) \/ Timers
  <2>1. /\ Session' <=> Session
        /\ streams' = streams
        /\ spc' = spc \/ spc' \notin {"accept", "params", "listen"}
    BY <1>9 DEF Moves, Timers, Listens, ListenPanics, Creates, StartsTest, ReadsEnd, EndsTest,
                Reports, TimerFires, Session
  <2>2. Begun'
    <3>1. spc' = spc => told' = told
      BY <1>4, <1>9 DEF Moves, Timers, Listens, ListenPanics, Creates, StartsTest, ReadsEnd,
                        EndsTest, Reports, TimerFires
    <3>2. QED
      BY <1>1, <1>3, <2>1, <3>1 DEF OrderInv, Begun, clientVars
  <2>3. Matched'
    BY <1>1, <2>1 DEF OrderInv, Matched, OwnStreams, Client
  <2>4. Waiting'
    BY <1>1, <1>2, <1>3, <2>1 DEF OrderInv, Waiting, OwnStreams, clientVars
  <2>5. QED
    BY <1>5, <1>6, <2>2, <2>3, <2>4 DEF OrderInv
<1>10. QED
  BY <1>7, <1>8, <1>9

\* Whatever else comes through the listener of a TCP test: if the streams of a
\* session are its client's, the server has them in the order the client does.
THEOREM StreamsInOrder == Spec => []IndexMatches
<1>1. OneTestInv /\ UNCHANGED vars => OneTestInv'
  BY DEF OneTestInv, Attended, Gone, Client, vars, serverVars, clientVars
<1>2. TypeOK /\ OneTestInv /\ [Next]_vars => OneTestInv'
  BY <1>1, OneTestClient, OneTestServer DEF Next
<1>3. TypeOK /\ OneTestInv /\ (proto = "tcp" => OrderInv) /\ [Next]_vars => (proto = "tcp" => OrderInv)'
  <2> SUFFICES ASSUME TypeOK, OneTestInv, proto = "tcp" => OrderInv, [Next]_vars, proto' = "tcp"
               PROVE  OrderInv'
    OBVIOUS
  <2>1. proto' = proto
    BY DEF Next, ClientStep, Proceeds, Connects, SendsParams, CreatesStreams, Dials, Starts, Ends,
           SendsResults, Finishes, Refused, Dies, ServerStep, AcceptsControl, ReadsParams,
           ParamsFail, Listens, ListenFails, ListenPanics, Creates, AcceptsStream, Takes, StartsTest,
           ReadsEnd, EndsTest, Reports, Leaves, TimerFires, vars
  <2>2. OrderInv /\ proto = "tcp"
    BY <2>1
  <2>3. CASE UNCHANGED vars
    BY <2>2, <2>3 DEF vars, serverVars, clientVars, OrderInv, Ordered, Known, InBacklog, Begun,
                      Matched, Waiting, Session, OwnStreams, Client
  <2>4. ASSUME NEW c \in Clients, ClientStep(c) PROVE OrderInv'
    BY <2>2, <2>4, OrderConnects, OrderDials, OrderProceeds
  <2>5. CASE ServerStep \/ \E c \in Clients : TimerFires(c)
    BY <2>2, <2>5, OrderAcceptsControl, OrderAcceptsStream, OrderServer
       DEF ServerStep, Moves, Returns, Timers
  <2>6. QED
    BY <2>3, <2>4, <2>5 DEF Next
<1>4. (proto = "tcp" => OrderInv) => IndexMatches
  BY DEF OrderInv, Matched, OwnStreams, IndexMatches
<1>5. QED
  BY AcceptTypes, OneTestInit, OrderInit, <1>2, <1>3, <1>4, PTL DEF Spec
=============================================================================
