------------------------ MODULE StreamCounters_proofs ------------------------
(* For any number of streams, sizes, blocks, ticks and retransmissions: what  *)
(* the counters of a test, which nobody locks, can be trusted for.            *)
EXTENDS StreamCounters, TLAPS

USE CountersAssumption DEF CountersAssumption

\* The parts of TypeOK, one for each group of variables.
Points   == {"io", "count", "interval", "test", "total", "turn", "ended", "failed"}
Places   == {"idle", "retrans", "delta", "apply", "bytes", "reset"}
CbRecord == [at : Places, i : Index, total : 0..MaxRetrans, delta : Nat]
StreamOK ==
    /\ total \in Nat /\ bytes \in [Index -> Counter] /\ interval \in [Index -> Counter]
    /\ moved \in [Index -> Nat] /\ got \in [Index -> Nat] /\ tmp \in [Index -> Nat]
    /\ pc \in [Index -> Points]
StatOK ==
    /\ prev \in [Index -> 0..MaxRetrans] /\ again \in [Index -> Nat]
    /\ cb \in [Caller -> CbRecord] /\ reported \in [Index -> Nat]
TestOK ==
    /\ isServer \in BOOLEAN /\ mode \in {"SENDER", "RECEIVER"}
    /\ state \in {"RUNNING", "END", "DISPLAY"} /\ done \in BOOLEAN /\ open \in BOOLEAN
    /\ retrans \in 0..MaxRetrans /\ ticks \in Nat
    /\ results \in {"none", "stats", "ready", "sent", "got", "both"}
HistoryOK ==
    /\ credited \in Nat /\ lapped \subseteq Index /\ met \in BOOLEAN /\ told \in [Index -> Nat]

LEMMA Parts ==
    /\ TypeOK <=> StreamOK /\ StatOK /\ TestOK /\ HistoryOK
    /\ TypeOK' <=> StreamOK' /\ StatOK' /\ TestOK' /\ HistoryOK'
  BY DEF TypeOK, StreamOK, StatOK, TestOK, HistoryOK, Points, Places, CbRecord

LEMMA Frames ==
    /\ StreamOK /\ UNCHANGED streamVars => StreamOK'
    /\ StatOK /\ UNCHANGED statVars => StatOK'
    /\ TestOK /\ UNCHANGED testVars => TestOK'
    /\ HistoryOK /\ UNCHANGED history => HistoryOK'
  BY DEF StreamOK, StatOK, TestOK, HistoryOK, streamVars, statVars, testVars, history

LEMMA Directions == Own \in Direction /\ Peer \in Direction /\ Own # Peer
  BY DEF Own, Peer, Direction

LEMMA FreshRecord == \A label \in Places, k \in Index : At(label, k) \in CbRecord
  BY DEF At, CbRecord

LEMMA IdleRecord == Idle \in CbRecord
  BY FreshRecord DEF Idle, Places, Index

-----------------------------------------------------------------------------
\* The types of the goroutines of the streams.
LEMMA StreamStepType == TypeOK /\ (\E i \in Index : Stream(i)) => TypeOK'
<1> SUFFICES ASSUME TypeOK, NEW i \in Index, Stream(i) PROVE TypeOK'
  OBVIOUS
<1>0. StreamOK /\ StatOK /\ TestOK /\ HistoryOK
  BY Parts
<1>1. CASE Moves(i)
  <2>1. PICK m \in Sizes : got' = [got EXCEPT ![i] = m]
    BY <1>1 DEF Moves
  <2>2. got' \in [Index -> Nat]
    BY <1>0, <2>1 DEF StreamOK
  <2>3. pc' \in [Index -> Points]
    BY <1>0, <1>1 DEF Moves, StreamOK, Points
  <2>4. moved' \in [Index -> Nat]
    BY <1>0, <1>1 DEF Moves, StreamOK
  <2>5. StreamOK'
    BY <1>0, <1>1, <2>2, <2>3, <2>4 DEF Moves, StreamOK
  <2>6. QED
    BY <1>0, <1>1, <2>5, Parts, Frames DEF Moves
<1>2. CASE Counts(i)
  <2>1. bytes[i][Own] + got[i] \in Nat /\ interval[i][Own] \in Nat
    BY <1>0, Directions DEF StreamOK, Counter
  <2>2. bytes' \in [Index -> Counter]
    BY <1>0, <1>2, <2>1 DEF Counts, StreamOK, Counter
  <2>3. tmp' \in [Index -> Nat] /\ pc' \in [Index -> Points]
    BY <1>0, <1>2, <2>1 DEF Counts, StreamOK, Points
  <2>4. HistoryOK'
    BY <1>0, <1>2 DEF Counts, HistoryOK
  <2>5. QED
    BY <1>0, <1>2, <2>2, <2>3, <2>4, Parts, Frames DEF Counts, StreamOK
<1>3. CASE CountsInterval(i)
  <2>1. tmp[i] + got[i] \in Nat
    BY <1>0 DEF StreamOK
  <2>2. interval' \in [Index -> Counter]
    BY <1>0, <1>3, <2>1 DEF CountsInterval, StreamOK, Counter
  <2>3. pc' \in [Index -> Points]
    BY <1>0, <1>3 DEF CountsInterval, StreamOK, Points
  <2>4. QED
    BY <1>0, <1>3, <2>2, <2>3, Parts, Frames DEF CountsInterval, StreamOK
<1>4. CASE Reads(i)
  <2>1. tmp' \in [Index -> Nat] /\ pc' \in [Index -> Points]
    BY <1>0, <1>4 DEF Reads, StreamOK, Points
  <2>2. QED
    BY <1>0, <1>4, <2>1, Parts, Frames DEF Reads, StreamOK
<1>5. CASE CountsTotal(i)
  <2>1. total' \in Nat /\ credited' \in Nat
    BY <1>0, <1>5 DEF CountsTotal, StreamOK, HistoryOK
  <2>2. tmp' \in [Index -> Nat] /\ pc' \in [Index -> Points]
    BY <1>0, <1>5 DEF CountsTotal, StreamOK, Points
  <2>3. QED
    BY <1>0, <1>5, <2>1, <2>2, Parts, Frames DEF CountsTotal, StreamOK, HistoryOK
<1>6. CASE Turns(i)
  <2>1. pc' \in [Index -> Points]
    BY <1>0, <1>6 DEF Turns, StreamOK, Points
  <2>2. QED
    BY <1>0, <1>6, <2>1, Parts, Frames DEF Turns, StreamOK
<1>7. CASE Fails(i)
  <2>1. pc' \in [Index -> Points]
    BY <1>0, <1>7 DEF Fails, StreamOK, Points
  <2>2. QED
    BY <1>0, <1>7, <2>1, Parts, Frames DEF Fails, StreamOK
<1>8. QED
  BY <1>1, <1>2, <1>3, <1>4, <1>5, <1>6, <1>7 DEF Stream

\* Those of the callbacks.
LEMMA CallbackType == TypeOK /\ (\E c \in Caller : Callback(c)) => TypeOK'
<1> SUFFICES ASSUME TypeOK, NEW c \in Caller, Callback(c) PROVE TypeOK'
  OBVIOUS
<1>0. StreamOK /\ StatOK /\ TestOK /\ HistoryOK
  BY Parts
<1>a. cb[c] \in CbRecord /\ cb[c].i \in Index /\ cb[c].total \in 0..MaxRetrans /\ cb[c].delta \in Nat
  BY <1>0 DEF StatOK, CbRecord
<1>b. \A r \in CbRecord : [cb EXCEPT ![c] = r] \in [Caller -> CbRecord]
  BY <1>0 DEF StatOK
<1>c. ASSUME NEW label \in Places, Goto(c, label)
      PROVE  cb' \in [Caller -> CbRecord]
  <2>1. At(label, cb[c].i) \in CbRecord
    BY <1>a, FreshRecord
  <2>2. QED
    BY <1>b, <1>c, <2>1 DEF Goto
<1>1. CASE ReadsRetrans(c)
  <2>1. cb' \in [Caller -> CbRecord]
    BY <1>0, <1>1 DEF ReadsRetrans, StatOK, TestOK, CbRecord, Places
  <2>2. QED
    BY <1>0, <1>1, <2>1, Parts, Frames DEF ReadsRetrans, StatOK
<1>2. CASE Delta(c)
  <2>1. prev[cb[c].i] \in Nat
    BY <1>0, <1>a DEF StatOK
  <2>2. (cb[c].total - prev[cb[c].i]) % Word \in Nat
    BY <1>a, <2>1
  <2>3. cb' \in [Caller -> CbRecord]
    BY <1>0, <1>2, <2>2 DEF Delta, StatOK, CbRecord, Places
  <2>4. QED
    BY <1>0, <1>2, <2>3, Parts, Frames DEF Delta, StatOK
<1>3. CASE AppliesRetrans(c)
  <2>1. again[cb[c].i] + cb[c].delta \in Nat
    BY <1>0, <1>a DEF StatOK
  <2>2. (again[cb[c].i] + cb[c].delta) % Word \in Nat
    BY <2>1
  <2>3. again' \in [Index -> Nat]
    BY <1>0, <1>3, <2>2 DEF AppliesRetrans, StatOK
  <2>4. prev' \in [Index -> 0..MaxRetrans]
    BY <1>0, <1>3, <1>a DEF AppliesRetrans, StatOK
  <2>5. cb' \in [Caller -> CbRecord]
    BY <1>3, <1>c DEF AppliesRetrans, Places
  <2>6. QED
    BY <1>0, <1>3, <2>3, <2>4, <2>5, Parts, Frames DEF AppliesRetrans, StatOK
<1>4. CASE Samples(c)
  <2>1. interval[cb[c].i][Own] \in Nat
    BY <1>0, <1>a, Directions DEF StreamOK, Counter
  <2>2. reported' \in [Index -> Nat]
    BY <1>0, <1>4, <1>a, <2>1 DEF Samples, StatOK
  <2>3. cb' \in [Caller -> CbRecord]
    BY <1>4, <1>c DEF Samples, Places
  <2>4. HistoryOK'
    BY <1>0, <1>4, <1>a DEF Samples, HistoryOK
  <2>5. QED
    BY <1>0, <1>4, <2>2, <2>3, <2>4, Parts, Frames DEF Samples, StatOK
<1>5. CASE Resets(c)
  <2>1. interval' \in [Index -> Counter]
    BY <1>0, <1>5 DEF Resets, StreamOK, Counter
  <2>2. cb' \in [Caller -> CbRecord]
    <3>1. CASE cb[c].i < NumStreams
      <4>1. cb[c].i + 1 \in Index
        BY <1>a, <3>1 DEF Index
      <4>2. At("retrans", cb[c].i + 1) \in CbRecord
        BY <4>1, FreshRecord DEF Places
      <4>3. cb' = [cb EXCEPT ![c] = At("retrans", cb[c].i + 1)]
        BY <1>5, <3>1, <1>0 DEF Resets, NextStream, StatOK
      <4>4. QED
        BY <1>b, <4>2, <4>3
    <3>2. CASE ~(cb[c].i < NumStreams)
      <4>1. cb' = [cb EXCEPT ![c] = Idle]
        BY <1>5, <3>2, <1>0 DEF Resets, NextStream, StatOK
      <4>2. QED
        BY <1>b, <4>1, IdleRecord
    <3>3. QED
      BY <3>1, <3>2
  <2>3. QED
    BY <1>0, <1>5, <2>1, <2>2, Parts, Frames DEF Resets, StreamOK, StatOK
<1>6. QED
  BY <1>1, <1>2, <1>3, <1>4, <1>5 DEF Callback

\* Those of the test and the exchange of results.
LEMMA TestType == TypeOK /\ Test => TypeOK'
<1> SUFFICES ASSUME TypeOK, Test PROVE TypeOK'
  OBVIOUS
<1>0. StreamOK /\ StatOK /\ TestOK /\ HistoryOK
  BY Parts
<1>a. ASSUME NEW c \in Caller, Enter(c)
      PROVE  cb' \in [Caller -> CbRecord] /\ met' \in BOOLEAN
  <2>1. At("retrans", 1) \in CbRecord
    BY FreshRecord DEF Places, Index
  <2>2. cb' \in [Caller -> CbRecord]
    BY <1>0, <1>a, <2>1 DEF Enter, StatOK
  <2>3. met' \in BOOLEAN
    BY <1>a DEF Enter
  <2>4. QED
    BY <2>2, <2>3
<1>1. CASE Ticks
  <2>1. cb' \in [Caller -> CbRecord] /\ met' \in BOOLEAN
    BY <1>1, <1>a DEF Ticks, Caller
  <2>2. ticks' \in Nat
    BY <1>0, <1>1 DEF Ticks, TestOK
  <2>3. QED
    BY <1>0, <1>1, <2>1, <2>2, Parts, Frames DEF Ticks, StatOK, TestOK, HistoryOK
<1>2. CASE Ends
  <2>1. cb' \in [Caller -> CbRecord] /\ met' \in BOOLEAN
    BY <1>2, <1>a DEF Ends, Caller
  <2>2. TestOK'
    BY <1>0, <1>2 DEF Ends, TestOK
  <2>3. QED
    BY <1>0, <1>2, <2>1, <2>2, Parts, Frames DEF Ends, StatOK, HistoryOK
<1>3. CASE Closes
  <2>1. TestOK'
    BY <1>0, <1>3 DEF Closes, TestOK
  <2>2. QED
    BY <1>0, <1>3, <2>1, Parts, Frames DEF Closes
<1>4. CASE SendsResults
  <2>1. \A i \in Index : bytes[i][Own] \in Nat
    BY <1>0, Directions DEF StreamOK, Counter
  <2>2. HistoryOK'
    BY <1>0, <1>4, <2>1 DEF SendsResults, HistoryOK
  <2>3. TestOK'
    BY <1>0, <1>4 DEF SendsResults, TestOK
  <2>4. QED
    BY <1>0, <1>4, <2>2, <2>3, Parts, Frames DEF SendsResults
<1>5. CASE GetsResults
  <2>1. PICK b \in [Index -> {0} \cup Sizes], r \in 0..MaxRetrans :
           /\ bytes' = [i \in Index |-> [bytes[i] EXCEPT ![Merged] = b[i]]]
           /\ again' = IF mode = "RECEIVER" THEN [i \in Index |-> r] ELSE again
    BY <1>5 DEF GetsResults
  <2>2. \A i \in Index : b[i] \in Nat
    <3>1. {0} \cup Sizes \subseteq Nat
      OBVIOUS
    <3>2. QED
      BY <3>1
  <2>3. bytes' \in [Index -> Counter]
    BY <1>0, <2>1, <2>2 DEF StreamOK, Counter
  <2>4. again' \in [Index -> Nat]
    BY <1>0, <2>1 DEF StatOK
  <2>5. TestOK'
    BY <1>0, <1>5 DEF GetsResults, TestOK
  <2>6. QED
    BY <1>0, <1>5, <2>3, <2>4, <2>5, Parts, Frames DEF GetsResults, StreamOK, StatOK
<1>6. CASE Displays \/ TimerFires \/ Resends
  <2>1. TestOK'
    <3>1. CASE Displays
      BY <1>0, <3>1 DEF Displays, TestOK
    <3>2. CASE TimerFires
      BY <1>0, <3>2 DEF TimerFires, TestOK
    <3>3. CASE Resends
      BY <1>0, <3>3 DEF Resends, TestOK
    <3>4. QED
      BY <1>6, <3>1, <3>2, <3>3
  <2>2. QED
    BY <1>0, <1>6, <2>1, Parts, Frames DEF Displays, TimerFires, Resends
<1>7. QED
  BY <1>1, <1>2, <1>3, <1>4, <1>5, <1>6 DEF Test

LEMMA InitType == Init => TypeOK
<1> SUFFICES ASSUME Init PROVE TypeOK
  OBVIOUS
<1>1. StreamOK
  BY DEF Init, StreamOK, Counter, Points
<1>2. cb \in [Caller -> CbRecord]
  BY IdleRecord DEF Init
<1>3. StatOK
  BY <1>2 DEF Init, StatOK
<1>4. TestOK
  <2>1. retrans \in 0..MaxRetrans
    BY DEF Init
  <2>2. QED
    BY <2>1 DEF Init, TestOK
<1>5. HistoryOK
  BY DEF Init, HistoryOK
<1>6. QED
  BY <1>1, <1>3, <1>4, <1>5, Parts

LEMMA TypeNext == TypeOK /\ [Next]_vars => TypeOK'
<1>1. TypeOK /\ UNCHANGED vars => TypeOK'
  BY Parts, Frames DEF vars
<1>2. QED
  BY <1>1, StreamStepType, CallbackType, TestType DEF Next

\* The types hold, in every instance.
THEOREM CountersTypes == Spec => []TypeOK
  BY InitType, TypeNext, PTL DEF Spec

-----------------------------------------------------------------------------
\* What a goroutine has read of the total is never more than what was added.
TotalInv ==
    /\ total <= credited
    /\ \A i \in Index : pc[i] = "total" => tmp[i] <= credited

\* The total of the test never exceeds what the streams have added to it: an
\* unlocked += loses bytes, and invents none.
THEOREM NoByteInvented == Spec => []TotalWithinCredited
<1>1. Init => TotalInv
  BY DEF Init, TotalInv
<1>2. TypeOK /\ TotalInv /\ [Next]_vars => TotalInv'
  <2> SUFFICES ASSUME TypeOK, TotalInv, [Next]_vars PROVE TotalInv'
    OBVIOUS
  <2> USE DEF TotalInv
  <2>0. StreamOK /\ HistoryOK
    BY Parts
  <2>1. ASSUME NEW i \in Index, Stream(i) PROVE TotalInv'
    <3>1. CASE Moves(i) \/ Turns(i) \/ Fails(i)
      BY <2>0, <3>1 DEF Moves, Turns, Fails, StreamOK, history
    <3>2. CASE Counts(i)
      BY <2>0, <3>2 DEF Counts, StreamOK
    <3>3. CASE CountsInterval(i)
      BY <2>0, <3>3 DEF CountsInterval, StreamOK, history
    <3>4. CASE Reads(i)
      BY <2>0, <3>4 DEF Reads, StreamOK, history
    <3>5. CASE CountsTotal(i)
      <4>1. credited' = credited + got[i] /\ got[i] \in Nat
        BY <2>0, <3>5 DEF CountsTotal, StreamOK
      <4>2. total' <= credited'
        BY <2>0, <3>5, <4>1 DEF CountsTotal, StreamOK, HistoryOK
      <4>3. ASSUME NEW j \in Index, pc'[j] = "total" PROVE tmp'[j] <= credited'
        <5>1. j # i /\ pc[j] = "total" /\ tmp'[j] = tmp[j] /\ tmp[j] \in Nat
          BY <2>0, <3>5, <4>3 DEF CountsTotal, StreamOK
        <5>2. QED
          BY <2>0, <4>1, <5>1 DEF HistoryOK
      <4>4. QED
        BY <4>2, <4>3
    <3>6. QED
      BY <2>1, <3>1, <3>2, <3>3, <3>4, <3>5 DEF Stream
  <2>2. ASSUME NEW c \in Caller, Callback(c) PROVE TotalInv'
    BY <2>2 DEF Callback, ReadsRetrans, Delta, AppliesRetrans, Samples, Resets, streamVars, history
  <2>3. CASE Test
    BY <2>3 DEF Test, Ticks, Ends, Closes, SendsResults, GetsResults, Displays, TimerFires,
                Resends, streamVars, history
  <2>4. CASE UNCHANGED vars
    BY <2>4 DEF vars, streamVars, history
  <2>5. QED
    BY <2>1, <2>2, <2>3, <2>4 DEF Next
<1>3. TotalInv => TotalWithinCredited
  BY DEF TotalInv, TotalWithinCredited
<1>4. QED
  BY CountersTypes, <1>1, <1>2, <1>3, PTL DEF Spec

-----------------------------------------------------------------------------
\* The role is that of the whole test.
LEMMA RoleKept == [Next]_vars => mode' = mode /\ isServer' = isServer /\ Own' = Own /\ Peer' = Peer
<1> SUFFICES ASSUME [Next]_vars PROVE mode' = mode /\ isServer' = isServer
  BY DEF Own, Peer
<1>1. ASSUME NEW i \in Index, Stream(i) PROVE mode' = mode /\ isServer' = isServer
  BY <1>1 DEF Stream, Moves, Counts, CountsInterval, Reads, CountsTotal, Turns, Fails, testVars
<1>2. ASSUME NEW c \in Caller, Callback(c) PROVE mode' = mode /\ isServer' = isServer
  BY <1>2 DEF Callback, ReadsRetrans, Delta, AppliesRetrans, Samples, Resets, testVars
<1>3. CASE Test
  BY <1>3 DEF Test, Ticks, Ends, Closes, SendsResults, GetsResults, Displays, TimerFires,
              Resends, testVars
<1>4. CASE UNCHANGED vars
  BY <1>4 DEF vars, testVars
<1>5. QED
  BY <1>1, <1>2, <1>3, <1>4 DEF Next

\* Whatever a stream is about to store in its interval counter, it has counted.
IntervalInv ==
    \A i \in Index :
        /\ interval[i][Own] <= bytes[i][Own]
        /\ pc[i] = "interval" => tmp[i] + got[i] <= bytes[i][Own]

\* The results of the peer leave alone what the process counts.
LEMMA MergeKeeps ==
    ASSUME TypeOK, GetsResults
    PROVE  \A i \in Index : bytes'[i][Own] = bytes[i][Own]
<1>1. StreamOK
  BY Parts
<1>2. PICK b \in [Index -> {0} \cup Sizes] :
         bytes' = [i \in Index |-> [bytes[i] EXCEPT ![Merged] = b[i]]]
  BY DEF GetsResults
<1>3. TAKE i \in Index
<1>4. bytes[i] \in Counter /\ bytes'[i] = [bytes[i] EXCEPT ![Merged] = b[i]]
  BY <1>1, <1>2 DEF StreamOK
<1>5. QED
  BY <1>4, Directions DEF Counter, Merged

\* No interval is ever reported larger than all its stream has moved.
THEOREM IntervalsBounded == Spec => []IntervalWithinBytes
<1>1. Init => IntervalInv
  BY Directions DEF Init, IntervalInv
<1>2. TypeOK /\ IntervalInv /\ [Next]_vars => IntervalInv'
  <2> SUFFICES ASSUME TypeOK, IntervalInv, [Next]_vars, NEW j \in Index
               PROVE  /\ interval'[j][Own] <= bytes'[j][Own]
                      /\ pc'[j] = "interval" => tmp'[j] + got'[j] <= bytes'[j][Own]
    BY RoleKept DEF IntervalInv
  <2>0. StreamOK
    BY Parts
  <2>a. /\ interval[j][Own] <= bytes[j][Own]
        /\ pc[j] = "interval" => tmp[j] + got[j] <= bytes[j][Own]
    BY DEF IntervalInv
  <2>b. /\ interval[j] \in Counter /\ interval[j][Own] \in Nat
        /\ bytes[j] \in Counter /\ bytes[j][Own] \in Nat
        /\ tmp[j] \in Nat /\ got[j] \in Nat
    BY <2>0, Directions DEF StreamOK, Counter
  <2>1. ASSUME NEW i \in Index, Stream(i)
        PROVE  /\ interval'[j][Own] <= bytes'[j][Own]
               /\ pc'[j] = "interval" => tmp'[j] + got'[j] <= bytes'[j][Own]
    <3>1. CASE Moves(i)
      BY <2>0, <2>a, <3>1 DEF Moves, StreamOK
    <3>2. CASE Counts(i)
      <4>1. CASE i = j
        <5>1. bytes'[j][Own] = bytes[j][Own] + got[j]
          BY <2>0, <2>b, <3>2, <4>1, Directions DEF Counts, StreamOK, Counter
        <5>2. tmp'[j] = interval[j][Own] /\ got'[j] = got[j] /\ interval' = interval
          BY <2>0, <3>2, <4>1 DEF Counts, StreamOK
        <5>3. QED
          BY <2>a, <2>b, <5>1, <5>2
      <4>2. CASE i # j
        BY <2>0, <2>a, <3>2, <4>2 DEF Counts, StreamOK
      <4>3. QED
        BY <4>1, <4>2
    <3>3. CASE CountsInterval(i)
      <4>1. CASE i = j
        <5>1. interval'[j][Own] = tmp[j] + got[j] /\ pc'[j] = "test" /\ bytes' = bytes
          BY <2>0, <2>b, <3>3, <4>1, Directions DEF CountsInterval, StreamOK, Counter
        <5>2. pc[j] = "interval"
          BY <3>3, <4>1 DEF CountsInterval
        <5>3. QED
          BY <2>a, <5>1, <5>2
      <4>2. CASE i # j
        BY <2>0, <2>a, <3>3, <4>2 DEF CountsInterval, StreamOK
      <4>3. QED
        BY <4>1, <4>2
    <3>4. CASE Reads(i)
      BY <2>0, <2>a, <3>4 DEF Reads, StreamOK
    <3>5. CASE CountsTotal(i)
      BY <2>0, <2>a, <3>5 DEF CountsTotal, StreamOK
    <3>6. CASE Turns(i)
      BY <2>0, <2>a, <3>6 DEF Turns, StreamOK
    <3>7. CASE Fails(i)
      BY <2>0, <2>a, <3>7 DEF Fails, StreamOK
    <3>8. QED
      BY <2>1, <3>1, <3>2, <3>3, <3>4, <3>5, <3>6, <3>7 DEF Stream
  <2>2. ASSUME NEW c \in Caller, Callback(c)
        PROVE  /\ interval'[j][Own] <= bytes'[j][Own]
               /\ pc'[j] = "interval" => tmp'[j] + got'[j] <= bytes'[j][Own]
    <3>1. CASE Resets(c)
      <4>1. interval'[j][Own] = interval[j][Own] \/ interval'[j][Own] = 0
        BY <2>0, <3>1, Directions DEF Resets, StreamOK
      <4>2. UNCHANGED <<bytes, pc, tmp, got>>
        BY <3>1 DEF Resets
      <4>3. QED
        BY <2>a, <2>b, <4>1, <4>2
    <3>2. CASE ~Resets(c)
      BY <2>2, <2>a, <3>2 DEF Callback, ReadsRetrans, Delta, AppliesRetrans, Samples, streamVars
    <3>3. QED
      BY <3>1, <3>2
  <2>3. CASE GetsResults
    <3>1. UNCHANGED <<interval, pc, tmp, got>>
      BY <2>3 DEF GetsResults
    <3>2. QED
      BY <2>a, <2>3, <3>1, MergeKeeps
  <2>4. CASE Test /\ ~GetsResults
    BY <2>a, <2>4 DEF Test, Ticks, Ends, Closes, SendsResults, Displays, TimerFires, Resends, streamVars
  <2>5. CASE UNCHANGED vars
    BY <2>a, <2>5 DEF vars, streamVars
  <2>6. QED
    BY <2>1, <2>2, <2>3, <2>4, <2>5 DEF Next
<1>3. IntervalInv => IntervalWithinBytes
  BY DEF IntervalInv, IntervalWithinBytes
<1>4. QED
  BY CountersTypes, <1>1, <1>2, <1>3, PTL DEF Spec

-----------------------------------------------------------------------------
\* What a process has counted is never overwritten, not even by its peer.
THEOREM CountsKept == Spec => OwnCountKept
<1>1. TypeOK /\ [Next]_vars => [\A i \in Index : bytes'[i][Own] >= bytes[i][Own]]_vars
  <2> SUFFICES ASSUME TypeOK, Next, NEW j \in Index PROVE bytes'[j][Own] >= bytes[j][Own]
    OBVIOUS
  <2>0. StreamOK /\ bytes[j] \in Counter /\ bytes[j][Own] \in Nat /\ got[j] \in Nat
    BY Parts, Directions DEF StreamOK, Counter
  <2>1. ASSUME NEW i \in Index, Counts(i) PROVE bytes'[j][Own] >= bytes[j][Own]
    <3>1. bytes'[j][Own] = bytes[j][Own] \/ bytes'[j][Own] = bytes[j][Own] + got[j]
      BY <2>0, <2>1, Directions DEF Counts, StreamOK, Counter
    <3>2. QED
      BY <2>0, <3>1
  <2>2. ASSUME NEW i \in Index, Stream(i), ~Counts(i) PROVE bytes' = bytes
    BY <2>2 DEF Stream, Moves, CountsInterval, Reads, CountsTotal, Turns, Fails
  <2>3. ASSUME NEW c \in Caller, Callback(c) PROVE bytes' = bytes
    BY <2>3 DEF Callback, ReadsRetrans, Delta, AppliesRetrans, Samples, Resets, streamVars
  <2>4. CASE GetsResults
    BY <2>0, <2>4, MergeKeeps
  <2>5. CASE Test /\ ~GetsResults
    BY <2>0, <2>5 DEF Test, Ticks, Ends, Closes, SendsResults, Displays, TimerFires, Resends, streamVars
  <2>6. QED
    BY <2>0, <2>1, <2>2, <2>3, <2>4, <2>5 DEF Next
<1>2. QED
  BY CountersTypes, <1>1, PTL DEF Spec, OwnCountKept

-----------------------------------------------------------------------------
\* Where a callback goes.
LEMMA CallbackMoves ==
    ASSUME TypeOK, NEW c \in Caller, Callback(c)
    PROVE  /\ \A d \in Caller \ {c} : cb'[d] = cb[d]
           /\ ReadsRetrans(c)   => cb'[c].at = "delta" /\ cb'[c].i = cb[c].i
           /\ Delta(c)          => cb'[c].at = "apply" /\ cb'[c].i = cb[c].i
           /\ AppliesRetrans(c) => cb'[c].at = "bytes" /\ cb'[c].i = cb[c].i
           /\ Samples(c)        => cb'[c].at = "reset" /\ cb'[c].i = cb[c].i
           /\ Resets(c)         => cb'[c].at \in {"retrans", "idle"}
<1>0. cb \in [Caller -> CbRecord]
  BY Parts DEF StatOK
<1>1. ReadsRetrans(c) => cb'[c].at = "delta" /\ cb'[c].i = cb[c].i
  BY <1>0 DEF ReadsRetrans, CbRecord
<1>2. Delta(c) => cb'[c].at = "apply" /\ cb'[c].i = cb[c].i
  BY <1>0 DEF Delta, CbRecord
<1>3. AppliesRetrans(c) => cb'[c].at = "bytes" /\ cb'[c].i = cb[c].i
  BY <1>0 DEF AppliesRetrans, Goto, At
<1>4. Samples(c) => cb'[c].at = "reset" /\ cb'[c].i = cb[c].i
  BY <1>0 DEF Samples, Goto, At
<1>5. Resets(c) => cb'[c].at \in {"retrans", "idle"}
  BY <1>0 DEF Resets, NextStream, Idle, At
<1>6. \A d \in Caller \ {c} : cb'[d] = cb[d]
  BY <1>0 DEF Callback, ReadsRetrans, Delta, AppliesRetrans, Samples, Resets, Goto, NextStream
<1>7. QED
  BY <1>1, <1>2, <1>3, <1>4, <1>5, <1>6

\* IntervalsAccount as an inductive invariant: a stream that two callbacks are
\* about to reset has been sampled twice.
Account(i) ==
    IF Sampling(i)
    THEN reported[i] = bytes[i][Own] /\ pc[i] # "interval"
    ELSE /\ reported[i] + interval[i][Own] + Pending(i) = bytes[i][Own]
         /\ pc[i] = "interval" => tmp[i] = interval[i][Own]
SampledOnce(i) ==
    \A c, d \in Caller :
        /\ cb[c].at = "reset" /\ cb[c].i = i
        /\ cb[d].at = "reset" /\ cb[d].i = i
        => c = d
AccountInv == \A i \in Index \ lapped : Account(i) /\ SampledOnce(i)

LEMMA AccountStream ==
    ASSUME TypeOK, NEW j \in Index, Account(j), SampledOnce(j), NEW i \in Index, Stream(i), j \notin lapped',
           Own' = Own
    PROVE  Account(j)' /\ SampledOnce(j)'
<1>0. /\ StreamOK /\ reported[j] \in Nat
      /\ bytes[j] \in Counter /\ bytes[j][Own] \in Nat
      /\ interval[j] \in Counter /\ interval[j][Own] \in Nat
      /\ tmp[j] \in Nat /\ got[j] \in Nat
  BY Parts, Directions DEF StreamOK, StatOK, Counter
<1>1. UNCHANGED <<cb, reported>>
  BY DEF Stream, Moves, Counts, CountsInterval, Reads, CountsTotal, Turns, Fails, statVars
<1>2. SampledOnce(j)' /\ (Sampling(j)' <=> Sampling(j))
  BY <1>1 DEF SampledOnce, Sampling
<1>3. CASE i # j
  <2>1. bytes'[j] = bytes[j] /\ interval'[j] = interval[j] /\ pc'[j] = pc[j]
        /\ tmp'[j] = tmp[j] /\ got'[j] = got[j]
    BY <1>0, <1>3 DEF Stream, StreamOK, Moves, Counts, CountsInterval, Reads, CountsTotal, Turns, Fails
  <2>2. QED
    BY <1>1, <1>2, <2>1 DEF Account, Pending
<1>4. CASE i = j
  <2>1. CASE Counts(j)
    <3>1. ~Sampling(j)
      BY <2>1 DEF Counts
    <3>2. bytes'[j][Own] = bytes[j][Own] + got[j]
      BY <1>0, <2>1, Directions DEF Counts, StreamOK, Counter
    <3>3. pc[j] = "count" /\ pc'[j] = "interval" /\ tmp'[j] = interval[j][Own]
          /\ interval'[j] = interval[j] /\ got'[j] = got[j]
      BY <1>0, <2>1 DEF Counts, StreamOK
    <3>4. reported[j] + interval[j][Own] + 0 = bytes[j][Own]
      BY <3>1, <3>3 DEF Account, Pending
    <3>5. reported'[j] + interval'[j][Own] + got'[j] = bytes'[j][Own]
      BY <1>0, <1>1, <3>2, <3>3, <3>4
    <3>6. QED
      BY <1>2, <3>1, <3>3, <3>5 DEF Account, Pending
  <2>2. CASE CountsInterval(j)
    <3>1. pc[j] = "interval" /\ pc'[j] = "test" /\ bytes'[j] = bytes[j]
          /\ interval'[j][Own] = tmp[j] + got[j]
      BY <1>0, <2>2, Directions DEF CountsInterval, StreamOK, Counter
    <3>2. ~Sampling(j) /\ tmp[j] = interval[j][Own]
          /\ reported[j] + interval[j][Own] + got[j] = bytes[j][Own]
      BY <3>1 DEF Account, Pending
    <3>3. reported'[j] + interval'[j][Own] + 0 = bytes'[j][Own]
      BY <1>0, <1>1, <3>1, <3>2
    <3>4. QED
      BY <1>2, <3>1, <3>2, <3>3 DEF Account, Pending
  <2>3. CASE ~Counts(j) /\ ~CountsInterval(j)
    <3>1. /\ pc[j] # "interval" /\ pc'[j] # "interval"
          /\ bytes'[j] = bytes[j] /\ interval'[j] = interval[j]
      BY <1>0, <1>4, <2>3 DEF Stream, StreamOK, Moves, Reads, CountsTotal, Turns, Fails
    <3>2. QED
      BY <1>1, <1>2, <3>1 DEF Account, Pending
  <2>4. QED
    BY <2>1, <2>2, <2>3
<1>5. QED
  BY <1>3, <1>4

LEMMA AccountCallback ==
    ASSUME TypeOK, NEW j \in Index, Account(j), SampledOnce(j), NEW c \in Caller, Callback(c), j \notin lapped',
           Own' = Own
    PROVE  Account(j)' /\ SampledOnce(j)'
<1>0. /\ StreamOK /\ StatOK /\ reported[j] \in Nat
      /\ bytes[j] \in Counter /\ bytes[j][Own] \in Nat
      /\ interval[j] \in Counter /\ interval[j][Own] \in Nat
  BY Parts, Directions DEF StreamOK, StatOK, Counter
<1>1. UNCHANGED <<bytes, pc, tmp, got>>
  BY DEF Callback, ReadsRetrans, Delta, AppliesRetrans, Samples, Resets, streamVars
<1>2. CASE ReadsRetrans(c) \/ Delta(c) \/ AppliesRetrans(c)
  <2>1. cb[c].at # "reset" /\ cb'[c].at # "reset" /\ UNCHANGED <<interval, reported>>
    BY <1>2, CallbackMoves DEF ReadsRetrans, Delta, AppliesRetrans, streamVars
  <2>2. SampledOnce(j)' /\ (Sampling(j)' <=> Sampling(j))
    BY <2>1, CallbackMoves DEF SampledOnce, Sampling
  <2>3. QED
    BY <1>1, <2>1, <2>2 DEF Account, Pending
<1>3. CASE Samples(c)
  <2>1. cb[c].at = "bytes" /\ cb'[c].at = "reset" /\ cb'[c].i = cb[c].i /\ interval' = interval
    BY <1>3, CallbackMoves DEF Samples, streamVars
  <2>2. CASE cb[c].i = j
    <3>1. pc[j] # "interval" /\ ~Sampling(j)
      BY <1>3, <2>2 DEF Samples
    <3>2. reported'[j] = reported[j] + interval[j][Own]
      BY <1>0, <1>3, <2>2 DEF Samples, StatOK
    <3>3. reported[j] + interval[j][Own] + 0 = bytes[j][Own]
      BY <3>1 DEF Account, Pending
    <3>4. Sampling(j)' /\ SampledOnce(j)'
      BY <2>1, <2>2, <3>1, CallbackMoves DEF Sampling, SampledOnce
    <3>5. reported'[j] = bytes'[j][Own]
      BY <1>0, <1>1, <3>2, <3>3
    <3>6. QED
      BY <1>1, <3>1, <3>4, <3>5 DEF Account
  <2>3. CASE cb[c].i # j
    <3>1. reported'[j] = reported[j]
      BY <1>0, <1>3, <2>3 DEF Samples, StatOK
    <3>2. SampledOnce(j)' /\ (Sampling(j)' <=> Sampling(j))
      BY <2>1, <2>3, CallbackMoves DEF SampledOnce, Sampling
    <3>3. QED
      BY <1>1, <2>1, <3>1, <3>2 DEF Account, Pending
  <2>4. QED
    BY <2>2, <2>3
<1>4. CASE Resets(c)
  <2>1. cb[c].at = "reset" /\ cb'[c].at # "reset" /\ reported' = reported
    BY <1>4, CallbackMoves DEF Resets
  <2>2. SampledOnce(j)'
    BY <2>1, CallbackMoves DEF SampledOnce
  <2>3. CASE cb[c].i = j
    <3>1. reported[j] = bytes[j][Own] /\ pc[j] # "interval"
      BY <2>1, <2>3 DEF Account, Sampling
    <3>2. ~Sampling(j)'
      BY <2>1, <2>3, CallbackMoves DEF Sampling, SampledOnce
    <3>3. interval'[j][Own] = 0
      BY <1>0, <1>4, <2>3, Directions DEF Resets, StreamOK
    <3>4. QED
      BY <1>0, <1>1, <2>1, <2>2, <3>1, <3>2, <3>3 DEF Account, Pending
  <2>4. CASE cb[c].i # j
    <3>1. interval'[j] = interval[j]
      BY <1>0, <1>4, <2>4 DEF Resets, StreamOK
    <3>2. Sampling(j)' <=> Sampling(j)
      BY <2>1, <2>4, CallbackMoves DEF Sampling
    <3>3. QED
      BY <1>1, <2>1, <2>2, <3>1, <3>2 DEF Account, Pending
  <2>5. QED
    BY <2>3, <2>4
<1>5. QED
  BY <1>2, <1>3, <1>4 DEF Callback

LEMMA AccountTest ==
    ASSUME TypeOK, NEW j \in Index, Account(j), SampledOnce(j), Test, Own' = Own
    PROVE  Account(j)' /\ SampledOnce(j)'
<1>0. cb \in [Caller -> CbRecord]
  BY Parts DEF StatOK
<1>1. UNCHANGED <<interval, pc, tmp, got, reported>> /\ bytes'[j][Own] = bytes[j][Own]
  <2>1. CASE GetsResults
    BY <2>1, MergeKeeps DEF GetsResults
  <2>2. CASE ~GetsResults
    BY <2>2 DEF Test, Ticks, Ends, Closes, SendsResults, Displays, TimerFires, Resends,
                streamVars, statVars
  <2>3. QED
    BY <2>1, <2>2
<1>2. SampledOnce(j)' /\ (Sampling(j)' <=> Sampling(j))
  <2>1. ASSUME NEW c \in Caller, Enter(c)
        PROVE  SampledOnce(j)' /\ (Sampling(j)' <=> Sampling(j))
    <3>1. cb[c].at # "reset" /\ cb'[c].at # "reset" /\ \A d \in Caller \ {c} : cb'[d] = cb[d]
      BY <1>0, <2>1 DEF Enter, Active, At
    <3>2. QED
      BY <3>1 DEF SampledOnce, Sampling
  <2>2. CASE Ticks \/ Ends
    BY <2>1, <2>2 DEF Ticks, Ends, Caller
  <2>3. CASE ~Ticks /\ ~Ends
    <3>1. cb' = cb
      BY <2>3 DEF Test, Closes, SendsResults, GetsResults, Displays, TimerFires, Resends, statVars
    <3>2. QED
      BY <3>1 DEF SampledOnce, Sampling
  <2>4. QED
    BY <2>2, <2>3
<1>3. QED
  BY <1>1, <1>2 DEF Account, Pending

\* Of a stream that no callback has met in the middle of an update, every byte
\* is in one interval result, or on its way there.
THEOREM NoByteTwice == Spec => []IntervalsAccount
<1>1. Init => AccountInv
  <2> SUFFICES ASSUME Init, NEW i \in Index PROVE Account(i) /\ SampledOnce(i)
    BY DEF AccountInv
  <2>1. \A c \in Caller : cb[c].at = "idle"
    BY DEF Init, Idle, At
  <2>2. /\ reported[i] = 0 /\ interval[i][Own] = 0 /\ bytes[i][Own] = 0 /\ pc[i] = "io"
    BY Directions DEF Init
  <2>3. QED
    BY <2>1, <2>2 DEF Account, SampledOnce, Sampling, Pending
<1>2. TypeOK /\ AccountInv /\ [Next]_vars => AccountInv'
  <2> SUFFICES ASSUME TypeOK, AccountInv, [Next]_vars, NEW j \in Index, j \notin lapped'
               PROVE  Account(j)' /\ SampledOnce(j)'
    BY DEF AccountInv
  <2>1. Own' = Own
    BY RoleKept
  <2>2. lapped \subseteq lapped'
    <3>1. ASSUME NEW i \in Index, Stream(i) PROVE lapped \subseteq lapped'
      BY <3>1 DEF Stream, Moves, Counts, CountsInterval, Reads, CountsTotal, Turns, Fails, history
    <3>2. ASSUME NEW c \in Caller, Callback(c) PROVE lapped \subseteq lapped'
      BY <3>2 DEF Callback, ReadsRetrans, Delta, AppliesRetrans, Samples, Resets, history
    <3>3. CASE Test
      BY <3>3 DEF Test, Ticks, Ends, Closes, SendsResults, GetsResults, Displays, TimerFires,
                  Resends, history
    <3>4. CASE UNCHANGED vars
      BY <3>4 DEF vars, history
    <3>5. QED
      BY <3>1, <3>2, <3>3, <3>4 DEF Next
  <2>3. Account(j) /\ SampledOnce(j)
    BY <2>2 DEF AccountInv
  <2>4. CASE UNCHANGED vars
    BY <2>1, <2>3, <2>4 DEF vars, streamVars, statVars, Account, SampledOnce, Sampling, Pending
  <2>5. QED
    BY <2>1, <2>3, <2>4, AccountStream, AccountCallback, AccountTest DEF Next
<1>3. AccountInv => IntervalsAccount
  BY DEF AccountInv, Account, IntervalsAccount
<1>4. QED
  BY CountersTypes, <1>1, <1>2, <1>3, PTL DEF Spec

-----------------------------------------------------------------------------
LEMMA Small == \A a \in Nat, b \in Nat : a < b => a % b = a
  OBVIOUS

\* RetransTelescopes as an inductive invariant, for callbacks that do not overlap.
Merging == mode = "RECEIVER" /\ results \in {"got", "both"}
RetransInv ==
    ~met =>
        /\ \A c, d \in Caller : Active(c) /\ Active(d) => c = d
        /\ \A i \in Index : prev[i] <= retrans /\ (again[i] = prev[i] \/ Merging)
        /\ \A c \in Caller :
               /\ cb[c].at \in {"delta", "apply"} => prev[cb[c].i] <= cb[c].total /\ cb[c].total <= retrans
               /\ cb[c].at = "apply" => cb[c].delta = cb[c].total - prev[cb[c].i]

LEMMA RetransCallback ==
    ASSUME TypeOK, RetransInv, NEW c \in Caller, Callback(c)
    PROVE  RetransInv'
<1> SUFFICES ASSUME ~met' PROVE RetransInv'
  BY DEF RetransInv
<1> USE DEF RetransInv
<1>0. /\ StatOK /\ TestOK /\ cb \in [Caller -> CbRecord]
      /\ cb[c].i \in Index /\ cb[c].total \in 0..MaxRetrans /\ cb[c].delta \in Nat
      /\ retrans \in Nat /\ \A i \in Index : prev[i] \in 0..MaxRetrans /\ again[i] \in Nat
  BY Parts DEF StatOK, TestOK, CbRecord
<1>1. UNCHANGED <<met, retrans, mode, results>>
  BY DEF Callback, ReadsRetrans, Delta, AppliesRetrans, Samples, Resets, history, testVars
<1>2. /\ ~met
      /\ Active(c) /\ \A d \in Caller \ {c} : cb[d].at = "idle" /\ cb'[d] = cb[d]
  BY <1>1, CallbackMoves DEF Active, Callback, ReadsRetrans, Delta, AppliesRetrans, Samples, Resets
<1>3. \A a, d \in Caller : Active(a)' /\ Active(d)' => a = d
  BY <1>2 DEF Active
<1>4. CASE ReadsRetrans(c)
  <2>1. cb'[c].at = "delta" /\ cb'[c].i = cb[c].i /\ cb'[c].total = retrans
    BY <1>0, <1>4 DEF ReadsRetrans, CbRecord
  <2>2. UNCHANGED <<prev, again>>
    BY <1>4 DEF ReadsRetrans
  <2>3. QED
    BY <1>0, <1>1, <1>2, <1>3, <2>1, <2>2 DEF Merging
<1>5. CASE Delta(c)
  <2>1. /\ cb'[c].at = "apply" /\ cb'[c].i = cb[c].i /\ cb'[c].total = cb[c].total
        /\ cb'[c].delta = (cb[c].total - prev[cb[c].i]) % Word
    BY <1>0, <1>5 DEF Delta, CbRecord
  <2>2. cb[c].at = "delta" /\ UNCHANGED <<prev, again>>
    BY <1>5 DEF Delta
  <2>3. cb[c].total - prev[cb[c].i] \in Nat /\ cb[c].total - prev[cb[c].i] < Word
    BY <1>0, <1>2, <2>2
  <2>4. cb'[c].delta = cb[c].total - prev[cb[c].i]
    BY <2>1, <2>3, Small
  <2>5. QED
    BY <1>0, <1>1, <1>2, <1>3, <2>1, <2>2, <2>4 DEF Merging
<1>6. CASE AppliesRetrans(c)
  <2> DEFINE i == cb[c].i
  <2>1. cb[c].at = "apply" /\ cb'[c].at = "bytes"
    BY <1>6, CallbackMoves DEF AppliesRetrans
  <2>2. /\ prev' = [prev EXCEPT ![i] = cb[c].total]
        /\ again' = [again EXCEPT ![i] = (again[i] + cb[c].delta) % Word]
    BY <1>6 DEF AppliesRetrans
  <2>3. cb[c].total <= retrans /\ cb[c].delta = cb[c].total - prev[i] /\ (again[i] = prev[i] \/ Merging)
    BY <1>0, <1>2, <2>1
  <2>4. again[i] = prev[i] => again[i] + cb[c].delta = cb[c].total
    BY <1>0, <2>3
  <2>5. cb[c].total % Word = cb[c].total
    BY <1>0, Small
  <2>6. again'[i] = prev'[i] \/ Merging
    BY <1>0, <2>2, <2>3, <2>4, <2>5 DEF StatOK
  <2>7. \A k \in Index : prev'[k] <= retrans /\ (again'[k] = prev'[k] \/ Merging)
    BY <1>0, <1>2, <2>2, <2>3, <2>6 DEF StatOK
  <2>8. QED
    BY <1>1, <1>2, <1>3, <2>1, <2>7 DEF Merging
<1>7. CASE Samples(c) \/ Resets(c)
  <2>1. cb'[c].at \notin {"delta", "apply"} /\ UNCHANGED <<prev, again>>
    BY <1>7, CallbackMoves DEF Samples, Resets
  <2>2. QED
    BY <1>1, <1>2, <1>3, <2>1 DEF Merging
<1>8. QED
  BY <1>4, <1>5, <1>6, <1>7 DEF Callback

LEMMA RetransTest ==
    ASSUME TypeOK, RetransInv, Test
    PROVE  RetransInv'
<1> SUFFICES ASSUME ~met' PROVE RetransInv'
  BY DEF RetransInv
<1> USE DEF RetransInv
<1>0. /\ StatOK /\ TestOK /\ cb \in [Caller -> CbRecord] /\ retrans \in Nat
      /\ \A i \in Index : prev[i] \in Nat
      /\ \A c \in Caller : cb[c].i \in Index /\ cb[c].total \in Nat
  BY Parts DEF StatOK, TestOK, CbRecord
<1>1. ASSUME NEW c \in Caller, Enter(c), UNCHANGED <<prev, again, retrans, mode>>, Merging => Merging'
      PROVE  RetransInv'
  <2>1. ~met /\ \A d \in Caller : ~Active(d)
    BY <1>1 DEF Enter
  <2>2. cb'[c].at = "retrans" /\ \A d \in Caller \ {c} : cb'[d] = cb[d]
    BY <1>0, <1>1 DEF Enter, At
  <2>3. QED
    BY <1>0, <1>1, <2>1, <2>2 DEF Active
<1>2. CASE Ticks
  <2>1. UNCHANGED <<prev, again, retrans, mode, results>>
    BY <1>2 DEF Ticks
  <2>2. QED
    BY <1>1, <1>2, <2>1 DEF Ticks, Caller, Merging
<1>3. CASE Ends
  <2>1. UNCHANGED <<prev, again, retrans, mode>> /\ ~Merging
    BY <1>3 DEF Ends, Merging
  <2>2. QED
    BY <1>1, <1>3, <2>1 DEF Ends, Caller
<1>4. CASE GetsResults
  <2>1. /\ ~met /\ UNCHANGED <<prev, cb, retrans, mode>> /\ results' \in {"got", "both"}
        /\ mode = "RECEIVER" \/ again' = again
    BY <1>4 DEF GetsResults, history
  <2>2. CASE mode = "RECEIVER"
    BY <2>1, <2>2 DEF Merging, Active
  <2>3. CASE mode # "RECEIVER"
    BY <2>1, <2>3 DEF Merging, Active
  <2>4. QED
    BY <2>2, <2>3
<1>5. CASE Closes \/ SendsResults \/ Displays \/ TimerFires
  <2>1. ~met /\ UNCHANGED <<prev, again, cb, retrans, mode>> /\ (Merging => Merging')
    BY <1>5 DEF Closes, SendsResults, Displays, TimerFires, statVars, history, Merging
  <2>2. QED
    BY <2>1 DEF Active
<1>6. CASE Resends
  <2>1. ~met /\ UNCHANGED <<prev, again, cb, mode, results>> /\ retrans' = retrans + 1
    BY <1>6 DEF Resends, statVars, history
  <2>2. QED
    BY <1>0, <2>1 DEF Active, Merging
<1>7. QED
  BY <1>2, <1>3, <1>4, <1>5, <1>6 DEF Test

\* As long as no two callbacks have run at once, stream_retrans is the sum of the
\* intervals' shares, and no share has wrapped below zero.
THEOREM SharesAddUp == Spec => []RetransTelescopes
<1>1. Init => RetransInv
  <2> SUFFICES ASSUME Init PROVE RetransInv
    OBVIOUS
  <2>1. \A c \in Caller : cb[c].at = "idle"
    BY DEF Init, Idle, At
  <2>2. QED
    BY <2>1 DEF Init, RetransInv, Active
<1>2. TypeOK /\ RetransInv /\ [Next]_vars => RetransInv'
  <2> SUFFICES ASSUME TypeOK, RetransInv, [Next]_vars PROVE RetransInv'
    OBVIOUS
  <2>1. ASSUME UNCHANGED <<prev, again, cb, retrans, mode, results, met>> PROVE RetransInv'
    BY <2>1 DEF RetransInv, Active, Merging
  <2>2. ASSUME NEW i \in Index, Stream(i) PROVE RetransInv'
    <3>1. UNCHANGED <<statVars, testVars, met>>
      BY <2>2 DEF Stream, Moves, Counts, CountsInterval, Reads, CountsTotal, Turns, Fails, history
    <3>2. QED
      BY <2>1, <3>1 DEF statVars, testVars
  <2>3. CASE UNCHANGED vars
    BY <2>1, <2>3 DEF vars, statVars, testVars, history
  <2>4. QED
    BY <2>2, <2>3, RetransCallback, RetransTest DEF Next
<1>3. RetransInv => RetransTelescopes
  BY DEF RetransInv, RetransTelescopes, Merging
<1>4. QED
  BY CountersTypes, <1>1, <1>2, <1>3, PTL DEF Spec

-----------------------------------------------------------------------------
\* ToldWithinABlock as an inductive invariant: a client has no stream left when
\* it speaks of its results; a server has closed them, so none moves a block.
Block(i) == IF pc[i] = "count" THEN told[i] = bytes[i][Own]
                               ELSE told[i] <= bytes[i][Own] /\ bytes[i][Own] <= told[i] + got[i]
ToldInv ==
    IF isServer
    THEN /\ results \in {"ready", "got", "both"} => ~open
         /\ results = "both" => \A i \in Index : Block(i)
    ELSE /\ results \in {"stats", "ready", "sent", "both"} => \A i \in Index : pc[i] = "ended"
         /\ results \in {"sent", "both"} => \A i \in Index : told[i] = bytes[i][Own]

LEMMA ToldHolds == TypeOK /\ ToldInv => ToldWithinABlock
<1> SUFFICES ASSUME TypeOK, ToldInv, Told, NEW i \in Index
             PROVE  /\ told[i] <= bytes[i][Own]
                    /\ bytes[i][Own] <= told[i] + (IF isServer THEN got[i] ELSE 0)
  BY DEF ToldWithinABlock
<1>1. /\ isServer \in BOOLEAN /\ told[i] \in Nat /\ got[i] \in Nat
      /\ bytes[i] \in Counter /\ bytes[i][Own] \in Nat
  BY Parts, Directions DEF StreamOK, TestOK, HistoryOK, Counter
<1>2. CASE isServer
  <2>1. Block(i)
    BY <1>2 DEF ToldInv, Told
  <2>2. QED
    BY <1>1, <1>2, <2>1 DEF Block
<1>3. CASE ~isServer
  BY <1>1, <1>3 DEF ToldInv, Told
<1>4. QED
  BY <1>1, <1>2, <1>3

LEMMA ToldStream ==
    ASSUME TypeOK, ToldInv, NEW i \in Index, Stream(i), isServer' = isServer, Own' = Own
    PROVE  ToldInv'
<1>0. StreamOK /\ HistoryOK /\ isServer \in BOOLEAN
  BY Parts DEF TestOK
<1>1. UNCHANGED <<results, open, told>> /\ pc[i] # "ended"
  BY DEF Stream, Moves, Counts, CountsInterval, Reads, CountsTotal, Turns, Fails, testVars, history
<1>2. CASE isServer
  <2>1. ASSUME results = "both", NEW j \in Index PROVE Block(j)'
    <3>0. /\ Block(j) /\ ~open /\ told[j] \in Nat /\ got[j] \in Nat
          /\ bytes[j] \in Counter /\ bytes[j][Own] \in Nat
      BY <1>0, <1>2, <2>1, Directions DEF ToldInv, StreamOK, HistoryOK, Counter
    <3>1. CASE Moves(i)
      BY <3>0, <3>1 DEF Moves
    <3>2. CASE Counts(i)
      <4>1. CASE i = j
        <5>1. /\ pc[j] = "count" /\ pc'[j] = "interval" /\ got'[j] = got[j]
              /\ bytes'[j][Own] = bytes[j][Own] + got[j]
          BY <1>0, <3>2, <4>1, Directions DEF Counts, StreamOK, Counter
        <5>2. QED
          BY <1>1, <3>0, <5>1 DEF Block
      <4>2. CASE i # j
        <5>1. pc'[j] = pc[j] /\ got'[j] = got[j] /\ bytes'[j] = bytes[j]
          BY <1>0, <3>2, <4>2 DEF Counts, StreamOK
        <5>2. QED
          BY <1>1, <3>0, <5>1 DEF Block
      <4>3. QED
        BY <4>1, <4>2
    <3>3. CASE ~Moves(i) /\ ~Counts(i)
      <4>1. /\ UNCHANGED <<bytes, got>>
            /\ (pc[j] # "count" /\ pc'[j] # "count") \/ pc'[j] = pc[j]
        BY <1>0, <3>3 DEF Stream, CountsInterval, Reads, CountsTotal, Turns, Fails, StreamOK
      <4>2. QED
        BY <1>1, <3>0, <4>1 DEF Block
    <3>4. QED
      BY <3>1, <3>2, <3>3
  <2>2. QED
    BY <1>1, <1>2, <2>1 DEF ToldInv
<1>3. CASE ~isServer
  BY <1>1, <1>3 DEF ToldInv
<1>4. QED
  BY <1>0, <1>2, <1>3

LEMMA ToldTest ==
    ASSUME TypeOK, ToldInv, Test, isServer' = isServer, Own' = Own
    PROVE  ToldInv'
<1>0. /\ StreamOK /\ HistoryOK /\ isServer \in BOOLEAN
      /\ \A i \in Index : bytes[i][Own] \in Nat /\ got[i] \in Nat
  BY Parts, Directions DEF TestOK, StreamOK, Counter
<1>1. CASE Ticks \/ TimerFires \/ Resends \/ Displays
  <2>1. UNCHANGED <<results, told, bytes, got, pc>> /\ (~open => ~open')
    <3>1. CASE Ticks
      BY <3>1 DEF Ticks, streamVars
    <3>2. CASE TimerFires
      BY <3>2 DEF TimerFires, streamVars, history
    <3>3. CASE Resends
      BY <3>3 DEF Resends, streamVars, history
    <3>4. CASE Displays
      BY <3>4 DEF Displays, streamVars, history
    <3>5. QED
      BY <1>1, <3>1, <3>2, <3>3, <3>4
  <2>2. QED
    BY <2>1 DEF ToldInv, Block
<1>2. CASE Ends
  <2>1. UNCHANGED pc /\ results' = "stats" /\ (isServer \/ \A i \in Index : pc[i] = "ended")
    BY <1>2 DEF Ends, streamVars, AllEnded
  <2>2. QED
    BY <1>0, <2>1 DEF ToldInv
<1>3. CASE Closes
  <2>1. UNCHANGED pc /\ results = "stats" /\ results' = "ready" /\ (isServer => ~open')
    BY <1>3 DEF Closes, streamVars
  <2>2. QED
    BY <1>0, <2>1 DEF ToldInv
<1>4. CASE SendsResults
  <2>1. UNCHANGED <<pc, bytes, got, open>> /\ told' = [i \in Index |-> bytes[i][Own]]
    BY <1>4 DEF SendsResults, streamVars
  <2>2. \A i \in Index : told'[i] = bytes'[i][Own] /\ Block(i)'
    BY <1>0, <2>1 DEF Block
  <2>3. CASE isServer
    BY <1>4, <2>1, <2>2, <2>3 DEF SendsResults, ToldInv
  <2>4. CASE ~isServer
    BY <1>4, <2>1, <2>2, <2>4 DEF SendsResults, ToldInv
  <2>5. QED
    BY <1>0, <2>3, <2>4
<1>5. CASE GetsResults
  <2>1. UNCHANGED <<pc, got, told, open>> /\ \A i \in Index : bytes'[i][Own] = bytes[i][Own]
    BY <1>5, MergeKeeps DEF GetsResults, history
  <2>2. CASE isServer
    BY <1>5, <2>1, <2>2 DEF GetsResults, ToldInv
  <2>3. CASE ~isServer
    BY <1>5, <2>1, <2>3 DEF GetsResults, ToldInv
  <2>4. QED
    BY <1>0, <2>2, <2>3
<1>6. QED
  BY <1>1, <1>2, <1>3, <1>4, <1>5 DEF Test

\* What a client displays is what it told its peer; what a server displays may be
\* a block per stream more.
THEOREM DisplayedAsTold == Spec => []ToldWithinABlock
<1>1. Init => ToldInv
  BY DEF Init, ToldInv
<1>2. TypeOK /\ ToldInv /\ [Next]_vars => ToldInv'
  <2> SUFFICES ASSUME TypeOK, ToldInv, [Next]_vars PROVE ToldInv'
    OBVIOUS
  <2>1. isServer' = isServer /\ Own' = Own
    BY RoleKept
  <2>2. ASSUME NEW c \in Caller, Callback(c) PROVE ToldInv'
    <3>1. UNCHANGED <<results, open, told, pc, bytes, got>>
      BY <2>2 DEF Callback, ReadsRetrans, Delta, AppliesRetrans, Samples, Resets,
                  testVars, history, streamVars
    <3>2. QED
      BY <2>1, <3>1 DEF ToldInv, Block
  <2>3. CASE UNCHANGED vars
    BY <2>1, <2>3 DEF vars, testVars, history, streamVars, ToldInv, Block
  <2>4. QED
    BY <2>1, <2>2, <2>3, ToldStream, ToldTest DEF Next
<1>3. QED
  BY CountersTypes, ToldHolds, <1>1, <1>2, PTL DEF Spec
=============================================================================
