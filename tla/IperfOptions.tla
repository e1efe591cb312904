----------------------------- MODULE IperfOptions -----------------------------
(* From the command line of a client to the settings of the two processes:    *)
(* ParseArguments, sendParams and getParams, and the numbers the timers are   *)
(* made from.  The unit of time is that of -i; a second has Second of them.   *)
(* Block sizes are in bits.                                                   *)
EXTENDS Integers

CONSTANTS Second,      \* 1000 ms
          PacingTime,  \* 5 ms
          SendPeriod,  \* 1 ms: the send interval where there is no rate
          Margin,      \* 5 s, what the server's timer has more than the client's
          DefaultBlk,  \* DEFAULT_TCP_BLKSIZE and the like
          Word,        \* 2^64: uint arithmetic is modulo Word
          MaxDur,      \* the longest time.Duration, 2^63 - 1 ns
          MaxBlk       \* the longest buffer that can be made

ASSUME OptionsAssumption ==
    /\ Second \in Nat \ {0} /\ PacingTime \in Nat \ {0} /\ SendPeriod \in Nat \ {0}
    /\ Margin \in Nat /\ DefaultBlk \in Nat \ {0} /\ Word \in Nat \ {0}
    /\ MaxDur \in Nat /\ MaxDur < Word /\ MaxBlk \in Nat

\* ProtocolList, and test.protocols as Init fills it.
ProtocolList == {"tcp", "udp", "rudp", "kcp"}
Protocols    == {"tcp", "rudp", "kcp"}

\* A command line: -proto, -l (if present), -b (if present; it may be the empty
\* string, and 0 stands as well for what Atoi refuses), -i, -d, -R.
Option == [proto : STRING, hasL : BOOLEAN, l : Nat, hasB : BOOLEAN, emptyB : BOOLEAN, b : Int,
           i : Nat, d : Nat, R : BOOLEAN]

\* setTestReverse.
Mode(isServer, reverse) == IF isServer = reverse THEN "SENDER" ELSE "RECEIVER"

\* setProtocol: a name that no protocol has changes nothing.
SetProtocol(old, name) == IF name \in Protocols THEN name ELSE old

\* ParseArguments, of a client.  An argument that is refused stops it, before
\* the address, the port and the protocol are stored.
Refused(o) == o.proto \notin ProtocolList
\* Then, the last byte of an empty -b is looked at.
EmptyRate(o) == o.hasB /\ o.emptyB
Parsed(o) ==
    [proto    |-> SetProtocol("nil", o.proto),
     mode     |-> Mode(FALSE, o.R),
     reverse  |-> o.R,
     blksize  |-> IF o.hasL THEN o.l ELSE DefaultBlk,
     burst    |-> ~o.hasB,
     rate     |-> IF o.hasB THEN o.b % Word ELSE 0,
     pacing   |-> IF o.hasB THEN PacingTime ELSE 0,
     interval |-> o.i,
     duration |-> o.d]

\* getParams, on a server whose settings were s: every field is replaced, the
\* protocol by name.
\* Mutant: the direction of the last test is kept.
ReceivedOldMode(s, p) == [p EXCEPT !.proto = SetProtocol(s.proto, p.proto), !.mode = s.mode]
Received(s, p) ==
    [p EXCEPT !.proto = SetProtocol(s.proto, p.proto), !.mode = Mode(TRUE, p.reverse)]

\* createClientTimer, createServerTimer: the timer, and the ticks a statistics
\* or report ticker may act on.
Due(isServer, s) == (s.duration * Second) + (IF isServer THEN Margin ELSE 0)
Times(s) == (s.duration * Second) \div s.interval
\* Mutant: one tick for every interval, the last one included.
MaxTimesAll(s) == Times(s)
MaxTimes(s) == (Times(s) - 1) % Word

\* iperfSend: what it sends a block in.
\* Mutant: in milliseconds.
SendIntervalCoarse(s) ==
    IF ~s.burst /\ s.rate # 0 THEN ((s.blksize \div s.rate) * Second) % Word ELSE SendPeriod
SendInterval(s) ==
    IF ~s.burst /\ s.rate # 0 THEN ((s.blksize * Second) % Word) \div s.rate ELSE SendPeriod
=============================================================================
