-------------------------- MODULE IperfClock_proofs --------------------------
(* For every command line, unit of time and lateness: both processes run the  *)
(* test that was asked for, and a stream keeps its rate to two blocks.        *)
EXTENDS IperfClock, TLAPS

\* The assumptions in the form the proofs use.
LEMMA Numbers ==
    /\ Second \in Nat /\ Second > 0 /\ PacingTime \in Nat /\ SendPeriod \in Nat
    /\ Margin \in Nat /\ DefaultBlk \in Nat /\ Word \in Nat /\ Word > 0
    /\ MaxDur \in Nat /\ MaxDur < Word /\ MaxBlk \in Nat
    /\ Options \subseteq Option /\ Late \in Nat
  BY OptionsAssumption, ClockAssumption DEF OptionsAssumption, ClockAssumption

LEMMA DivNat == \A a \in Nat, b \in Nat : b > 0 => a \div b \in Nat
  OBVIOUS

LEMMA ModNat == \A a \in Int, b \in Nat : b > 0 => a % b \in Nat
  OBVIOUS

LEMMA TimesNat == \A a \in Nat, b \in Nat : a * b \in Nat
  OBVIOUS

\* A remainder is no more than what it is the remainder of.
LEMMA ModLeq == \A a \in Nat, b \in Nat : b > 0 => a % b <= a
<1> SUFFICES ASSUME NEW a \in Nat, NEW b \in Nat, b > 0 PROVE a % b <= a
  OBVIOUS
<1>1. a = (b * (a \div b)) + (a % b) /\ a \div b \in Nat /\ a % b \in Nat
  OBVIOUS
<1>2. b * (a \div b) \in Nat
  BY <1>1, TimesNat
<1>3. QED
  BY <1>1, <1>2

\* A quotient of 0 has a larger divisor.
LEMMA DivZero == \A a \in Nat, b \in Nat : b > 0 /\ a \div b = 0 => a < b
  OBVIOUS

\* A product grows with its factor.
LEMMA TimesMono == \A r \in Nat, a \in Nat, b \in Nat : a <= b => r * a <= r * b
<1> SUFFICES ASSUME NEW r \in Nat, NEW a \in Nat, NEW b \in Nat, a <= b PROVE r * a <= r * b
  OBVIOUS
<1>1. b - a \in Nat /\ b = a + (b - a)
  OBVIOUS
<1>2. r * (a + (b - a)) = r * a + r * (b - a)
  BY <1>1
<1>3. r * (b - a) \in Nat /\ r * a \in Nat
  BY <1>1, TimesNat
<1>4. QED
  BY <1>1, <1>2, <1>3

-----------------------------------------------------------------------------
\* What ParseArguments makes of a command line, and getParams of it, are settings.
LEMMA ParsedType ==
    ASSUME NEW o \in Option
    PROVE  Parsed(o) \in Settings
<1>1. /\ o.proto \in STRING /\ o.hasL \in BOOLEAN /\ o.l \in Nat /\ o.hasB \in BOOLEAN
      /\ o.b \in Int /\ o.i \in Nat /\ o.d \in Nat /\ o.R \in BOOLEAN
  BY DEF Option
<1>2. o.b % Word \in Nat
  BY <1>1, Numbers, ModNat
<1>3. SetProtocol("nil", o.proto) \in Protocols \cup {"nil"}
  BY DEF SetProtocol
<1>4. Mode(FALSE, o.R) \in {"SENDER", "RECEIVER"}
  BY DEF Mode
<1>5. QED
  BY <1>1, <1>2, <1>3, <1>4, Numbers DEF Parsed, Settings

LEMMA ReceivedType ==
    ASSUME NEW s \in Settings, NEW p \in Settings
    PROVE  Received(s, p) \in Settings
<1>1. SetProtocol(s.proto, p.proto) \in Protocols \cup {"nil"}
  BY DEF SetProtocol, Settings
<1>2. Mode(TRUE, p.reverse) \in {"SENDER", "RECEIVER"}
  BY DEF Mode
<1>3. QED
  BY <1>1, <1>2 DEF Received, Settings

LEMMA ConfFields ==
    TypeOK => /\ conf.blksize \in Nat /\ conf.rate \in Nat /\ conf.pacing \in Nat
              /\ conf.interval \in Nat /\ conf.duration \in Nat /\ conf.burst \in BOOLEAN
              /\ conf.mode \in {"SENDER", "RECEIVER"} /\ opt \in Option
  BY Numbers DEF TypeOK, Settings

\* The period of a ticker is a number.
LEMMA PeriodType == TypeOK => \A t \in Tickers : Period(t) \in Nat
<1> SUFFICES ASSUME TypeOK PROVE \A t \in Tickers : Period(t) \in Nat
  OBVIOUS
<1>1. SendInterval(conf) \in Nat
  <2>1. CASE ~conf.burst /\ conf.rate # 0
    <3>1. (conf.blksize * Second) % Word \in Nat
      BY ConfFields, Numbers, TimesNat, ModNat
    <3>2. QED
      BY <2>1, <3>1, ConfFields, DivNat DEF SendInterval
  <2>2. CASE ~(~conf.burst /\ conf.rate # 0)
    BY <2>2, Numbers DEF SendInterval
  <2>3. QED
    BY <2>1, <2>2
<1>2. QED
  BY <1>1, ConfFields DEF Period, Tickers

LEMMA InitType == Init => TypeOK
<1> SUFFICES ASSUME Init PROVE TypeOK
  OBVIOUS
<1>1. conf \in Settings
  <2>1. PICK o \in Options : conf = [Parsed(o) EXCEPT !.mode = Mode(isServer, o.R)]
    BY DEF Init
  <2>2. Parsed(o) \in Settings /\ Mode(isServer, o.R) \in {"SENDER", "RECEIVER"}
    BY Numbers, ParsedType DEF Mode
  <2>3. QED
    BY <2>1, <2>2 DEF Settings
<1>2. next \in [Tickers -> Nat] /\ slot \in [Tickers -> 0..now]
  BY DEF Init
<1>3. seen \in [{"send", "pace"} -> Verdict]
  BY DEF Init, Verdict
<1>4. QED
  BY <1>1, <1>2, <1>3 DEF Init, TypeOK

LEMMA TypeSetup == TypeOK /\ (Parses \/ Exchanges \/ Starts) => TypeOK'
<1> SUFFICES ASSUME TypeOK, Parses \/ Exchanges \/ Starts PROVE TypeOK'
  OBVIOUS
<1> USE DEF TypeOK, setup, testVars, sendVars
<1>1. CASE Parses
  BY <1>1 DEF Parses
<1>2. CASE Exchanges
  <2>1. Parsed(opt) \in Settings
    BY ConfFields, ParsedType
  <2>2. conf' \in Settings
    BY <1>2, <2>1, ReceivedType DEF Exchanges
  <2>3. phase' \in {"failed", "panicked", "ready"}
    BY <1>2 DEF Exchanges
  <2>4. QED
    BY <1>2, <2>2, <2>3 DEF Exchanges
<1>3. CASE Starts
  <2>1. next' \in [Tickers -> Nat]
    BY <1>3, PeriodType DEF Starts
  <2>2. phase' \in {"failed", "panicked", "running", "astray"}
    BY <1>3 DEF Starts
  <2>3. QED
    BY <1>3, <2>1, <2>2 DEF Starts
<1>4. QED
  BY <1>1, <1>2, <1>3

\* Whoever takes a tick empties its slot.
LEMMA TakeType ==
    ASSUME TypeOK, NEW t \in Tickers, Take(t)
    PROVE  slot' \in [Tickers -> 0..now]
<1>1. 0 \in 0..now
  BY DEF TypeOK
<1>2. slot' = [slot EXCEPT ![t] = 0] /\ slot \in [Tickers -> 0..now]
  BY DEF Take, TypeOK
<1>3. QED
  BY <1>1, <1>2

LEMMA TypeClock == TypeOK /\ (Ticks \/ StatsTick \/ TimerFires \/ Ends) => TypeOK'
<1> SUFFICES ASSUME TypeOK, Ticks \/ StatsTick \/ TimerFires \/ Ends PROVE TypeOK'
  OBVIOUS
<1> USE DEF TypeOK, setup, testVars, sendVars
<1>1. CASE Ticks
  <2>1. now' = now + 1 /\ now' \in Nat
    BY <1>1 DEF Ticks
  <2>2. \A t \in Tickers : now' + Period(t) \in Nat
    BY <2>1, PeriodType
  <2>3. next' \in [Tickers -> Nat]
    BY <1>1, <2>2 DEF Ticks
  <2>4. slot' \in [Tickers -> 0..now']
    BY <1>1, <2>1 DEF Ticks
  <2>5. behind' \in BOOLEAN
    BY <1>1 DEF Ticks
  <2>6. QED
    BY <1>1, <2>1, <2>3, <2>4, <2>5 DEF Ticks
<1>2. CASE StatsTick
  <2>1. slot' \in [Tickers -> 0..now]
    BY <1>2, TakeType DEF StatsTick, Tickers
  <2>2. next' \in [Tickers -> Nat]
    BY <1>2 DEF StatsTick
  <2>3. cnt' \in Nat /\ results' \in Nat
    BY <1>2 DEF StatsTick
  <2>4. QED
    BY <1>2, <2>1, <2>2, <2>3 DEF StatsTick
<1>3. CASE TimerFires
  BY <1>3 DEF TimerFires
<1>4. CASE Ends
  BY <1>4 DEF Ends
<1>5. QED
  BY <1>1, <1>2, <1>3, <1>4

SendStep == PaceFinds \/ PaceApplies \/ SendTick \/ Writes \/ Checks \/ SendApplies

LEMMA FindsType ==
    ASSUME TypeOK, NEW g \in {"send", "pace"}, NEW t, Finds(g, t)
    PROVE  seen' \in [{"send", "pace"} -> Verdict]
<1>1. (IF done THEN "even" ELSE Judge(t)) \in Verdict
  BY DEF Judge, Verdict
<1>2. QED
  BY <1>1 DEF Finds, TypeOK

LEMMA AppliesType ==
    ASSUME TypeOK, NEW g \in {"send", "pace"}, Applies(g)
    PROVE  seen' \in [{"send", "pace"} -> Verdict] /\ canSend' \in BOOLEAN
  BY DEF Applies, TypeOK, Verdict

LEMMA TypeSend == TypeOK /\ SendStep => TypeOK'
<1> SUFFICES ASSUME TypeOK, SendStep PROVE TypeOK'
  OBVIOUS
<1> USE DEF TypeOK, setup, testVars, sendVars, EndOfTurn
<1>1. CASE PaceFinds
  <2>1. slot' \in [Tickers -> 0..now]
    BY <1>1, TakeType DEF PaceFinds, Tickers
  <2>2. QED
    BY <1>1, <2>1, FindsType DEF PaceFinds
<1>2. CASE PaceApplies
  BY <1>2, AppliesType DEF PaceApplies
<1>3. CASE SendTick
  <2>1. slot' \in [Tickers -> 0..now]
    BY <1>3, TakeType DEF SendTick, Tickers
  <2>2. QED
    BY <1>3, <2>1 DEF SendTick
<1>4. CASE Writes
  BY <1>4, ConfFields DEF Writes
<1>5. CASE Checks
  <2>1. seen' \in [{"send", "pace"} -> Verdict]
    BY <1>5, FindsType DEF Checks
  <2>2. QED
    BY <1>5, <2>1 DEF Checks
<1>6. CASE SendApplies
  BY <1>6, AppliesType DEF SendApplies
<1>7. QED
  BY <1>1, <1>2, <1>3, <1>4, <1>5, <1>6 DEF SendStep

LEMMA TypeNext == TypeOK /\ [Next]_vars => TypeOK'
<1>1. TypeOK /\ UNCHANGED vars => TypeOK'
  BY DEF TypeOK, vars, setup, testVars, sendVars
<1>2. QED
  BY <1>1, TypeSetup, TypeClock, TypeSend DEF Next, SendStep

\* The types hold, in every instance.
THEOREM ClockTypes == Spec => []TypeOK
  BY InitType, TypeNext, PTL DEF Spec

-----------------------------------------------------------------------------
\* Once the parameters are exchanged, the settings are those of the command line.
Asked(s) ==
    /\ s.proto = opt.proto /\ s.mode = Mode(isServer, opt.R)
    /\ s.duration = opt.d /\ s.interval = opt.i
    /\ s.burst = ~opt.hasB /\ s.rate = (IF opt.hasB THEN opt.b % Word ELSE 0)
    /\ s.blksize = (IF opt.hasL THEN opt.l ELSE DefaultBlk)
AskedInv ==
    /\ phase \in {"ready", "running", "ended"} => Asked(conf)
    /\ phase = "params" => opt.proto \in ProtocolList
    /\ phase \in {"running", "ended"} => Due(isServer, conf) <= MaxDur
    /\ phase = "panicked" =>
           \/ EmptyRate(opt)
           \/ opt.proto = "udp"
           \/ Asked(conf) /\ (Unfit \/ conf.interval > MaxDur \/ SendInterval(conf) = 0)

LEMMA ProtocolNames == \A p \in ProtocolList : p \in Protocols \/ p = "udp"
  BY DEF ProtocolList, Protocols

\* A name that is no protocol leaves none to a client that has just begun.
LEMMA ParsedProto ==
    ASSUME NEW o \in Option, o.proto \in ProtocolList
    PROVE  /\ Parsed(o).proto = "nil" => o.proto = "udp"
           /\ Parsed(o).proto # "nil" => Parsed(o).proto = o.proto /\ o.proto \in Protocols
<1>1. Parsed(o).proto = SetProtocol("nil", o.proto)
  BY DEF Parsed
<1>2. "nil" \notin Protocols
  BY DEF Protocols
<1>3. QED
  BY <1>1, <1>2, ProtocolNames DEF SetProtocol

LEMMA AskedExchange == TypeOK /\ AskedInv /\ Exchanges => AskedInv'
<1> SUFFICES ASSUME TypeOK, AskedInv, Exchanges PROVE AskedInv'
  OBVIOUS
<1>1. opt \in Option /\ opt.proto \in ProtocolList /\ UNCHANGED <<opt, isServer>>
  BY ConfFields DEF Exchanges, AskedInv, setup
<1>2. CASE Parsed(opt).proto = "nil"
  <2>1. opt'.proto = "udp" /\ phase' \in {"failed", "panicked"}
    BY <1>1, <1>2, ParsedProto DEF Exchanges
  <2>2. QED
    BY <2>1 DEF AskedInv
<1>3. CASE Parsed(opt).proto # "nil"
  <2>1. Parsed(opt).proto = opt.proto /\ opt.proto \in Protocols
    BY <1>1, <1>3, ParsedProto
  <2>2. phase' = "ready" /\ conf' = IF isServer THEN Received(conf, Parsed(opt)) ELSE Parsed(opt)
    BY <1>3 DEF Exchanges
  <2>3. CASE ~isServer
    <3>1. conf' = Parsed(opt)
      BY <2>2, <2>3
    <3>2. Asked(conf)'
      BY <1>1, <2>1, <2>3, <3>1 DEF Asked, Parsed, Mode, TypeOK
    <3>3. QED
      BY <2>2, <3>2 DEF AskedInv
  <2>4. CASE isServer
    <3>1. Parsed(opt) \in Settings /\ Parsed(opt).reverse = opt.R
      BY <1>1, ParsedType DEF Parsed
    <3>2. conf' = [Parsed(opt) EXCEPT !.proto = SetProtocol(conf.proto, opt.proto), !.mode = Mode(TRUE, opt.R)]
      BY <2>1, <2>2, <2>4, <3>1 DEF Received
    <3>3. SetProtocol(conf.proto, opt.proto) = opt.proto
      BY <2>1 DEF SetProtocol
    <3>4. /\ conf'.proto = opt.proto /\ conf'.mode = Mode(TRUE, opt.R)
          /\ conf'.duration = Parsed(opt).duration /\ conf'.interval = Parsed(opt).interval
          /\ conf'.burst = Parsed(opt).burst /\ conf'.rate = Parsed(opt).rate
          /\ conf'.blksize = Parsed(opt).blksize
      BY <3>1, <3>2, <3>3 DEF Settings
    <3>5. Asked(conf)'
      BY <1>1, <2>4, <3>4 DEF Asked, Parsed, TypeOK
    <3>6. QED
      BY <2>2, <3>5 DEF AskedInv
  <2>5. QED
    BY <2>3, <2>4 DEF TypeOK
<1>4. QED
  BY <1>2, <1>3

LEMMA AskedNext == TypeOK /\ AskedInv /\ [Next]_vars => AskedInv'
<1> SUFFICES ASSUME TypeOK, AskedInv, [Next]_vars PROVE AskedInv'
  OBVIOUS
<1>1. CASE Parses
  <2>1. phase' \in {"failed", "panicked", "params"} /\ UNCHANGED <<opt, isServer, conf>>
    BY <1>1 DEF Parses, setup
  <2>2. phase' = "panicked" => EmptyRate(opt)
    BY <1>1 DEF Parses
  <2>3. phase' = "params" => opt.proto \in ProtocolList
    BY <1>1 DEF Parses, Refused
  <2>4. QED
    BY <2>1, <2>2, <2>3 DEF AskedInv
<1>2. CASE Exchanges
  BY <1>2, AskedExchange
<1>3. CASE Starts
  <2>1. Asked(conf) /\ UNCHANGED <<opt, isServer, conf>>
    BY <1>3 DEF Starts, AskedInv, setup
  <2>2. Asked(conf)'
    BY <2>1 DEF Asked
  <2>3. phase' \in {"failed", "panicked", "running", "astray"}
    BY <1>3 DEF Starts
  <2>4. phase' = "panicked" => Unfit \/ conf.interval > MaxDur \/ SendInterval(conf) = 0
    BY <1>3 DEF Starts
  <2>5. UNCHANGED <<Unfit, SendInterval(conf), Due(isServer, conf)>>
    BY <2>1 DEF Unfit, SendInterval, Due
  <2>6. phase' = "running" => Due(isServer, conf) <= MaxDur
    <3>1. Due(isServer, conf) \in Nat
      BY ConfFields, Numbers, TimesNat DEF Due
    <3>2. QED
      BY <1>3, <3>1, Numbers DEF Starts, Overflows
  <2>7. QED
    BY <2>1, <2>2, <2>3, <2>4, <2>5, <2>6 DEF AskedInv
<1>4. ASSUME UNCHANGED setup, phase' = phase \/ (phase = "running" /\ phase' = "ended")
      PROVE  AskedInv'
  <2>1. UNCHANGED <<opt, isServer, conf>>
    BY <1>4 DEF setup
  <2>2. UNCHANGED <<Asked(conf), Unfit, SendInterval(conf), Due(isServer, conf), EmptyRate(opt)>>
    BY <2>1 DEF Asked, Unfit, SendInterval, Due, EmptyRate
  <2>3. QED
    BY <1>4, <2>1, <2>2 DEF AskedInv
<1>5. CASE Ticks \/ StatsTick \/ TimerFires \/ Ends
  BY <1>4, <1>5 DEF Ticks, StatsTick, TimerFires, Ends
<1>6. CASE SendStep
  BY <1>4, <1>6 DEF SendStep, PaceFinds, PaceApplies, SendTick, Writes, Checks, SendApplies
<1>7. CASE UNCHANGED vars
  BY <1>4, <1>7 DEF vars
<1>8. QED
  BY <1>1, <1>2, <1>3, <1>5, <1>6, <1>7 DEF Next, SendStep

LEMMA AskedAlways == Spec => []AskedInv
<1>1. Init => AskedInv
  BY DEF Init, AskedInv
<1>2. QED
  BY ClockTypes, AskedNext, <1>1, PTL DEF Spec

\* Whatever test a server has run before, both processes run the one asked for.
THEOREM RunAsAsked == Spec => []TestAsAsked
<1>1. TypeOK /\ AskedInv => TestAsAsked
  <2> SUFFICES ASSUME TypeOK, AskedInv, phase \in {"running", "ended"} PROVE TestAsAsked
    BY DEF TestAsAsked
  <2>1. Asked(conf) /\ opt.R \in BOOLEAN /\ isServer \in BOOLEAN
    BY ConfFields DEF AskedInv, Option, TypeOK
  <2>2. QED
    BY <2>1 DEF Asked, TestAsAsked, Mode, Sending
<1>2. QED
  BY ClockTypes, AskedAlways, <1>1, PTL

\* A panic has one of the listed command lines to blame.
THEOREM PanicsKnown == Spec => []PanicsOnlyIf
<1>1. TypeOK /\ AskedInv => PanicsOnlyIf
  <2> SUFFICES ASSUME TypeOK, AskedInv, phase = "panicked", ~EmptyRate(opt), opt.proto # "udp",
                      ~(conf.blksize > MaxBlk), opt.i # 0, ~(opt.i > MaxDur)
               PROVE  opt.hasB /\ (opt.b % Word) > (conf.blksize * Second) % Word
    BY DEF PanicsOnlyIf
  <2>1. Asked(conf) /\ SendInterval(conf) = 0
    <3>1. Asked(conf) /\ (Unfit \/ conf.interval > MaxDur \/ SendInterval(conf) = 0)
      BY DEF AskedInv
    <3>2. conf.interval = opt.i
      BY <3>1 DEF Asked
    <3>3. ~Unfit
      BY <3>2 DEF Unfit
    <3>4. QED
      BY <3>1, <3>2, <3>3
  <2>2. ~conf.burst /\ conf.rate # 0 /\ ((conf.blksize * Second) % Word) \div conf.rate = 0
    <3>1. SendPeriod # 0
      BY OptionsAssumption DEF OptionsAssumption
    <3>2. QED
      BY <2>1, <3>1 DEF SendInterval
  <2>3. (conf.blksize * Second) % Word \in Nat
    BY ConfFields, Numbers, TimesNat, ModNat
  <2>4. conf.rate \in Nat /\ conf.rate > 0
    BY <2>2, ConfFields
  <2>5. (conf.blksize * Second) % Word < conf.rate
    BY <2>2, <2>3, <2>4, DivZero
  <2>6. opt.hasB /\ conf.rate = opt.b % Word
    BY <2>1, <2>2 DEF Asked
  <2>7. QED
    BY <2>3, <2>4, <2>5, <2>6
<1>2. QED
  BY ClockTypes, AskedAlways, <1>1, PTL

-----------------------------------------------------------------------------
\* NeverFaster as an inductive invariant.  What has been sent is compared with
\* what the rate allows; a block more may be sent when canSend was not cleared
\* for the last one, and when a pacing tick is about to set it by an older look.
Sent    == bits * Second
Allowed == conf.rate * now
Block   == conf.blksize * Second
Limited == ~conf.burst /\ conf.duration # 0
Looked  == seen["pace"] = "low"    \* and found the stream below its rate
Kept    == seen["send"] \in {"low", "even"}
RateInv ==
    /\ phase \notin {"running", "ended"} => bits = 0 /\ now = 0 /\ spc = "wait" /\ seen["pace"] = "none"
    /\ spc = "apply" => seen["send"] # "none"
    /\ Limited =>
          /\ Sent <= Allowed + 2 * Block
          /\ spc = "write" => Sent <= Allowed + Block
          /\ spc = "wait" /\ canSend => Sent <= Allowed + Block
          /\ spc = "apply" /\ Kept => Sent <= Allowed \/ done
          /\ Looked => /\ Sent <= Allowed + Block
                       /\ spc = "write" => Sent <= Allowed
                       /\ spc = "wait" /\ canSend => Sent <= Allowed

\* The three quantities are numbers; the first grows by blocks, the second with time.
LEMMA RateNumbers ==
    TypeOK => Sent \in Nat /\ Allowed \in Nat /\ Block \in Nat
  BY ConfFields, Numbers, TimesNat DEF Sent, Allowed, Block, TypeOK

LEMMA BlockSent ==
    ASSUME TypeOK, Writes
    PROVE  Sent' = Sent + Block /\ Allowed' = Allowed /\ Block' = Block
<1>1. bits' = bits + conf.blksize /\ UNCHANGED <<conf, now>>
  BY DEF Writes, setup
<1>2. (bits + conf.blksize) * Second = bits * Second + conf.blksize * Second
  BY ConfFields, Numbers DEF TypeOK
<1>3. QED
  BY <1>1, <1>2 DEF Sent, Allowed, Block

LEMMA RateTick ==
    ASSUME TypeOK, Ticks
    PROVE  Sent' = Sent /\ Allowed' >= Allowed /\ Allowed' \in Nat /\ Block' = Block
<1>1. now' = now + 1 /\ UNCHANGED <<conf, bits>>
  BY DEF Ticks, setup, sendVars
<1>2. now \in Nat /\ now' \in Nat /\ now <= now'
  BY <1>1 DEF TypeOK
<1>3. conf.rate * now <= conf.rate * now' /\ conf.rate * now' \in Nat /\ conf.rate * now \in Nat
  BY <1>2, ConfFields, TimesMono, TimesNat
<1>4. QED
  BY <1>1, <1>3 DEF Sent, Allowed, Block

\* A look at time t finds the stream low only below what t allows.
LEMMA LookedLow ==
    ASSUME TypeOK, NEW t \in 0..now
    PROVE  Judge(t) # "high" => Sent <= Allowed
<1>1. t \in Nat /\ t <= now /\ now \in Nat
  BY DEF TypeOK
<1>2. conf.rate * t <= conf.rate * now /\ conf.rate * t \in Nat /\ conf.rate * now \in Nat
  BY <1>1, ConfFields, TimesMono, TimesNat
<1>3. Judge(t) # "high" => bits * Second <= conf.rate * t
  <2>1. bits * Second \in Nat
    BY ConfFields, Numbers, TimesNat DEF TypeOK
  <2>2. QED
    BY <1>2, <2>1 DEF Judge
<1>4. bits * Second \in Nat
  BY ConfFields, Numbers, TimesNat DEF TypeOK
<1>5. QED
  BY <1>2, <1>3, <1>4 DEF Sent, Allowed

LEMMA RateInit == TypeOK /\ Init => RateInv
<1> SUFFICES ASSUME TypeOK, Init PROVE RateInv
  OBVIOUS
<1>1. Sent = 0
  BY Numbers DEF Init, Sent
<1>2. QED
  BY <1>1, RateNumbers DEF Init, RateInv, Looked

\* Until the test starts nothing has been sent.
LEMMA RateSetup == TypeOK /\ TypeOK' /\ RateInv /\ (Parses \/ Exchanges \/ Starts) => RateInv'
<1> SUFFICES ASSUME TypeOK, TypeOK', RateInv, Parses \/ Exchanges \/ Starts PROVE RateInv'
  OBVIOUS
<1>1. phase \notin {"running", "ended"} /\ UNCHANGED <<now, sendVars>>
  BY DEF Parses, Exchanges, Starts
<1>2. bits' = 0 /\ now' = 0 /\ spc' = "wait" /\ seen'["pace"] = "none"
  BY <1>1 DEF RateInv, sendVars
<1>3. Sent' = 0
  BY <1>2, Numbers DEF Sent
<1>4. Sent' \in Nat /\ Allowed' \in Nat /\ Block' \in Nat
  <2>1. conf'.rate \in Nat /\ conf'.blksize \in Nat /\ now' \in Nat
    BY DEF TypeOK, Settings
  <2>2. QED
    BY <1>3, <2>1, TimesNat, Numbers DEF Allowed, Block
<1>5. Sent' <= Allowed' /\ Sent' <= Allowed' + Block' /\ Sent' <= Allowed' + 2 * Block'
  <2>1. \A a \in Nat, b \in Nat : 0 <= a /\ 0 <= a + b /\ 0 <= a + 2 * b
    OBVIOUS
  <2>2. 0 <= Allowed' /\ 0 <= Allowed' + Block' /\ 0 <= Allowed' + 2 * Block'
    BY <1>4, <2>1
  <2>3. QED
    BY <1>3, <2>2
<1>6. QED
  BY <1>2, <1>5 DEF RateInv, Looked

LEMMA RateNext == TypeOK /\ TypeOK' /\ RateInv /\ [Next]_vars => RateInv'
<1> SUFFICES ASSUME TypeOK, TypeOK', RateInv, [Next]_vars PROVE RateInv'
  OBVIOUS
<1>0. /\ Sent \in Nat /\ Allowed \in Nat /\ Block \in Nat /\ seen \in [{"send", "pace"} -> Verdict]
      /\ done \in BOOLEAN /\ canSend \in BOOLEAN /\ now \in Nat
  BY RateNumbers DEF TypeOK
<1>a. ASSUME UNCHANGED <<conf, bits, now>>
      PROVE  Sent' = Sent /\ Allowed' = Allowed /\ Block' = Block /\ (Limited' <=> Limited)
  BY <1>a DEF Sent, Allowed, Block, Limited
<1>1. CASE Parses \/ Exchanges \/ Starts
  BY <1>1, RateSetup
<1>2. CASE Ticks
  <2>1. phase = "running" /\ UNCHANGED <<phase, conf, sendVars, done>>
    BY <1>2 DEF Ticks, setup, testVars
  <2>2. QED
    BY <1>0, <1>2, <2>1, RateTick DEF RateInv, Limited, Looked, Kept, sendVars
<1>3. CASE StatsTick \/ TimerFires \/ Ends
  <2>1. /\ UNCHANGED <<conf, now, sendVars>> /\ (done => done')
        /\ phase = "running" /\ phase' \in {"running", "ended"}
    BY <1>0, <1>3 DEF StatsTick, TimerFires, Ends, Take, setup
  <2>2. QED
    BY <1>0, <1>a, <2>1 DEF RateInv, Looked, Kept, sendVars
<1>4. CASE PaceFinds
  <2>1. /\ phase = "running" /\ slot["pace"] \in 0..now /\ seen["pace"] = "none"
        /\ UNCHANGED <<phase, conf, now, bits, canSend, spc, done>>
    BY <1>4 DEF PaceFinds, Take, Tickers, TypeOK, setup, testVars
  <2>2. seen' = [seen EXCEPT !["pace"] = IF done THEN "even" ELSE Judge(slot["pace"])]
    BY <1>4 DEF PaceFinds, Finds
  <2>3. seen'["send"] = seen["send"] /\ (Looked' => Sent <= Allowed)
    BY <1>0, <2>1, <2>2, LookedLow DEF Looked
  <2>4. QED
    BY <1>0, <1>a, <2>1, <2>3 DEF RateInv, Kept
<1>5. CASE PaceApplies
  <2>1. /\ phase = "running"
        /\ UNCHANGED <<phase, conf, now, bits, spc, done>>
    BY <1>5 DEF PaceApplies, setup, testVars
  <2>2. /\ seen'["pace"] = "none" /\ seen'["send"] = seen["send"]
        /\ canSend' => canSend \/ Looked
    BY <1>0, <1>5 DEF PaceApplies, Applies, Looked
  <2>3. QED
    BY <1>0, <1>a, <2>1, <2>2 DEF RateInv, Looked, Kept
<1>6. CASE SendTick
  <2>1. /\ phase = "running" /\ spc = "wait" /\ spc' = IF canSend THEN "write" ELSE "check"
        /\ UNCHANGED <<phase, conf, now, bits, canSend, seen, done>>
    BY <1>6 DEF SendTick, Take, setup, testVars
  <2>2. QED
    BY <1>0, <1>a, <2>1 DEF RateInv, Looked, Kept
<1>7. CASE Writes
  <2>1. /\ phase = "running" /\ spc = "write" /\ spc' = "check"
        /\ UNCHANGED <<phase, conf, now, canSend, seen, done>>
    BY <1>7 DEF Writes, setup, testVars
  <2>2. Sent' = Sent + Block /\ Allowed' = Allowed /\ Block' = Block
    BY <1>7, BlockSent
  <2>3. QED
    BY <1>0, <2>1, <2>2 DEF RateInv, Looked, Kept, Limited
<1>8. CASE Checks
  <2>1. /\ phase = "running" /\ spc = "check"
        /\ UNCHANGED <<phase, conf, now, bits, canSend, done>>
    BY <1>8 DEF Checks, setup, testVars
  <2>2. CASE conf.burst
    <3>1. spc' # "apply"
      BY <1>8, <2>2 DEF Checks, EndOfTurn
    <3>2. QED
      BY <2>1, <2>2, <3>1 DEF RateInv, Limited
  <2>3. CASE ~conf.burst
    <3>1. spc' = "apply" /\ seen' = [seen EXCEPT !["send"] = IF done THEN "even" ELSE Judge(now)]
      BY <1>8, <2>3 DEF Checks, Finds
    <3>2. now \in 0..now
      BY <1>0
    <3>3. seen'["pace"] = seen["pace"] /\ seen'["send"] # "none" /\ (Kept' => Sent <= Allowed \/ done)
      BY <1>0, <3>1, <3>2, LookedLow DEF Kept, Judge
    <3>4. QED
      BY <1>0, <1>a, <2>1, <3>1, <3>3 DEF RateInv, Looked
  <2>4. QED
    BY <2>2, <2>3
<1>9. CASE SendApplies
  <2>1. /\ phase = "running" /\ spc = "apply"
        /\ UNCHANGED <<phase, conf, now, bits, done>>
    BY <1>9 DEF SendApplies, setup, testVars
  <2>2. Limited => spc' = IF done THEN "ended" ELSE "wait"
    BY <1>9 DEF SendApplies, EndOfTurn, Limited
  <2>3. seen'["pace"] = seen["pace"] /\ (canSend' => Kept) /\ spc' # "apply"
    BY <1>0, <1>9, <2>1 DEF SendApplies, Applies, Kept, Verdict, RateInv, EndOfTurn
  <2>4. QED
    BY <1>0, <1>a, <2>1, <2>2, <2>3 DEF RateInv, Looked
<1>10. CASE UNCHANGED vars
  BY <1>a, <1>10 DEF vars, setup, testVars, sendVars, RateInv, Looked, Kept
<1>11. QED
  BY <1>1, <1>2, <1>3, <1>4, <1>5, <1>6, <1>7, <1>8, <1>9, <1>10 DEF Next

\* A stream with a rate is never more than two blocks above it, however late its
\* ticks are and whatever its two throttles overtake.
THEOREM RateKept == Spec => []NeverFaster
<1>1. TypeOK /\ RateInv => NeverFaster
  <2> SUFFICES ASSUME TypeOK, RateInv, Limited PROVE Sent <= Allowed + 2 * conf.blksize * Second
    BY DEF NeverFaster, Limited, Sent, Allowed
  <2>1. 2 * conf.blksize * Second = 2 * Block
    BY ConfFields, Numbers DEF Block
  <2>2. QED
    BY <2>1 DEF RateInv
<1>2. QED
  BY ClockTypes, RateInit, InitType, RateNext, <1>1, PTL DEF Spec

-----------------------------------------------------------------------------
\* NeverSlower as an inductive invariant.  As long as nobody is behind, what a
\* tick starts is over before time goes on.  At each tick of the send ticker the
\* stream writes a block, which makes up for the time since the last tick, unless
\* canSend is cleared; then it was above its rate at the last tick or after.
Turn      == SendInterval(conf)
LastTick  == next["send"] - Turn
AtTick    == next["send"] = now + Turn    \* a tick of the send ticker is due now
OnTime    == ~behind /\ ~done /\ ~conf.burst
\* How much the stream may lack at its last tick, by what it has still to do.
Lacking ==
    CASE spc = "wait" /\ slot["send"] = 0 -> IF canSend THEN Block ELSE 0
      [] spc = "wait" /\ slot["send"] # 0 -> IF canSend THEN 2 * Block ELSE Block
      [] spc = "write" -> 2 * Block
      [] spc = "check" -> Block
      [] spc = "apply" -> IF seen["send"] = "low" THEN Block ELSE 0
      [] OTHER -> 0
SlowInv ==
    /\ phase \in {"start", "params", "ready"} =>
           slot["send"] = 0 /\ slot["pace"] = 0 /\ canSend
    /\ phase = "running" /\ Sending =>
           /\ Turn # 0
           /\ next["send"] \in (now + 1)..(now + Turn)
           /\ OnTime =>
                 /\ spc # "ended"
                 /\ slot["send"] # 0 => spc = "wait"
                 /\ slot["pace"] \in {0, now}
                 /\ slot["send"] # 0 \/ spc # "wait" => AtTick
                 /\ seen["pace"] = "high" => Allowed < Sent
                 /\ conf.rate * LastTick <= Sent + Lacking


LEMMA DivTimes == \A a \in Nat, b \in Nat : b > 0 => b * (a \div b) <= a
  OBVIOUS

\* What the rate allows in a turn of the stream is at most a block.
LEMMA TurnNumbers ==
    TypeOK => /\ Turn \in Nat
              /\ LastTick \in Int /\ conf.rate * LastTick \in Int
              /\ ~conf.burst => conf.rate * Turn <= Block
<1> SUFFICES ASSUME TypeOK
             PROVE  /\ Turn \in Nat
                    /\ LastTick \in Int /\ conf.rate * LastTick \in Int
                    /\ ~conf.burst => conf.rate * Turn <= Block
  OBVIOUS
<1>1. conf.rate \in Nat /\ Block \in Nat /\ conf.burst \in BOOLEAN
  BY ConfFields, RateNumbers
<1>2. CASE ~conf.burst /\ conf.rate # 0
  <2>1. Turn = (Block % Word) \div conf.rate
    BY <1>2 DEF Turn, SendInterval, Block
  <2>2. Turn \in Nat /\ conf.rate * Turn <= Block
    <3>1. Block % Word \in Nat /\ Block % Word <= Block
      BY <1>1, Numbers, ModNat, ModLeq
    <3>2. Turn \in Nat /\ conf.rate * Turn <= Block % Word
      BY <1>1, <1>2, <2>1, <3>1, DivNat, DivTimes
    <3>3. conf.rate * Turn \in Nat
      BY <1>1, <3>2, TimesNat
    <3>4. QED
      BY <1>1, <3>1, <3>2, <3>3
  <2>3. next["send"] \in Nat
    BY DEF TypeOK, Tickers
  <2>4. QED
    BY <1>1, <2>2, <2>3 DEF LastTick
<1>3. CASE ~(~conf.burst /\ conf.rate # 0)
  <2>1. Turn \in Nat
    BY <1>3, Numbers DEF Turn, SendInterval
  <2>2. ~conf.burst => conf.rate * Turn = 0
    BY <1>1, <1>3, <2>1
  <2>3. next["send"] \in Nat
    BY DEF TypeOK, Tickers
  <2>4. QED
    BY <1>1, <2>1, <2>2, <2>3 DEF LastTick
<1>4. QED
  BY <1>2, <1>3

\* The product grows with the time.
LEMMA TimesMonoInt == \A r \in Nat, a \in Int, b \in Int : a <= b => r * a <= r * b
<1> SUFFICES ASSUME NEW r \in Nat, NEW a \in Int, NEW b \in Int, a <= b PROVE r * a <= r * b
  OBVIOUS
<1>1. b - a \in Nat /\ b = a + (b - a)
  OBVIOUS
<1>2. r * (a + (b - a)) = r * a + r * (b - a)
  BY <1>1
<1>3. r * (b - a) \in Nat /\ r * a \in Int
  BY <1>1, TimesNat
<1>4. QED
  BY <1>1, <1>2, <1>3

LEMMA SlowInit == Init => SlowInv
  BY DEF Init, SlowInv, Tickers

\* The first turn of the stream ends at the first tick.
LEMMA SlowSetup ==
    TypeOK /\ TypeOK' /\ RateInv /\ SlowInv /\ (Parses \/ Exchanges \/ Starts) => SlowInv'
<1> SUFFICES ASSUME TypeOK, TypeOK', RateInv, SlowInv, Parses \/ Exchanges \/ Starts
             PROVE  SlowInv'
  OBVIOUS
<1>1. /\ phase \in {"start", "params", "ready"} /\ UNCHANGED <<now, slot, sendVars, behind, done>>
      /\ phase' \in {"params", "ready", "running", "failed", "panicked", "astray"}
  BY DEF Parses, Exchanges, Starts, setup, testVars
<1>2. slot["send"] = 0 /\ slot["pace"] = 0 /\ canSend /\ now = 0 /\ spc = "wait" /\ seen["pace"] = "none"
  BY <1>1 DEF SlowInv, RateInv
<1>3. CASE phase' # "running"
  BY <1>1, <1>2, <1>3 DEF SlowInv, sendVars
<1>4. CASE phase' = "running"
  <2>1. Starts /\ UNCHANGED conf
    <3>1. ~Parses
      BY <1>4 DEF Parses
    <3>2. ~Exchanges
      BY <1>4 DEF Exchanges
    <3>3. Starts
      BY <3>1, <3>2
    <3>4. QED
      BY <3>3 DEF Starts, setup
  <2>2. CASE ~Sending
    BY <1>4, <2>1, <2>2 DEF SlowInv, Sending
  <2>3. CASE Sending
    <3>1. Turn # 0 /\ Turn' = Turn /\ next'["send"] = Turn
      BY <1>4, <2>1, <2>3 DEF Starts, Turn, Period, Tickers
    <3>2. Turn \in Nat /\ now' = 0 /\ LastTick' = 0 /\ conf'.rate \in Nat
      BY <1>1, <1>2, <2>1, <3>1, TurnNumbers, ConfFields DEF LastTick
    <3>3. conf'.rate * LastTick' = 0
      BY <3>2
    <3>4. spc' = "wait" /\ slot'["send"] = 0 /\ canSend' /\ slot'["pace"] = 0 /\ seen'["pace"] = "none"
      BY <1>1, <1>2 DEF sendVars
    <3>5. Lacking' = Block'
      BY <3>4 DEF Lacking
    <3>6. Sent' \in Nat /\ Block' \in Nat
      <4>1. bits' \in Nat /\ conf'.blksize \in Nat
        BY DEF TypeOK, Settings
      <4>2. QED
        BY <4>1, Numbers, TimesNat DEF Sent, Block
    <3>7. QED
      BY <1>4, <3>1, <3>2, <3>3, <3>4, <3>5, <3>6 DEF SlowInv
  <2>4. QED
    BY <2>2, <2>3
<1>5. QED
  BY <1>3, <1>4

\* Time goes on when everybody waits.
LEMMA SlowTick == TypeOK /\ TypeOK' /\ SlowInv /\ Ticks => SlowInv'
<1> SUFFICES ASSUME TypeOK, TypeOK', SlowInv, Ticks, Sending PROVE SlowInv'
  BY DEF SlowInv, Ticks, Sending, setup
<1>0. /\ Sent \in Nat /\ Allowed \in Nat /\ Block \in Nat /\ Turn \in Nat /\ conf.rate \in Nat
      /\ now \in Nat /\ next["send"] \in Nat /\ LastTick \in Int /\ conf.rate * LastTick \in Int
      /\ seen \in [{"send", "pace"} -> Verdict] /\ slot \in [Tickers -> 0..now]
  BY RateNumbers, TurnNumbers, ConfFields DEF TypeOK, Tickers
<1>1. /\ phase = "running" /\ phase' = "running" /\ now' = now + 1
      /\ UNCHANGED <<conf, bits, canSend, spc, seen, done>>
  BY DEF Ticks, setup, testVars, sendVars
<1>2. Turn # 0 /\ next["send"] \in (now + 1)..(now + Turn)
  BY <1>1 DEF SlowInv
<1>3. /\ Turn' = Turn /\ Block' = Block /\ Sent' = Sent
      /\ next'["send"] = IF next["send"] = now' THEN now' + Turn ELSE next["send"]
      /\ slot'["send"] = IF next["send"] = now' /\ slot["send"] = 0 THEN now' ELSE slot["send"]
      /\ slot'["pace"] = IF next["pace"] = now' /\ slot["pace"] = 0 THEN now' ELSE slot["pace"]
  BY <1>0, <1>1 DEF Ticks, Turn, Block, Sent, Period, Tickers
<1>4. next'["send"] \in (now' + 1)..(now' + Turn')
  BY <1>0, <1>1, <1>2, <1>3
<1>5. ASSUME OnTime'
      PROVE  /\ OnTime /\ spc = "wait" /\ slot["send"] = 0 /\ slot["pace"] = 0
             /\ seen["pace"] = "none" /\ conf.rate * LastTick <= Sent + Lacking
  <2>1. OnTime /\ spc \in {"wait", "ended"} /\ slot["send"] = 0 /\ slot["pace"] = 0 /\ seen["pace"] = "none"
    BY <1>1, <1>5 DEF OnTime, Ticks
  <2>2. QED
    BY <1>1, <2>1 DEF SlowInv
<1>6. ASSUME OnTime' PROVE conf'.rate * LastTick' <= Sent' + Lacking'
  <2>1. Lacking = IF canSend THEN Block ELSE 0
    BY <1>5, <1>6 DEF Lacking
  <2>2. CASE next["send"] = now'
    <3>1. slot'["send"] # 0 /\ spc' = "wait"
      BY <1>0, <1>1, <1>3, <1>5, <1>6, <2>2
    <3>2. Lacking' = IF canSend THEN 2 * Block ELSE Block
      BY <1>1, <1>3, <3>1 DEF Lacking
    <3>3. LastTick' = LastTick + Turn
      BY <1>0, <1>3, <2>2 DEF LastTick
    <3>4. conf.rate * (LastTick + Turn) = conf.rate * LastTick + conf.rate * Turn
      BY <1>0
    <3>5. conf.rate * Turn <= Block /\ conf.rate * Turn \in Nat
      BY <1>0, <1>1, <1>6, TurnNumbers, TimesNat DEF OnTime
    <3>6. QED
      BY <1>0, <1>1, <1>3, <1>5, <1>6, <2>1, <3>2, <3>3, <3>4, <3>5
  <2>3. CASE next["send"] # now'
    <3>1. slot'["send"] = 0 /\ LastTick' = LastTick
      BY <1>3, <1>5, <1>6, <2>3 DEF LastTick
    <3>2. Lacking' = Lacking
      BY <1>1, <1>3, <1>5, <1>6, <3>1 DEF Lacking
    <3>3. QED
      BY <1>1, <1>3, <1>5, <1>6, <3>1, <3>2
  <2>4. QED
    BY <2>2, <2>3
<1>7. ASSUME OnTime'
      PROVE  /\ spc' = "wait" /\ seen'["pace"] = "none" /\ slot'["pace"] \in {0, now'}
             /\ slot'["send"] # 0 => AtTick'
  BY <1>1, <1>3, <1>5, <1>7 DEF AtTick
<1>8. QED
  BY <1>1, <1>2, <1>3, <1>4, <1>6, <1>7 DEF SlowInv

\* Once nobody is on time any more, or the test is done, nothing is claimed.
LEMMA SlowOther == TypeOK /\ SlowInv /\ (StatsTick \/ TimerFires \/ Ends) => SlowInv'
<1> SUFFICES ASSUME TypeOK, SlowInv, StatsTick \/ TimerFires \/ Ends PROVE SlowInv'
  OBVIOUS
<1>1. /\ phase = "running" /\ phase' \in {"running", "ended"}
      /\ UNCHANGED <<conf, now, bits, canSend, spc, seen, behind>> /\ (done => done')
      /\ UNCHANGED <<next["send"], slot["send"], slot["pace"]>>
  BY DEF StatsTick, TimerFires, Ends, Take, setup, sendVars, TypeOK, Tickers
<1>2. done \in BOOLEAN /\ done' \in BOOLEAN
  BY DEF StatsTick, TimerFires, Ends, Take, testVars, TypeOK
<1>3. OnTime' => OnTime
  BY <1>1, <1>2 DEF OnTime
<1>4. UNCHANGED <<Sent, Allowed, Block, Turn, LastTick, Sending, AtTick, Lacking>>
  BY <1>1 DEF Sent, Allowed, Block, Turn, LastTick, Sending, AtTick, Lacking
<1>5. QED
  BY <1>1, <1>3, <1>4 DEF SlowInv

\* A turn of the stream or of its pacing ticker: between two ticks.
LEMMA SlowTurn == TypeOK /\ TypeOK' /\ RateInv /\ SlowInv /\ SendStep => SlowInv'
<1> SUFFICES ASSUME TypeOK, TypeOK', RateInv, SlowInv, SendStep PROVE SlowInv'
  OBVIOUS
<1>0. /\ Sent \in Nat /\ Allowed \in Nat /\ Block \in Nat /\ conf.rate * LastTick \in Int
      /\ seen \in [{"send", "pace"} -> Verdict] /\ slot \in [Tickers -> 0..now]
      /\ canSend \in BOOLEAN /\ now \in Nat /\ conf.rate \in Nat /\ Turn \in Nat /\ LastTick \in Int
  BY RateNumbers, TurnNumbers, ConfFields DEF TypeOK
<1>1. /\ phase = "running" /\ UNCHANGED <<phase, conf, now, next, done, behind>>
  BY DEF SendStep, PaceFinds, PaceApplies, SendTick, Writes, Checks, SendApplies, Take, setup, testVars
<1>2. UNCHANGED <<Allowed, Block, Turn, LastTick, Sending, AtTick, OnTime>>
  BY <1>1 DEF Allowed, Block, Turn, LastTick, Sending, AtTick, OnTime
<1>3. CASE ~(Sending /\ OnTime)
  BY <1>1, <1>2, <1>3 DEF SlowInv
<1>4. CASE Sending /\ OnTime
  <2>1. /\ Turn # 0 /\ next["send"] \in (now + 1)..(now + Turn)
        /\ spc # "ended" /\ (slot["send"] # 0 => spc = "wait") /\ slot["pace"] \in {0, now}
        /\ (slot["send"] # 0 \/ spc # "wait" => AtTick)
        /\ (seen["pace"] = "high" => Allowed < Sent)
        /\ conf.rate * LastTick <= Sent + Lacking
    BY <1>1, <1>4 DEF SlowInv
  <2>2. conf.rate * LastTick <= Allowed /\ (AtTick => conf.rate * LastTick = Allowed)
    <3>1. LastTick <= now /\ (AtTick => LastTick = now)
      BY <1>0, <2>1 DEF LastTick, AtTick
    <3>2. QED
      BY <1>0, <3>1, TimesMonoInt DEF Allowed
  <2>3. SUFFICES /\ spc' # "ended" /\ (slot'["send"] # 0 => spc' = "wait") /\ slot'["pace"] \in {0, now}
                 /\ (slot'["send"] # 0 \/ spc' # "wait" => AtTick)
                 /\ (seen'["pace"] = "high" => Allowed < Sent')
                 /\ conf.rate * LastTick <= Sent' + Lacking'
    BY <1>1, <1>2, <1>4, <2>1 DEF SlowInv
  <2>4. ~done /\ ~conf.burst
    BY <1>4 DEF OnTime
  <2>5. CASE PaceFinds
    <3>1. /\ UNCHANGED <<bits, canSend, spc>> /\ slot["pace"] = now
          /\ slot' = [slot EXCEPT !["pace"] = 0]
          /\ seen' = [seen EXCEPT !["pace"] = Judge(now)]
      BY <2>1, <2>4, <2>5 DEF PaceFinds, Take, Finds
    <3>2. Sent' = Sent /\ slot'["send"] = slot["send"] /\ slot'["pace"] = 0 /\ seen'["send"] = seen["send"]
      BY <1>0, <3>1 DEF Sent, Tickers
    <3>3. seen'["pace"] = "high" => Allowed < Sent
      BY <1>0, <3>1 DEF Judge, Sent, Allowed
    <3>4. Lacking' = Lacking
      BY <1>2, <3>1, <3>2 DEF Lacking
    <3>5. QED
      BY <2>1, <3>1, <3>2, <3>3, <3>4
  <2>6. CASE PaceApplies
    <3>1. /\ UNCHANGED <<bits, spc, slot>> /\ seen' = [seen EXCEPT !["pace"] = "none"]
          /\ canSend' = CASE seen["pace"] = "low" -> TRUE [] seen["pace"] = "high" -> FALSE [] OTHER -> canSend
      BY <2>6 DEF PaceApplies, Applies
    <3>2. Sent' = Sent /\ seen'["send"] = seen["send"] /\ seen'["pace"] = "none"
      BY <1>0, <3>1 DEF Sent
    <3>3. seen["pace"] = "high" => Lacking' \in Nat /\ conf.rate * LastTick <= Sent
      BY <1>0, <1>2, <2>1, <2>2, <3>1 DEF Lacking
    <3>4. seen["pace"] # "high" => Lacking <= Lacking' /\ Lacking \in Nat /\ Lacking' \in Nat
      BY <1>0, <1>2, <3>1, <3>2 DEF Lacking
    <3>5. conf.rate * LastTick <= Sent' + Lacking'
      BY <1>0, <2>1, <3>2, <3>3, <3>4
    <3>6. QED
      BY <2>1, <3>1, <3>2, <3>5
  <2>7. CASE SendTick
    <3>1. /\ UNCHANGED <<bits, canSend, seen>> /\ spc = "wait" /\ slot["send"] # 0
          /\ slot' = [slot EXCEPT !["send"] = 0] /\ spc' = IF canSend THEN "write" ELSE "check"
      BY <2>7 DEF SendTick, Take
    <3>2. Sent' = Sent /\ slot'["send"] = 0 /\ slot'["pace"] = slot["pace"]
      BY <1>0, <3>1 DEF Sent, Tickers
    <3>3. Lacking' = Lacking
      BY <1>2, <3>1, <3>2 DEF Lacking
    <3>4. QED
      BY <2>1, <3>1, <3>2, <3>3
  <2>8. CASE Writes
    <3>1. UNCHANGED <<canSend, seen, slot>> /\ spc = "write" /\ spc' = "check"
      BY <2>8 DEF Writes
    <3>2. Sent' = Sent + Block
      BY <2>8, BlockSent
    <3>3. Lacking = 2 * Block /\ Lacking' = Block
      BY <1>2, <3>1 DEF Lacking
    <3>4. QED
      BY <1>0, <2>1, <3>1, <3>2, <3>3
  <2>9. CASE Checks
    <3>1. /\ UNCHANGED <<bits, canSend, slot>> /\ spc = "check" /\ spc' = "apply"
          /\ seen' = [seen EXCEPT !["send"] = Judge(now)]
      BY <2>4, <2>9 DEF Checks, Finds
    <3>2. Sent' = Sent /\ seen'["pace"] = seen["pace"] /\ seen'["send"] = Judge(now)
      BY <1>0, <3>1 DEF Sent
    <3>3. Lacking = Block
      BY <3>1 DEF Lacking
    <3>4. CASE Judge(now) = "low"
      BY <1>0, <1>2, <2>1, <3>1, <3>2, <3>3, <3>4 DEF Lacking
    <3>5. CASE Judge(now) # "low"
      <4>1. Allowed <= Sent
        BY <1>0, <3>5 DEF Judge, Sent, Allowed
      <4>2. Lacking' = 0
        BY <3>1, <3>2, <3>5 DEF Lacking
      <4>3. QED
        BY <1>0, <2>1, <2>2, <3>1, <3>2, <4>1, <4>2
    <3>6. QED
      BY <3>4, <3>5
  <2>10. CASE SendApplies
    <3>1. /\ UNCHANGED <<bits, slot>> /\ spc = "apply" /\ spc' = "wait"
          /\ seen' = [seen EXCEPT !["send"] = "none"] /\ seen["send"] # "none"
          /\ canSend' = CASE seen["send"] = "low" -> TRUE [] seen["send"] = "high" -> FALSE [] OTHER -> canSend
      BY <2>4, <2>10 DEF SendApplies, Applies, EndOfTurn, RateInv
    <3>2. Sent' = Sent /\ seen'["pace"] = seen["pace"] /\ slot["send"] = 0
      BY <1>0, <2>1, <3>1 DEF Sent
    <3>3. Lacking <= Lacking' /\ Lacking \in Nat /\ Lacking' \in Nat
      BY <1>0, <1>2, <3>1, <3>2 DEF Lacking
    <3>4. QED
      BY <1>0, <2>1, <3>1, <3>2, <3>3
  <2>11. QED
    BY <2>5, <2>6, <2>7, <2>8, <2>9, <2>10 DEF SendStep
<1>5. QED
  BY <1>3, <1>4

LEMMA SlowNext == TypeOK /\ TypeOK' /\ RateInv /\ SlowInv /\ [Next]_vars => SlowInv'
<1> SUFFICES ASSUME TypeOK, TypeOK', RateInv, SlowInv, [Next]_vars PROVE SlowInv'
  OBVIOUS
<1>1. CASE UNCHANGED vars
  <2>1. /\ UNCHANGED <<phase, next, slot, behind, conf, done, bits, canSend, spc, seen, now>>
    BY <1>1 DEF vars, setup, testVars, sendVars
  <2>2. UNCHANGED <<Sent, Allowed, Block, Turn, LastTick, Sending, AtTick, OnTime, Lacking>>
    BY <2>1 DEF Sent, Allowed, Block, Turn, LastTick, Sending, AtTick, OnTime, Lacking
  <2>3. QED
    BY <2>1, <2>2 DEF SlowInv
<1>2. QED
  BY <1>1, SlowSetup, SlowTick, SlowOther, SlowTurn DEF Next, SendStep

LEMMA RateAlways == Spec => []RateInv
  BY ClockTypes, RateInit, InitType, RateNext, PTL DEF Spec

\* While nobody is behind, a stream is never more than two blocks below its rate:
\* one that it lacked at its last tick, and one for the time since.
THEOREM RateReached == Spec => []NeverSlower
<1>1. TypeOK /\ SlowInv => NeverSlower
  <2> SUFFICES ASSUME TypeOK, SlowInv, phase = "running", Sending, OnTime
               PROVE  Allowed <= (bits + 2 * conf.blksize) * Second
    BY DEF NeverSlower, OnTime, Allowed
  <2>0. /\ Sent \in Nat /\ Allowed \in Nat /\ Block \in Nat /\ conf.rate * LastTick \in Int
        /\ now \in Nat /\ conf.rate \in Nat /\ Turn \in Nat /\ LastTick \in Int
    BY RateNumbers, TurnNumbers, ConfFields DEF TypeOK
  <2>1. /\ next["send"] \in (now + 1)..(now + Turn) /\ spc # "ended"
        /\ (slot["send"] # 0 \/ spc # "wait" => AtTick)
        /\ conf.rate * LastTick <= Sent + Lacking
    BY DEF SlowInv
  <2>2. (bits + 2 * conf.blksize) * Second = Sent + 2 * Block
    BY ConfFields, Numbers DEF Sent, Block, TypeOK
  <2>3. CASE AtTick
    <3>1. LastTick = now
      BY <2>0, <2>3 DEF AtTick, LastTick
    <3>2. Lacking \in 0..(2 * Block)
      BY <2>0 DEF Lacking
    <3>3. QED
      BY <2>0, <2>1, <2>2, <3>1, <3>2 DEF Allowed
  <2>4. CASE ~AtTick
    <3>1. Lacking \in 0..Block
      BY <2>0, <2>1, <2>4 DEF Lacking
    <3>2. now <= LastTick + Turn
      BY <2>0, <2>1 DEF LastTick
    <3>3. Allowed <= conf.rate * (LastTick + Turn)
      BY <2>0, <3>2, TimesMonoInt DEF Allowed
    <3>4. conf.rate * (LastTick + Turn) = conf.rate * LastTick + conf.rate * Turn
      BY <2>0
    <3>5. conf.rate * Turn <= Block /\ conf.rate * Turn \in Nat
      BY <2>0, TurnNumbers, TimesNat DEF OnTime
    <3>6. QED
      BY <2>0, <2>1, <2>2, <3>1, <3>3, <3>4, <3>5
  <2>5. QED
    BY <2>3, <2>4
<1>2. QED
  BY ClockTypes, RateAlways, SlowInit, SlowNext, <1>1, PTL DEF Spec

-----------------------------------------------------------------------------
\* OneResultPerInterval as an inductive invariant.  A tick is taken before the
\* next one is due, so the ticker's time says how many there have been; and a
\* test is not done before its last tick but one was taken.
Span     == conf.duration * Second
Pending  == IF slot["stats"] = 0 THEN 0 ELSE 1
Punctual == conf.interval <= Span /\ Late < conf.interval
Counted  == next["stats"] = (cnt + 1 + Pending) * conf.interval
CountInv ==
    /\ phase \in {"start", "params", "ready"} =>
           cnt = 0 /\ results = 0 /\ slot["stats"] = 0 /\ ~done /\ now = 0
    /\ phase = "running" /\ Punctual =>
           /\ conf.interval # 0
           /\ results = cnt /\ cnt + 1 <= Times(conf)
           /\ next["stats"] = 0 => slot["stats"] = 0 /\ cnt + 1 = Times(conf)
           /\ next["stats"] # 0 =>
                  /\ Counted
                  /\ next["stats"] \in (now + 1)..(now + conf.interval)
                  /\ slot["stats"] # 0 => slot["stats"] = next["stats"] - conf.interval
           /\ slot["stats"] # 0 => now <= slot["stats"] + Late
           /\ done => now >= Span
    /\ phase = "ended" /\ Punctual => results = Times(conf)

\* A quotient and its divisor.
LEMMA DivBounds ==
    \A a \in Nat, b \in Nat : b > 0 => b * (a \div b) <= a /\ a < b * ((a \div b) + 1)
  OBVIOUS

LEMMA ModSmall == \A a \in Nat, b \in Nat : a < b => a % b = a
  OBVIOUS

LEMMA TimesOne == \A a \in Nat, b \in Nat : a >= 1 => a * b >= b
<1> SUFFICES ASSUME NEW a \in Nat, NEW b \in Nat, a >= 1 PROVE a * b >= b
  OBVIOUS
<1>1. b * 1 <= b * a
  BY TimesMono
<1>2. QED
  BY <1>1

\* A smaller product has a smaller factor.
LEMMA TimesLess == \A r \in Nat, a \in Nat, b \in Nat : r * a < r * b => a < b
<1> SUFFICES ASSUME NEW r \in Nat, NEW a \in Nat, NEW b \in Nat, ~(a < b) PROVE ~(r * a < r * b)
  OBVIOUS
<1>1. r * b <= r * a /\ r * a \in Nat /\ r * b \in Nat
  BY TimesMono, TimesNat
<1>2. QED
  BY <1>1

\* The intervals of a test: at least one, and no more than fit.
LEMMA Intervals ==
    ASSUME TypeOK, Punctual
    PROVE  /\ conf.interval \in Nat /\ conf.interval > 0 /\ Span \in Nat
           /\ Times(conf) \in Nat /\ Times(conf) >= 1 /\ Times(conf) <= Span
           /\ conf.interval * Times(conf) <= Span
           /\ Span < conf.interval * (Times(conf) + 1)
<1>1. conf.interval \in Nat /\ conf.interval > 0 /\ Span \in Nat
  BY ConfFields, Numbers, TimesNat DEF Punctual, Span
<1>2. Times(conf) = Span \div conf.interval /\ Times(conf) \in Nat
  BY <1>1, DivNat DEF Times, Span
<1>3. conf.interval * Times(conf) <= Span /\ Span < conf.interval * (Times(conf) + 1)
  BY <1>1, <1>2, DivBounds
<1>4. Times(conf) >= 1
  <2>1. conf.interval * 1 < conf.interval * (Times(conf) + 1)
    BY <1>1, <1>2, <1>3, TimesNat DEF Punctual
  <2>2. QED
    BY <1>1, <1>2, <2>1, TimesLess
<1>5. Times(conf) <= Span
  <2>1. conf.interval * Times(conf) >= Times(conf)
    BY <1>1, <1>2, TimesOne
  <2>2. QED
    BY <1>1, <1>2, <1>3, <2>1, TimesNat
<1>6. QED
  BY <1>1, <1>2, <1>3, <1>4, <1>5

\* The ticker acts on all ticks but the last.
LEMMA TicksActedOn ==
    ASSUME TypeOK, AskedInv, phase = "running", Punctual
    PROVE  MaxTimes(conf) = Times(conf) - 1
<1>1. Due(isServer, conf) <= MaxDur
  BY DEF AskedInv
<1>2. Span < Word
  <2>1. Span \in Nat /\ Due(isServer, conf) = Span + (IF isServer THEN Margin ELSE 0)
    BY Intervals DEF Due, Span
  <2>2. QED
    BY <1>1, <2>1, Numbers
<1>3. Times(conf) - 1 \in Nat /\ Times(conf) - 1 < Word
  BY <1>2, Intervals, Numbers
<1>4. QED
  BY <1>3, ModSmall, Numbers DEF MaxTimes

\* When the time of the test is over, all ticks but the last have been taken.
LEMMA AllTaken ==
    ASSUME TypeOK, CountInv, phase = "running", Punctual, now >= Span
    PROVE  /\ cnt + 1 = Times(conf)
           /\ slot["stats"] # 0 => next["stats"] = (cnt + 2) * conf.interval
<1>1. /\ cnt \in Nat /\ cnt + 1 <= Times(conf) /\ now \in Nat /\ next["stats"] \in Nat
      /\ slot["stats"] \in Nat /\ Late \in Nat
  BY Numbers DEF TypeOK, CountInv, Tickers
<1>2. CASE next["stats"] = 0
  BY <1>2 DEF CountInv
<1>3. CASE next["stats"] # 0
  <2>1. Counted /\ next["stats"] > now
    BY <1>1, <1>3, Intervals DEF CountInv
  <2>2. CASE slot["stats"] = 0
    <3>1. conf.interval * Times(conf) < conf.interval * (cnt + 1)
      BY <1>1, <2>1, <2>2, Intervals, TimesNat DEF Counted, Pending
    <3>2. QED
      BY <1>1, <3>1, Intervals, TimesLess
  <2>3. CASE slot["stats"] # 0
    <3>1. next["stats"] = (cnt + 2) * conf.interval
      BY <1>1, <2>1, <2>3, Intervals DEF Counted, Pending
    <3>2. conf.interval * Times(conf) < conf.interval * (cnt + 2)
      BY <1>1, <2>1, <3>1, Intervals, TimesNat
    <3>3. Times(conf) < cnt + 2
      BY <1>1, <3>2, Intervals, TimesLess
    <3>4. QED
      BY <1>1, <3>1, <3>3, Intervals
  <2>4. QED
    BY <2>2, <2>3
<1>4. QED
  BY <1>2, <1>3

LEMMA CountInit == Init => CountInv
  BY DEF Init, CountInv, Tickers

LEMMA CountSetup ==
    TypeOK /\ TypeOK' /\ CountInv /\ (Parses \/ Exchanges \/ Starts) => CountInv'
<1> SUFFICES ASSUME TypeOK, TypeOK', CountInv, Parses \/ Exchanges \/ Starts PROVE CountInv'
  OBVIOUS
<1>1. /\ phase \in {"start", "params", "ready"} /\ UNCHANGED <<now, slot, cnt, results, done>>
      /\ phase' \in {"params", "ready", "running", "failed", "panicked", "astray"}
  BY DEF Parses, Exchanges, Starts, setup, testVars
<1>2. slot["stats"] = 0 /\ cnt = 0 /\ results = 0 /\ ~done /\ now = 0
  BY <1>1 DEF CountInv
<1>3. CASE phase' # "running"
  BY <1>1, <1>2, <1>3 DEF CountInv
<1>4. CASE phase' = "running"
  <2>1. Starts /\ UNCHANGED conf
    <3>1. ~Parses
      BY <1>4 DEF Parses
    <3>2. ~Exchanges
      BY <1>4 DEF Exchanges
    <3>3. Starts
      BY <3>1, <3>2
    <3>4. QED
      BY <3>3 DEF Starts, setup
  <2>2. conf.interval # 0 /\ next'["stats"] = conf.interval
    BY <1>4, <2>1 DEF Starts, Unfit, Period, Tickers
  <2>3. Punctual' => Punctual /\ conf.interval \in Nat /\ Times(conf) \in Nat /\ Times(conf) >= 1
    BY <2>1, Intervals DEF Punctual, Span
  <2>4. Punctual' => Counted'
    <3>1. Pending' = 0 /\ cnt' = 0 /\ conf' = conf
      BY <1>1, <1>2, <2>1 DEF Pending
    <3>2. QED
      BY <2>2, <2>3, <3>1 DEF Counted
  <2>5. QED
    BY <1>1, <1>2, <1>4, <2>1, <2>2, <2>3, <2>4 DEF CountInv
<1>5. QED
  BY <1>3, <1>4

\* A tick that is due finds the slot empty.
LEMMA CountTick == TypeOK /\ TypeOK' /\ CountInv /\ Ticks => CountInv'
<1> SUFFICES ASSUME TypeOK, TypeOK', CountInv, Ticks PROVE CountInv'
  OBVIOUS
<1>1. /\ phase = "running" /\ phase' = "running" /\ now' = now + 1
      /\ UNCHANGED <<conf, cnt, results, done>>
  BY DEF Ticks, setup, testVars
<1>2. CASE ~Punctual
  BY <1>1, <1>2 DEF CountInv, Punctual, Span
<1>3. CASE Punctual
  <2>1. /\ conf.interval \in Nat /\ conf.interval > 0 /\ Span \in Nat /\ now \in Nat /\ cnt \in Nat
        /\ next["stats"] \in Nat /\ slot["stats"] \in Nat /\ Late \in Nat /\ Late < conf.interval
        /\ Times(conf) \in Nat /\ Span' = Span /\ Punctual'
    BY <1>1, <1>3, Intervals, Numbers DEF TypeOK, Tickers, Punctual, Span
  <2>2. /\ next'["stats"] = IF next["stats"] = now + 1 THEN now + 1 + conf.interval ELSE next["stats"]
        /\ slot'["stats"] = IF next["stats"] = now + 1 /\ slot["stats"] = 0 THEN now + 1 ELSE slot["stats"]
        /\ slot["stats"] = 0 \/ now < slot["stats"] + Late
    BY <1>1 DEF Ticks, Prompt, Period, Tickers
  <2>3. /\ results = cnt /\ cnt + 1 <= Times(conf)
        /\ next["stats"] = 0 => slot["stats"] = 0 /\ cnt + 1 = Times(conf)
        /\ done => now >= Span
        /\ next["stats"] # 0 =>
              /\ Counted /\ next["stats"] \in (now + 1)..(now + conf.interval)
              /\ slot["stats"] # 0 => slot["stats"] = next["stats"] - conf.interval
    BY <1>1, <1>3 DEF CountInv
  <2>4. CASE next["stats"] = now + 1
    <3>1. slot["stats"] = 0
      BY <2>1, <2>2, <2>3, <2>4
    <3>2. slot'["stats"] = now + 1 /\ next'["stats"] = now + 1 + conf.interval
      BY <2>2, <2>4, <3>1
    <3>3. now + 1 = (cnt + 1) * conf.interval
      BY <2>1, <2>3, <2>4, <3>1 DEF Counted, Pending
    <3>4. (cnt + 2) * conf.interval = (cnt + 1) * conf.interval + conf.interval
      BY <2>1
    <3>5. Counted'
      <4>1. Pending' = 1 /\ cnt' = cnt /\ conf' = conf /\ cnt + 1 + 1 = cnt + 2
        BY <1>1, <2>1, <3>2 DEF Pending
      <4>2. QED
        BY <3>2, <3>3, <3>4, <4>1 DEF Counted
    <3>6. now' <= slot'["stats"] + Late /\ (done' => now' >= Span)
      BY <1>1, <2>1, <2>3, <3>2
    <3>7. next'["stats"] # 0 /\ next'["stats"] \in (now' + 1)..(now' + conf.interval)
      BY <1>1, <2>1, <3>2
    <3>8. slot'["stats"] = next'["stats"] - conf.interval
      BY <2>1, <3>2
    <3>9. QED
      BY <1>1, <2>1, <2>3, <3>5, <3>6, <3>7, <3>8 DEF CountInv
  <2>5. CASE next["stats"] # now + 1
    <3>1. next'["stats"] = next["stats"] /\ slot'["stats"] = slot["stats"]
      BY <2>2, <2>5
    <3>2. Counted' <=> Counted
      BY <1>1, <3>1 DEF Counted, Pending
    <3>3. slot["stats"] # 0 => now' <= slot["stats"] + Late
      BY <1>1, <2>1, <2>2
    <3>4. next["stats"] # 0 => next["stats"] \in (now' + 1)..(now' + conf.interval)
      BY <1>1, <2>1, <2>3, <2>5
    <3>5. done' => now' >= Span
      BY <1>1, <2>1, <2>3
    <3>6. QED
      BY <1>1, <2>1, <2>3, <3>1, <3>2, <3>3, <3>4, <3>5 DEF CountInv
  <2>6. QED
    BY <2>4, <2>5
<1>4. QED
  BY <1>2, <1>3

\* A tick that is taken stands for a result: the test is not yet done.
LEMMA CountTaken ==
    ASSUME TypeOK, AskedInv, CountInv, StatsTick
    PROVE  CountInv'
<1>1. /\ phase = "running" /\ phase' = "running" /\ slot["stats"] # 0
      /\ UNCHANGED <<conf, now, done>>
  BY DEF StatsTick, Take, setup
<1>2. CASE ~Punctual
  BY <1>1, <1>2 DEF CountInv, Punctual, Span
<1>3. CASE Punctual
  <2>1. /\ conf.interval \in Nat /\ conf.interval > 0 /\ Span \in Nat /\ now \in Nat /\ cnt \in Nat
        /\ next["stats"] \in Nat /\ slot["stats"] \in Nat /\ Late \in Nat /\ Late < conf.interval
        /\ Times(conf) \in Nat /\ MaxTimes(conf) = Times(conf) - 1 /\ Span' = Span /\ Punctual'
    BY <1>1, <1>3, Intervals, Numbers, TicksActedOn DEF TypeOK, Tickers, Punctual, Span
  <2>2. slot'["stats"] = 0 /\ Pending = 1 /\ Pending' = 0
    BY <1>1 DEF StatsTick, Take, Pending, TypeOK, Tickers
  <2>3. /\ results = cnt /\ cnt + 1 <= Times(conf) /\ next["stats"] # 0
        /\ Counted /\ next["stats"] \in (now + 1)..(now + conf.interval)
        /\ slot["stats"] = next["stats"] - conf.interval
        /\ now <= slot["stats"] + Late /\ (done => now >= Span)
    BY <1>1, <1>3 DEF CountInv
  <2>4. CASE cnt >= MaxTimes(conf)
    <3>1. next'["stats"] = 0 /\ UNCHANGED <<cnt, results>>
      BY <2>4 DEF StatsTick, TypeOK, Tickers
    <3>2. cnt + 1 = Times(conf)
      BY <2>1, <2>3, <2>4
    <3>3. QED
      BY <1>1, <2>1, <2>2, <2>3, <3>1, <3>2 DEF CountInv
  <2>5. CASE ~(cnt >= MaxTimes(conf))
    <3>1. cnt' = cnt + 1 /\ next' = next /\ results' = IF done THEN results ELSE results + 1
      BY <2>5 DEF StatsTick
    <3>2. cnt + 2 <= Times(conf)
      BY <2>1, <2>5
    <3>3. ~done
      <4>1. next["stats"] = (cnt + 2) * conf.interval
        BY <2>1, <2>2, <2>3 DEF Counted
      <4>2. conf.interval * (cnt + 2) <= conf.interval * Times(conf)
        BY <2>1, <3>2, TimesMono
      <4>3. next["stats"] <= Span
        BY <1>3, <2>1, <4>1, <4>2, Intervals, TimesNat
      <4>4. now < next["stats"]
        BY <2>1, <2>3
      <4>5. QED
        BY <2>1, <2>3, <4>3, <4>4
    <3>4. Counted'
      <4>1. cnt + 1 + 1 = cnt' + 1 + 0
        BY <2>1, <3>1
      <4>2. QED
        BY <1>1, <2>2, <2>3, <3>1, <4>1 DEF Counted
    <3>5. results' = cnt' /\ cnt' + 1 <= Times(conf)
      BY <2>1, <2>3, <3>1, <3>2, <3>3
    <3>6. QED
      BY <1>1, <2>1, <2>2, <2>3, <3>1, <3>3, <3>4, <3>5 DEF CountInv
  <2>6. QED
    BY <2>4, <2>5
<1>4. QED
  BY <1>2, <1>3

\* The timer, and the last statistics.
LEMMA CountOver ==
    ASSUME TypeOK, CountInv, TimerFires \/ Ends
    PROVE  CountInv'
<1>1. /\ phase = "running" /\ UNCHANGED <<conf, now, next, slot, cnt>>
  BY DEF TimerFires, Ends, setup
<1>2. UNCHANGED <<Span, Pending, Punctual, Counted>>
  BY <1>1 DEF Span, Pending, Punctual, Counted
<1>3. CASE ~Punctual
  BY <1>1, <1>2, <1>3 DEF CountInv, TimerFires, Ends
<1>4. CASE Punctual
  <2>1. Span \in Nat /\ now \in Nat /\ Times(conf) \in Nat /\ cnt \in Nat
    BY <1>4, Intervals DEF TypeOK
  <2>2. CASE TimerFires
    <3>1. now >= Span
      BY <2>1, <2>2, Numbers DEF TimerFires, Due, Span
    <3>2. phase' = "running" /\ results' = results
      BY <1>1, <2>2 DEF TimerFires
    <3>3. QED
      BY <1>1, <1>2, <1>4, <3>1, <3>2 DEF CountInv
  <2>3. CASE Ends
    <3>1. now >= Span
      <4>1. done => now >= Span
        BY <1>1, <1>4 DEF CountInv
      <4>2. Due(FALSE, conf) = Span
        BY <2>1 DEF Due, Span
      <4>3. QED
        BY <2>3, <4>1, <4>2 DEF Ends
    <3>2. cnt + 1 = Times(conf) /\ results = cnt
      BY <1>1, <1>4, <3>1, AllTaken DEF CountInv
    <3>3. phase' = "ended" /\ results' = results + 1
      BY <2>3 DEF Ends
    <3>4. QED
      BY <1>1, <1>2, <3>2, <3>3 DEF CountInv
  <2>4. QED
    BY <2>2, <2>3
<1>5. QED
  BY <1>3, <1>4

LEMMA CountNext ==
    TypeOK /\ TypeOK' /\ AskedInv /\ CountInv /\ [Next]_vars => CountInv'
<1> SUFFICES ASSUME TypeOK, TypeOK', AskedInv, CountInv, [Next]_vars PROVE CountInv'
  OBVIOUS
<1>1. CASE SendStep \/ UNCHANGED vars
  <2>1. UNCHANGED <<phase, conf, now, next, slot["stats"], cnt, results, done>>
    BY <1>1 DEF SendStep, PaceFinds, PaceApplies, SendTick, Writes, Checks, SendApplies, Take,
                vars, setup, testVars, TypeOK, Tickers
  <2>2. UNCHANGED <<Span, Pending, Punctual, Counted>>
    BY <2>1 DEF Span, Pending, Punctual, Counted
  <2>3. QED
    BY <2>1, <2>2 DEF CountInv
<1>2. QED
  BY <1>1, CountSetup, CountTick, CountTaken, CountOver DEF Next, SendStep

\* Every stream has an interval result for each interval of the test, on both
\* sides, as long as the statistics goroutine is less than an interval late.
THEOREM ResultsPerInterval == Spec => []OneResultPerInterval
<1>1. TypeOK /\ AskedInv /\ CountInv => OneResultPerInterval
  <2> SUFFICES ASSUME TypeOK, AskedInv, CountInv, phase = "ended",
                      opt.i <= opt.d * Second, Late < opt.i
               PROVE  results = Times(conf)
    BY DEF OneResultPerInterval
  <2>1. conf.interval = opt.i /\ conf.duration = opt.d
    BY DEF AskedInv, Asked
  <2>2. QED
    BY <2>1 DEF CountInv, Punctual, Span
<1>2. TypeOK /\ TypeOK' /\ AskedInv /\ CountInv /\ [Next]_vars => CountInv'
  BY CountNext
<1>3. QED
  BY ClockTypes, AskedAlways, CountInit, <1>1, <1>2, PTL DEF Spec
=============================================================================
