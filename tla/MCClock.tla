------------------------------- MODULE MCClock -------------------------------
(* The instance of IperfClock that TLC checks: a second of 12 units, blocks of *)
(* 3 or 4 bits; the options one by one, and those of a rate together.          *)
EXTENDS IperfClock

Plain == [proto |-> "tcp", hasL |-> FALSE, l |-> 0, hasB |-> FALSE, emptyB |-> FALSE, b |-> 0,
          i |-> 12, d |-> 1, R |-> FALSE]
MCOptions ==
    {[Plain EXCEPT !.proto = p] : p \in {"udp", "kcp", "other"}}
    \cup {[Plain EXCEPT !.i = i, !.d = d, !.R = r] :
              i \in {0, 5, 6, 12, 30}, d \in {0, 1, 2}, r \in BOOLEAN}
    \cup {[Plain EXCEPT !.hasB = TRUE, !.b = b, !.R = r] :
              b \in {-1, 0, 4, 5, 13, 40}, r \in BOOLEAN}
    \cup {[Plain EXCEPT !.hasB = TRUE, !.b = 5, !.hasL = TRUE, !.l = l, !.d = d] :
              l \in {0, 3, 4}, d \in {0, 2}}
    \cup {[Plain EXCEPT !.hasB = TRUE, !.emptyB = TRUE, !.proto = p] : p \in {"tcp", "other"}}
    \* Of the numbers that do not fit: a block, an interval, a duration, and a
    \* block of which the bits of a second are 8 modulo Word.
    \cup {[Plain EXCEPT !.hasL = TRUE, !.l = 100001], [Plain EXCEPT !.i = 61], [Plain EXCEPT !.d = 4]}
    \cup {[Plain EXCEPT !.hasB = TRUE, !.b = b, !.hasL = TRUE, !.l = 87382] : b \in {4, 13}}
=============================================================================
