------------------------------ MODULE MCCounters ------------------------------
(* The instance of StreamCounters that TLC checks.                            *)
EXTENDS StreamCounters
=============================================================================
