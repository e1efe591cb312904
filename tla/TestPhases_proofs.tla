--------------------------- MODULE TestPhases_proofs ---------------------------
(* The abstract protocol keeps the two sides in step.                          *)
EXTENDS TestPhases, TLAPS

USE DEF Phase, Start, Params, Create, TestStart, TestRunning, TestEnd, Result,
        Display, Done

\* LockStep with the types is inductive: one case per action.
LEMMA LockStepNext == TypeOK /\ LockStep /\ [Next]_vars => TypeOK' /\ LockStep'
<1> SUFFICES ASSUME TypeOK, LockStep, [Next]_vars PROVE TypeOK' /\ LockStep'
  OBVIOUS
<1> USE DEF TypeOK, LockStep
<1>1. CASE Connect
  BY <1>1 DEF Connect
<1>2. CASE ServerLeads
  BY <1>2 DEF ServerLeads, ClientReady
<1>3. CASE ServerFollows
  BY <1>3 DEF ServerFollows
<1>4. CASE ClientFollows
  BY <1>4 DEF ClientFollows
<1>5. CASE ClientLeads
  BY <1>5 DEF ClientLeads
<1>6. CASE ServerResets
  BY <1>6 DEF ServerResets
<1>7. CASE UNCHANGED vars
  BY <1>7 DEF vars
<1>8. QED
  BY <1>1, <1>2, <1>3, <1>4, <1>5, <1>6, <1>7 DEF Next

\* In a test nothing disturbs, the client is never ahead of the server but by
\* the end of the test and its own end, the only states it leads into, and never
\* behind by more than the states the server sends without waiting for it.
THEOREM InStep == Spec => []LockStep
<1>1. Init => TypeOK /\ LockStep
  BY DEF Init, TypeOK, LockStep
<1>2. QED
  BY <1>1, LockStepNext, PTL DEF Spec
=============================================================================
