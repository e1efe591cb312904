------------------------------- MODULE MCAccept -------------------------------
(* The instance of IperfAccept that TLC checks.                               *)
EXTENDS IperfAccept
=============================================================================
