------------------------------- MODULE MCIperf -------------------------------
EXTENDS IperfSystem
NoFaults == {}
=============================================================================
