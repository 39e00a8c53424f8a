--------------------------- MODULE MCConnectivity ---------------------------
EXTENDS Connectivity
CONSTANTS e1, e2
MCInit == Init /\ Quiet
MCSpec == MCInit /\ [][Next]_vars /\ Fairness
=============================================================================
