--------------------------- MODULE MCDaemonEntry ---------------------------
(* Small instances of DaemonEntry for TLC.                                      *)
EXTENDS DaemonEntry, TLC

CONSTANTS c1, c2, d1, d2
MCTwoClients == {c1, c2}
MCTwoDaemons == {d1, d2}
=============================================================================
