---------------------------- MODULE MCSocksServer ----------------------------
(* Small instances of SocksServer.                                         *)
EXTENDS SocksServer, TLC

CONSTANTS c1, c2

TwoConns == {c1, c2}
==============================================================================
