--------------------------- MODULE MCTunnelServer ---------------------------
(* A small instance of TunnelServer.                                        *)
EXTENDS TunnelServer

CONSTANTS c1, c2, s1, s2

TwoClients == {c1, c2}
TwoSids == {s1, s2}
=============================================================================
