--------------------------- MODULE MCTunnelManager ---------------------------
(* Small instances of TunnelManager.                                        *)
EXTENDS TunnelManager, TLC

CONSTANTS s1, s2

TwoSids == {s1, s2}
Symmetry == Permutations(TwoSids)

OneForwardId == {11}
==============================================================================
