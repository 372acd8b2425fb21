----------------------------- MODULE MCProxyProcess -----------------------------
(* Small instances of ProxyProcess.                                        *)
EXTENDS ProxyProcess, TLC

CONSTANTS r1, r2, r3, u1

ThreeRestarts == {r1, r2, r3}
OneScan == {u1}

\* Restarts are only compared, never ordered.
Symmetry == Permutations(ThreeRestarts)

\* Once a stale copy was written back nothing more is said of the file.
NotLost == ~lost
==============================================================================
