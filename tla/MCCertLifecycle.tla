--------------------------- MODULE MCCertLifecycle ---------------------------
(* Small instances of CertLifecycle.                                       *)
EXTENDS CertLifecycle, TLC

CONSTANTS k1, k2, k3

ThreeCallers == {k1, k2, k3}
==============================================================================
