----------------------------- MODULE MCCertCache -----------------------------
(* Small instances of CertCache for TLC.                                   *)
EXTENDS CertCache, TLC

CONSTANTS p1, p2, p3, h1, h2, h3, h4

ThreeHandlers == {p1, p2, p3}
FourHosts == {h1, h2, h3, h4}

(* Handlers and hosts are interchangeable.                                 *)
CacheSymmetry == Permutations(Handlers) \cup Permutations(Hosts)

=============================================================================
