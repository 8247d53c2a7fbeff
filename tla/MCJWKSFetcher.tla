--------------------------- MODULE MCJWKSFetcher ---------------------------
(* Small instances of JWKSFetcher for TLC.                                 *)
EXTENDS JWKSProperties, JWKSRefinement, TLC

(* Kids and threads are only compared for equality, so their permutations  *)
(* preserve every safety property; the liveness runs do not use this.      *)
Symmetric == Permutations(Kids) \cup Permutations(Threads)
=============================================================================
