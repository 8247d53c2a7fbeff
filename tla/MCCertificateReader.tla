------------------------ MODULE MCCertificateReader ------------------------
(* A small instance of CertificateReader for TLC: two tenants with one     *)
(* company each, the second tenant legacy.                                 *)
EXTENDS CertificateReader, TLC

CONSTANTS tA, tB, coA, coB, x1, x2, x3, k1, k2

MCOwnerOf == (coA :> tA) @@ (coB :> tB)
Symmetric == Permutations(Certs) \cup Permutations(Keys)
=============================================================================
