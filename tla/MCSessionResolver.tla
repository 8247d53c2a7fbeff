------------------------- MODULE MCSessionResolver -------------------------
(* Small instances of SessionResolver for TLC.                             *)
EXTENDS SessionResolver, TLC

CONSTANTS pA, pB, pN, tA, tB, c1, c2, c3, c4, db1, db2, db3

(* Two principals with a tenant each and one without.                      *)
MCTenantOf == (pA :> tA) @@ (pB :> tB) @@ (pN :> NoTenant)

(* Two connections of a database that tenants share, the one of tests that *)
(* share one, and the one of a tenant in tests where each has its own.     *)
MCPoolOf == (c1 :> db1) @@ (c2 :> db1) @@ (c3 :> db2) @@ (c4 :> db3)

MCResolvers == { ForAnyone(db1), ForAnyone(db2), PerPrincipal(tB :> db3) }
=============================================================================
