------------------------- MODULE MCMasterDataReads -------------------------
(* Small instances of MasterDataReads for TLC.                             *)
EXTENDS MasterDataReads, TLC

CONSTANTS tA, i1, i2, i3, nature, code, weight, v1, v2, v3

(* A row of a tenant and two of the system's; another tenant has none.     *)
MCTenantOf == (i1 :> tA) @@ (i2 :> System) @@ (i3 :> System)

(* A second version maps one more column, a third the other one instead.   *)
MCMapped == (v1 :> (nature :> {code})) @@ (v2 :> (nature :> {code, weight}))
                @@ (v3 :> (nature :> {weight}))
=============================================================================
