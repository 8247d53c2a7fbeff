-------------------------- MODULE JWKSRefinement --------------------------
(***************************************************************************)
(* JWKSFetcher implements KeyCache: what the lock, the GET and the disk    *)
(* file together come to for a caller.                                     *)
(***************************************************************************)
EXTENDS JWKSFetcher

(* The answers that are adopted.                                           *)
Usable == {"ok", "empty"}

(* A thread has asked once it is in get_key, has consulted the realm once  *)
(* its GET has ended, has learnt from it once the cache is replaced, and   *)
(* has been served or refused once the call ends.                          *)
PhaseOf(t) ==
    CASE pc[t] = "idle" -> "none"
      [] pc[t] \in {"waiting", "fetching"} -> "asked"
      [] pc[t] = "answered" -> "consulted"
      [] pc[t] \in {"saving", "writing", "refreshed"} ->
            IF answer[t].kind \in Usable THEN "learnt" ELSE "consulted"
      [] pc[t] = "returned" ->
            IF outcome[t].kind = "keys" THEN "served" ELSE "refused"

SeenBy(t) == IF answer[t].kind \in Usable THEN answer[t].ver ELSE 0

(* Its answer is under way until it is adopted.                            *)
HeardBy(t) ==
    IF pc[t] = "answered" /\ answer[t].kind \in Usable THEN answer[t].at ELSE 0

Abstract == INSTANCE KeyCache WITH
    Callers   <- Threads,
    held      <- [keys |-> keys, ver |-> keysVer],
    confirmed <- fetchedAt,
    phase     <- [t \in Threads |-> PhaseOf(t)],
    seen      <- [t \in Threads |-> SeenBy(t)],
    heard     <- [t \in Threads |-> HeardBy(t)],
    given     <- [t \in Threads |-> outcome[t].keys]

(* Every step of the fetcher is one of the abstract cache's or invisible   *)
(* to its callers.                                                         *)
ImplementsKeyCache == Abstract!KCSpec
=============================================================================
