----------------------------- MODULE KeyCache -----------------------------
(***************************************************************************)
(* What a key cache promises to the callers of                             *)
(* inventia_spoke_sdk/jwks.py, without lock, network, disk or threads: it  *)
(* holds one key set the realm has published (or nothing), moves forward   *)
(* through the publications while it lives, and answers a call from what   *)
(* it holds either because that was confirmed within the TTL or because    *)
(* the realm was consulted, successfully or not, during that very call.    *)
(***************************************************************************)
EXTENDS Naturals, Sequences

CONSTANTS
    Kids, Callers, AllKeys, TTL,
    Lag         \* how long an answer of the realm may wait for its use

VARIABLES
    clock,
    back,       \* what the clock that confirmations are timed by was set back by
    pubs,       \* the realm's publications
    held,       \* the key set held and the publication it is of
    confirmed,  \* when it was learnt by the clock, 0 if it may be of any age
    phase,      \* of each caller, "none" outside a call
    want,       \* the kid it asked for, or AllKeys
    seen,       \* the publication its consulting the realm showed, 0 if it failed
    heard,      \* when that was, 0 unless it is still to be learnt from
    given       \* the keys a served caller was given

kcVars == <<clock, back, pubs, held, confirmed, phase, want, seen, heard, given>>

KCInit ==
    /\ clock = TTL + 1 /\ back = 0
    /\ \E K \in (SUBSET Kids) \ {{}} : pubs = <<[keys |-> K, at |-> 0]>>
    /\ held = [keys |-> {}, ver |-> 0]
    /\ confirmed = 0
    /\ phase = [c \in Callers |-> "none"]
    /\ want = [c \in Callers |-> AllKeys]
    /\ seen = [c \in Callers |-> 0] /\ heard = [c \in Callers |-> 0]
    /\ given = [c \in Callers |-> {}]

(* The keys of publication v, or none of them when the realm answered with *)
(* an empty set.                                                           *)
SetsOf(v) == {{}} \cup IF v = 0 THEN {} ELSE {pubs[v].keys}

Publish ==
    /\ \E K \in (SUBSET Kids) \ {{}} :
          pubs' = Append(pubs, [keys |-> K, at |-> clock])
    /\ UNCHANGED <<clock, back, held, confirmed, phase, want, seen, heard, given>>

(* Time passes, but no answer waits for its use longer than Lag.           *)
Pass ==
    /\ \A c \in Callers : heard[c] # 0 => clock < heard[c] + Lag
    /\ clock' = clock + 1
    /\ UNCHANGED <<back, pubs, held, confirmed, phase, want, seen, heard, given>>

(* The clock that confirmations are timed by is set back.                  *)
SetBack ==
    /\ back' = back + 1
    /\ confirmed' = IF confirmed = 0 THEN 0 ELSE confirmed + 1
    /\ UNCHANGED <<clock, pubs, held, phase, want, seen, heard, given>>

Becomes(c, p) == phase' = [phase EXCEPT ![c] = p]

Ask(c, r) ==
    /\ phase[c] = "none"
    /\ Becomes(c, "asked")
    /\ want' = [want EXCEPT ![c] = r]
    /\ UNCHANGED <<clock, back, pubs, held, confirmed, seen, heard, given>>

(* The caller's own exchange with the realm shows it what is published     *)
(* now, or fails.                                                          *)
Consult(c) ==
    /\ phase[c] = "asked"
    /\ Becomes(c, "consulted")
    /\ \E v \in {0, Len(pubs)} :
          /\ seen' = [seen EXCEPT ![c] = v]
          /\ heard' = [heard EXCEPT ![c] = IF v = 0 THEN 0 ELSE clock]
    /\ UNCHANGED <<clock, back, pubs, held, confirmed, want, given>>

(* What it was shown replaces what is held, and is never older; and the    *)
(* caller has its answer before another one learns.                        *)
Learn(c) ==
    /\ phase[c] = "consulted"
    /\ \A d \in Callers : phase[d] # "learnt"
    /\ seen[c] # 0 /\ seen[c] >= held.ver
    /\ \E K \in SetsOf(seen[c]) : held' = [keys |-> K, ver |-> seen[c]]
    /\ confirmed' = clock
    /\ heard' = [heard EXCEPT ![c] = 0]
    /\ Becomes(c, "learnt")
    /\ UNCHANGED <<clock, back, pubs, want, seen, given>>

(* A fault of Serve: the kid asked for is forgotten in between, and every  *)
(* key held is tried.                                                      *)
ServeAny(c) ==
    /\ phase[c] \in {"asked", "learnt"}
    /\ given' = [given EXCEPT ![c] = held.keys]
    /\ seen' = [seen EXCEPT ![c] = 0]
    /\ Becomes(c, "served")
    /\ UNCHANGED <<clock, back, pubs, held, confirmed, want, heard>>

(* A fault of Refuse: a kid that is not held is refused without asking.    *)
RefuseUnseen(c) ==
    /\ phase[c] \in {"asked", "learnt"} /\ want[c] \notin held.keys \cup {AllKeys}
    /\ seen' = [seen EXCEPT ![c] = 0]
    /\ Becomes(c, "refused")
    /\ UNCHANGED <<clock, back, pubs, held, confirmed, want, heard, given>>

(* A fault of Serve: falling back on what there is renews it.              *)
ServeRenewed(c) ==
    /\ \/ phase[c] = "asked" /\ clock <= confirmed + TTL /\ UNCHANGED confirmed
       \/ phase[c] = "learnt" /\ UNCHANGED confirmed
       \/ phase[c] = "consulted" /\ seen[c] = 0 /\ confirmed' = clock
    /\ want[c] \in held.keys /\ given' = [given EXCEPT ![c] = {want[c]}]
    /\ seen' = [seen EXCEPT ![c] = 0]
    /\ Becomes(c, "served")
    /\ UNCHANGED <<clock, back, pubs, held, want, heard>>

(* A caller is served what was confirmed within the TTL, what it learnt    *)
(* itself, or, its own exchange having failed, what there is.              *)
Serve(c) ==
    /\ \/ phase[c] = "asked" /\ clock <= confirmed + TTL
       \/ phase[c] = "learnt"
       \/ phase[c] = "consulted" /\ seen[c] = 0
    /\ \/ want[c] = AllKeys /\ given' = [given EXCEPT ![c] = held.keys]
       \/ want[c] \in held.keys /\ given' = [given EXCEPT ![c] = {want[c]}]
    /\ seen' = [seen EXCEPT ![c] = 0]
    /\ Becomes(c, "served")
    /\ UNCHANGED <<clock, back, pubs, held, confirmed, want, heard>>

(* It is refused when its exchange failed, or showed the kid missing.      *)
Refuse(c) ==
    /\ \/ phase[c] = "consulted" /\ seen[c] = 0
       \/ phase[c] = "learnt" /\ want[c] \notin held.keys \cup {AllKeys}
    /\ seen' = [seen EXCEPT ![c] = 0]
    /\ Becomes(c, "refused")
    /\ UNCHANGED <<clock, back, pubs, held, confirmed, want, heard, given>>

Leave(c) ==
    /\ phase[c] \in {"served", "refused"}
    /\ Becomes(c, "none")
    /\ want' = [want EXCEPT ![c] = AllKeys]
    /\ given' = [given EXCEPT ![c] = {}]
    /\ UNCHANGED <<clock, back, pubs, held, confirmed, seen, heard>>

(* The process restarts with a key set that was published once, or none.   *)
Forget ==
    /\ \E v \in 0..Len(pubs) : \E K \in SetsOf(v) :
          held' = [keys |-> K, ver |-> v]
    /\ confirmed' = 0
    /\ phase' = [c \in Callers |-> "none"]
    /\ want' = [c \in Callers |-> AllKeys]
    /\ seen' = [c \in Callers |-> 0] /\ heard' = [c \in Callers |-> 0]
    /\ given' = [c \in Callers |-> {}]
    /\ UNCHANGED <<clock, back, pubs>>

KCNext ==
    \/ Publish \/ Pass \/ SetBack \/ Forget
    \/ \E c \in Callers :
          \/ \E r \in Kids \cup {AllKeys} : Ask(c, r)
          \/ Consult(c) \/ Learn(c) \/ Serve(c) \/ Refuse(c) \/ Leave(c)

KCSpec == KCInit /\ [][KCNext]_kcVars
=============================================================================
