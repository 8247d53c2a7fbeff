------------------------------ MODULE MCOutbox ------------------------------
(* Small instances of Outbox for TLC.                                      *)
EXTENDS Outbox, TLC

Symmetric == Permutations(Producers) \cup Permutations(Envelopes)
=============================================================================
