--------------------------- MODULE OutboxDelivery ---------------------------
(***************************************************************************)
(* What enqueue (inventia_spoke_sdk/outbox.py:96-136) is for, called in the*)
(* producer's transaction, without rows, numbers, savepoints or attempts:  *)
(* changes of state are committed with the messages about them in one step,*)
(* neither is ever taken back, and each is acted on at most once.          *)
(***************************************************************************)
EXTENDS Naturals

CONSTANTS Envelopes   \* an envelope stands for the change it is about, too

VARIABLES
    committed,   \* changes of state
    announced,   \* changes a message about which is there for the relay
    acted        \* how often the consumer has acted on each

DInit ==
    /\ committed = {}
    /\ announced = {}
    /\ acted = [e \in Envelopes |-> 0]

CommitTogether ==
    /\ \E E \in SUBSET Envelopes :
          /\ committed' = committed \cup E
          /\ announced' = announced \cup E
    /\ UNCHANGED acted

ActOn(e) ==
    /\ e \in announced /\ acted[e] = 0
    /\ acted' = [acted EXCEPT ![e] = 1]
    /\ UNCHANGED <<committed, announced>>

DNext == CommitTogether \/ \E e \in Envelopes : ActOn(e)

DSpec == DInit /\ [][DNext]_<<committed, announced, acted>>
=============================================================================
