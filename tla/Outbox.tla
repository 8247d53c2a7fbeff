------------------------------- MODULE Outbox -------------------------------
(***************************************************************************)
(* The transactional outbox, inventia_spoke_sdk/outbox.py: producers that  *)
(* change business state and enqueue an envelope about it in one           *)
(* transaction, with savepoints, and may fail, or do it all again when     *)
(* they do not learn whether their commit went through.                    *)
(*                                                                         *)
(* The relay that drains the table and the consumer's inbox belong to      *)
(* other repositories; they are what the columns of the table and          *)
(* outbox.py:14-17 make of them.                                           *)
(***************************************************************************)
EXTENDS Naturals, Sequences, FiniteSets

CONSTANTS
    Producers,
    Envelopes,     \* an envelope stands for the change it is about, too
    MaxRows,       \* bound on the numbers drawn for rows
    MaxAttempts,   \* max_attempts
    MaxDepth       \* bound on open savepoints

ASSUME BoundsAssumption == MaxRows \in Nat /\ MaxAttempts \in Nat \ {0} /\ MaxDepth \in Nat

VARIABLES
    frames,    \* each producer's transaction and its savepoints
    changes,   \* committed business state
    outbox,    \* committed rows
    drawn,     \* how many numbers the identity column has drawn
    status, attempts,   \* of each row, which its seq stands for
    sent,      \* what the relay has published
    inbox,     \* envelope_ids the consumer has seen
    effects    \* (history) how often it has acted on an envelope

lifecycle == <<status, attempts>>
consumer  == <<inbox, effects>>
vars      == <<frames, changes, outbox, drawn, lifecycle, sent, consumer>>

Numbers == 1..MaxRows
Row  == [seq : Numbers, envelope_id : Envelopes, envelope : Envelopes]
(* What a transaction or savepoint has changed, and has added to the       *)
(* session; and (history) the rows that were committed when it began.      *)
Frame == [changes : SUBSET Envelopes, rows : SUBSET Row, since : SUBSET Row]

TypeOK ==
    /\ frames \in [Producers -> Seq(Frame)]
    /\ changes \subseteq Envelopes
    /\ outbox \subseteq Row
    /\ drawn \in 0..MaxRows
    /\ status \in [Numbers -> {"pending", "published", "dead"}]
    /\ attempts \in [Numbers -> 0..MaxAttempts]
    /\ sent \subseteq outbox
    /\ inbox \subseteq Envelopes
    /\ effects \in [Envelopes -> Nat]

Init ==
    /\ frames = [p \in Producers |-> <<>>]
    /\ changes = {}
    /\ outbox = {}
    /\ drawn = 0
    /\ status = [n \in Numbers |-> "pending"]
    /\ attempts = [n \in Numbers |-> 0]
    /\ sent = {}
    /\ inbox = {}
    /\ effects = [e \in Envelopes |-> 0]
-----------------------------------------------------------------------------
Top(p) == frames[p][Len(frames[p])]
Outer(p) == SubSeq(frames[p], 1, Len(frames[p]) - 1)
Opened == [changes |-> {}, rows |-> {}, since |-> outbox]
Joined(f, g) == [f EXCEPT !.changes = @ \cup g.changes, !.rows = @ \cup g.rows]

(* What the caller must see to, since enqueue does not: an envelope is of a*)
(* change of this transaction, made in it or in any open savepoint of it   *)
(* (the change that is rolled back takes the envelope along, then), ...    *)
MayEnqueue(p, e) == \E n \in 1..Len(frames[p]) : e \in frames[p][n].changes

(* ... and no change is committed that has no envelope among the rows that *)
(* are committed with it, be it because a savepoint took the row back.     *)
MayCommit(p) == Top(p).changes \subseteq {r.envelope : r \in Top(p).rows}

(* A fault of Number: one more than the rows the producer can see.         *)
NextVisible == Cardinality(outbox) + 1

(* seq, the next number: nobody draws it again, and nothing puts it back.  *)
Number == drawn + 1

(* A fault of NewRow: every row has an envelope_id of its own.             *)
RowOfItsOwn(n, e) == [seq |-> n, envelope_id |-> n, envelope |-> e]

(* The row: its seq is drawn for it, its envelope_id is the caller's.      *)
NewRow(n, e) == [seq |-> n, envelope_id |-> e, envelope |-> e]

(* A transaction, or a savepoint in it.                                    *)
Begin(p) ==
    /\ Len(frames[p]) <= MaxDepth
    /\ frames' = [frames EXCEPT ![p] = Append(@, Opened)]
    /\ UNCHANGED <<changes, outbox, drawn, lifecycle, sent, consumer>>

(* The producer's change of state, with which an envelope is to go.        *)
Change(p, e) ==
    /\ frames[p] # <<>> /\ e \notin Top(p).changes
    /\ frames' = [frames EXCEPT ![p] = Append(Outer(p),
                    [Top(p) EXCEPT !.changes = @ \cup {e}])]
    /\ UNCHANGED <<changes, outbox, drawn, lifecycle, sent, consumer>>

(* A fault of Enqueue: it commits the row.                                 *)
EnqueueNow(p, e) ==
    /\ frames[p] # <<>> /\ MayEnqueue(p, e) /\ drawn < MaxRows
    /\ outbox' = outbox \cup {NewRow(Number, e)}
    /\ drawn' = drawn + 1
    /\ UNCHANGED <<frames, changes, lifecycle, sent, consumer>>

(* enqueue: the row is added to the producer's session, in its innermost   *)
(* savepoint, and no more; wherever the change was made, and however many  *)
(* rows of it there are. The session's flush, which draws the number, is   *)
(* taken with it: nobody sees a row that is not inserted yet, so it may as *)
(* well be enqueued then.                                                  *)
Enqueue(p, e) ==
    /\ frames[p] # <<>> /\ MayEnqueue(p, e) /\ drawn < MaxRows
    /\ frames' = [frames EXCEPT ![p] = Append(Outer(p),
                    [Top(p) EXCEPT !.rows = @ \cup {NewRow(Number, e)}])]
    /\ drawn' = drawn + 1
    /\ UNCHANGED <<changes, outbox, lifecycle, sent, consumer>>

(* A savepoint is released.                                                *)
Release(p) ==
    LET n == Len(frames[p]) IN
    /\ n > 1
    /\ frames' = [frames EXCEPT ![p] =
                    Append(SubSeq(@, 1, n - 2), Joined(@[n - 1], @[n]))]
    /\ UNCHANGED <<changes, outbox, drawn, lifecycle, sent, consumer>>

(* A savepoint is rolled back, and the objects added in it are expunged;   *)
(* or the transaction is, by an exception or a crash.                      *)
Rollback(p) ==
    /\ frames[p] # <<>>
    /\ \/ frames' = [frames EXCEPT ![p] = Outer(p)]
       \/ frames' = [frames EXCEPT ![p] = <<>>]
    /\ UNCHANGED <<changes, outbox, drawn, lifecycle, sent, consumer>>

(* The rows begin their life as the defaults of their columns say.         *)
Commit(p) ==
    /\ Len(frames[p]) = 1 /\ MayCommit(p)
    /\ changes' = changes \cup Top(p).changes
    /\ outbox' = outbox \cup Top(p).rows
    /\ frames' = [frames EXCEPT ![p] = <<>>]
    /\ UNCHANGED <<drawn, lifecycle, sent, consumer>>
-----------------------------------------------------------------------------
(* The relay publishes a pending row; its mark may come later, or never if *)
(* it dies first, and then the row is published again.                     *)
Publish(r) ==
    /\ r \in outbox \ sent /\ status[r.seq] = "pending"
    /\ sent' = sent \cup {r}
    /\ UNCHANGED <<frames, changes, outbox, drawn, lifecycle, consumer>>

Mark(r) ==
    /\ r \in sent /\ status[r.seq] = "pending"
    /\ status' = [status EXCEPT ![r.seq] = "published"]
    /\ UNCHANGED <<frames, changes, outbox, drawn, attempts, sent, consumer>>

(* An attempt fails, or seems to; the last one condemns the row.           *)
Fail(r) ==
    /\ r \in outbox /\ status[r.seq] = "pending"
    /\ attempts' = [attempts EXCEPT ![r.seq] = @ + 1]
    /\ status' = IF attempts'[r.seq] = MaxAttempts
                 THEN [status EXCEPT ![r.seq] = "dead"] ELSE status
    /\ UNCHANGED <<frames, changes, outbox, drawn, sent, consumer>>

(* The consumer gets what was published, any number of times, and acts on  *)
(* envelope_ids it has not seen.                                           *)
Consume(r) ==
    /\ r \in sent /\ r.envelope_id \notin inbox
    /\ inbox' = inbox \cup {r.envelope_id}
    /\ effects' = [effects EXCEPT ![r.envelope] = @ + 1]
    /\ UNCHANGED <<frames, changes, outbox, drawn, lifecycle, sent>>

Next ==
    \/ \E p \in Producers :
          \/ Begin(p) \/ Release(p) \/ Rollback(p) \/ Commit(p)
          \/ \E e \in Envelopes : Change(p, e) \/ Enqueue(p, e)
    \/ \E r \in outbox : Publish(r) \/ Mark(r) \/ Fail(r) \/ Consume(r)

Spec == Init /\ [][Next]_vars
-----------------------------------------------------------------------------
(* outbox.py:6-9, the atomicity of document and message: a change is       *)
(* committed exactly if an envelope about it is, whatever savepoints are   *)
(* rolled back and whoever fails or tries again.                           *)
Atomic ==
    changes = {r.envelope : r \in outbox}

(* outbox.py:16-17: rows may be published twice, and a change that was     *)
(* tried again has two rows, but a consumer that goes by envelope_id acts  *)
(* on each change once, and on none that was not committed.                *)
ActedOnOnce ==
    \A e \in Envelopes : effects[e] <= 1 /\ (effects[e] > 0 => e \in changes)

(* outbox.py:57-63, what the numbers of the rows say of their order, drawn *)
(* at the INSERT and seen at the COMMIT as they are: a row about to be     *)
(* committed has a number no other row has, and a higher one than those    *)
(* that were committed when its transaction began. It may have a lower one *)
(* than a row committed meanwhile.                                         *)
NumberedInOrder ==
    \A p \in Producers : \A n \in 1..Len(frames[p]) : \A r \in frames[p][n].rows :
        /\ \A s \in outbox : s.seq # r.seq
        /\ \A s \in frames[p][n].since : s.seq < r.seq

(* What producers, relay and consumer come to: transactions that overlap,  *)
(* nest, fail and are tried again commit change and message in one step,   *)
(* and a row published again, or a second row of a change, is acted on no  *)
(* more.                                                                   *)
Delivery == INSTANCE OutboxDelivery WITH
    committed <- changes,
    announced <- {r.envelope : r \in outbox},
    acted     <- effects
ImplementsDelivery == Delivery!DSpec

(* The invariant behind them: the change of a row is in the row's frame or *)
(* in one around it, so that no rollback takes the change and leaves the   *)
(* row; and an envelope has been acted on exactly if its id was seen.      *)
FrameInv(s, n) ==
    \A r \in s[n].rows :
        r.envelope_id = r.envelope /\ \E m \in 1..n : r.envelope \in s[m].changes
OInv ==
    /\ TypeOK
    /\ Atomic
    /\ \A r \in outbox : r.envelope_id = r.envelope
    /\ \A p \in Producers : \A n \in 1..Len(frames[p]) : FrameInv(frames[p], n)
    /\ inbox \subseteq changes
    /\ \A e \in Envelopes : effects[e] = IF e \in inbox THEN 1 ELSE 0
=============================================================================
