---------------------------- MODULE OutboxProofs ----------------------------
(***************************************************************************)
(* Proofs about the outbox, for any producers, envelopes and bounds:       *)
(* atomicity, the consumer's exactly-once, and what the numbers say.       *)
(*                                                                         *)
(* A step of a producer replaces its frames only. So what is said of       *)
(* frames is said of a sequence s of them, and shown of the sequences the  *)
(* steps make out of it; one lemma lifts that to the whole state.          *)
(***************************************************************************)
EXTENDS Outbox, TLAPS

LEMMA Fields ==
    ASSUME NEW f \in Frame
    PROVE  /\ f.changes \subseteq Envelopes
           /\ f.rows \subseteq Row /\ f.since \subseteq Row
  BY DEF Frame

LEMMA Seqs ==
    ASSUME NEW r \in Row PROVE r.seq \in Nat /\ r.seq \in Numbers
  BY BoundsAssumption DEF Row, Numbers

(* The frames of a producer: what OInv says of each, and nothing in a      *)
(* frame has a number below what was committed when it, or one around it,  *)
(* began.                                                                  *)
Stack(s) ==
    /\ s \in Seq(Frame)
    /\ \A n \in 1..Len(s) :
          /\ FrameInv(s, n)
          /\ \A m \in 1..n : \A x \in s[m].since : \A r \in s[n].rows : x.seq < r.seq

(* Frame f may go on top of s: the changes of its rows are in it or in s.  *)
Fits(s, f) ==
    \A r \in f.rows :
       /\ r.envelope_id = r.envelope
       /\ r.envelope \in f.changes \/ \E m \in 1..Len(s) : r.envelope \in s[m].changes

Below(s, d) == \A n \in 1..Len(s) : \A r \in s[n].rows \cup s[n].since : r.seq <= d

Holds(s, r) == \E n \in 1..Len(s) : r \in s[n].rows

(* The inductive invariant: no number is drawn twice, and a pending row    *)
(* has an attempt left.                                                    *)
IInv ==
    /\ OInv
    /\ \A n \in Numbers : status[n] = "pending" => attempts[n] < MaxAttempts
    /\ \A r \in outbox : r.seq <= drawn
    /\ \A p \in Producers : Stack(frames[p]) /\ Below(frames[p], drawn)
    /\ \A p \in Producers, r, x \in Row :
          Holds(frames[p], r) =>
             /\ x \in outbox => x.seq # r.seq
             /\ \A q \in Producers \ {p} : Holds(frames[q], x) => x.seq # r.seq

LEMMA HeldAreRows ==
    ASSUME NEW s \in Seq(Frame), NEW r, Holds(s, r) PROVE r \in Row
  BY Fields DEF Holds
-----------------------------------------------------------------------------
(* The sequences the steps make.                                           *)
LEMMA Pushed ==
    ASSUME NEW s \in Seq(Frame), NEW f \in Frame
    PROVE  LET t == Append(s, f) IN
           /\ t \in Seq(Frame) /\ Len(t) = Len(s) + 1
           /\ t[Len(s) + 1] = f
           /\ \A n \in 1..Len(s) : t[n] = s[n]
  OBVIOUS

LEMMA Cut ==
    ASSUME NEW s \in Seq(Frame), NEW k \in 0..Len(s)
    PROVE  LET t == SubSeq(s, 1, k) IN
           /\ t \in Seq(Frame) /\ Len(t) = k
           /\ \A n \in 1..k : t[n] = s[n]
  OBVIOUS

LEMMA CutStack ==
    ASSUME NEW s, Stack(s), NEW k \in 0..Len(s), NEW d, Below(s, d)
    PROVE  LET t == SubSeq(s, 1, k) IN
           /\ Stack(t) /\ Below(t, d)
           /\ \A r : Holds(t, r) => Holds(s, r)
  <1> DEFINE t == SubSeq(s, 1, k)
  <1>1. s \in Seq(Frame) BY DEF Stack
  <1>2. t \in Seq(Frame) /\ Len(t) = k /\ \A n \in 1..k : t[n] = s[n] BY <1>1, Cut
  <1>3. Len(s) \in Nat BY <1>1
  <1> HIDE DEF t
  <1>4. Stack(t) /\ Below(t, d)
    <2>1. \A n \in 1..Len(t) : n \in 1..Len(s) /\ \A m \in 1..n : m \in 1..k
      BY <1>2, <1>3
    <2>2. \A n \in 1..Len(t) : FrameInv(t, n)
      BY <2>1, <1>2 DEF Stack, FrameInv
    <2>. QED BY <2>1, <2>2, <1>2 DEF Stack, Below
  <1>5. \A r : Holds(t, r) => Holds(s, r) BY <1>2, <1>3 DEF Holds
  <1>. QED BY <1>4, <1>5 DEF t

(* A frame on top of others: what it must satisfy.                         *)
LEMMA PushedStack ==
    ASSUME NEW s, Stack(s), NEW f \in Frame, Fits(s, f),
           NEW d \in Nat, Below(s, d),
           \A r \in f.rows \cup f.since : r.seq <= d,
           \A x \in f.since : \A r \in f.rows : x.seq < r.seq,
           \A m \in 1..Len(s) : \A x \in s[m].since : \A r \in f.rows : x.seq < r.seq
    PROVE  LET t == Append(s, f) IN
           /\ Stack(t) /\ Below(t, d)
           /\ \A r : Holds(t, r) => Holds(s, r) \/ r \in f.rows
  <1> DEFINE t == Append(s, f)
  <1>1. s \in Seq(Frame) BY DEF Stack
  <1>2. /\ t \in Seq(Frame) /\ Len(t) = Len(s) + 1 /\ t[Len(s) + 1] = f
        /\ \A n \in 1..Len(s) : t[n] = s[n]
    BY <1>1, Pushed
  <1>3. Len(s) \in Nat BY <1>1
  <1> HIDE DEF t
  <1>4. ASSUME NEW n \in 1..Len(t)
        PROVE  /\ FrameInv(t, n)
               /\ \A m \in 1..n : \A x \in t[m].since : \A r \in t[n].rows : x.seq < r.seq
               /\ \A r \in t[n].rows \cup t[n].since : r.seq <= d
    <2>1. CASE n \in 1..Len(s)
      <3>1. \A m \in 1..n : m \in 1..Len(s) BY <2>1, <1>3
      <3>2. FrameInv(t, n) BY <2>1, <3>1, <1>2 DEF Stack, FrameInv
      <3>. QED BY <2>1, <3>1, <3>2, <1>2 DEF Stack, Below
    <2>2. CASE n = Len(s) + 1
      <3>1. t[n] = f BY <2>2, <1>2
      <3>2. \A m \in 1..n : m = n \/ m \in 1..Len(s) BY <2>2, <1>3
      <3>3. n \in 1..n /\ \A m \in 1..Len(s) : m \in 1..n BY <2>2, <1>3
      <3>4. FrameInv(t, n) BY <3>1, <3>3, <1>2 DEF Fits, FrameInv
      <3>. QED BY <3>1, <3>2, <3>4, <1>2
    <2>. QED BY <2>1, <2>2, <1>2, <1>3
  <1>5. Stack(t) /\ Below(t, d) BY <1>2, <1>4 DEF Stack, Below
  <1>6. \A r : Holds(t, r) => Holds(s, r) \/ r \in f.rows
    <2> SUFFICES ASSUME NEW r, NEW n \in 1..Len(t), r \in t[n].rows
                 PROVE  Holds(s, r) \/ r \in f.rows
      BY DEF Holds
    <2>1. n \in 1..Len(s) \/ n = Len(s) + 1 BY <1>2, <1>3
    <2>. QED BY <2>1, <1>2 DEF Holds
  <1>. QED BY <1>5, <1>6 DEF t
-----------------------------------------------------------------------------
(* A step that gives a producer other frames, and draws a number or none,  *)
(* keeps the invariant if the frames are good and hold what they held, or  *)
(* rows of numbers just drawn.                                             *)
LEMMA Lifted ==
    ASSUME IInv, NEW p \in Producers, NEW t, Stack(t), Below(t, drawn'),
           drawn' \in 0..MaxRows, drawn <= drawn',
           \A r : Holds(t, r) => Holds(frames[p], r) \/ (r \in Row /\ r.seq > drawn),
           frames' = [frames EXCEPT ![p] = t],
           UNCHANGED <<changes, outbox, lifecycle, sent, consumer>>
    PROVE  IInv'
  <1>1. /\ frames' \in [Producers -> Seq(Frame)]
        /\ frames'[p] = t
        /\ \A q \in Producers \ {p} : frames'[q] = frames[q]
    BY DEF IInv, OInv, TypeOK, Stack
  <1>2. drawn \in Nat /\ drawn' \in Nat
    BY BoundsAssumption DEF IInv, OInv, TypeOK
  <1>3. outbox' = outbox /\ outbox \subseteq Row BY DEF IInv, OInv, TypeOK
  <1>4. \A q \in Producers : Stack(frames'[q]) /\ Below(frames'[q], drawn')
    <2>. TAKE q \in Producers
    <2>1. CASE q = p BY <2>1, <1>1
    <2>2. CASE q # p
      <3>1. frames'[q] = frames[q] BY <2>2, <1>1
      <3>2. Stack(frames[q]) /\ Below(frames[q], drawn) BY DEF IInv
      <3>3. \A n \in 1..Len(frames[q]) : \A r \in frames[q][n].rows \cup frames[q][n].since :
               r.seq \in Nat /\ r.seq <= drawn
        BY <3>2, Fields, Seqs DEF Stack, Below
      <3>4. Below(frames[q], drawn') BY <3>3, <1>2 DEF Below
      <3>. QED BY <3>1, <3>2, <3>4
    <2>. QED BY <2>1, <2>2
  <1>5. OInv'
    <2>1. TypeOK'
      BY <1>1, <1>3 DEF IInv, OInv, TypeOK, lifecycle, consumer
    <2>2. Atomic' /\ (\A r \in outbox : r.envelope_id = r.envelope)'
      BY DEF IInv, OInv, Atomic
    <2>3. \A q \in Producers : \A n \in 1..Len(frames'[q]) : FrameInv(frames'[q], n)
      BY <1>4 DEF Stack
    <2>. QED BY <2>1, <2>2, <2>3 DEF IInv, OInv, consumer
  <1>6. \A r \in outbox' : r.seq <= drawn'
    BY <1>2, <1>3, Seqs DEF IInv
  <1>7. ASSUME NEW q \in Producers, NEW r \in Row, NEW x \in Row, Holds(frames'[q], r)
        PROVE  /\ x \in outbox => x.seq # r.seq
               /\ \A w \in Producers \ {q} : Holds(frames'[w], x) => x.seq # r.seq
    <2>1. \A w \in Producers, y \in Row :
             Holds(frames'[w], y) => Holds(frames[w], y) \/ (w = p /\ y.seq > drawn)
      BY <1>1
    <2>2. \A w \in Producers, y \in Row : Holds(frames[w], y) => y.seq <= drawn
      BY DEF IInv, Below, Holds
    <2>3. x.seq \in Nat /\ r.seq \in Nat BY Seqs
    <2>4. x \in outbox => x.seq <= drawn BY DEF IInv
    <2>5. x \in outbox => x.seq # r.seq
      <3>1. CASE Holds(frames[q], r) BY <3>1 DEF IInv
      <3>2. CASE r.seq > drawn BY <3>2, <2>3, <2>4, <1>2
      <3>. QED BY <3>1, <3>2, <2>1, <1>7
    <2>6. ASSUME NEW w \in Producers \ {q}, Holds(frames'[w], x) PROVE x.seq # r.seq
      <3>1. CASE Holds(frames[q], r) /\ Holds(frames[w], x) BY <3>1 DEF IInv
      <3>2. CASE r.seq > drawn /\ Holds(frames[w], x) BY <3>2, <2>2, <2>3, <1>2
      <3>3. CASE x.seq > drawn /\ Holds(frames[q], r) BY <3>3, <2>2, <2>3, <1>2
      <3>. QED BY <2>1, <2>6, <1>7, <3>1, <3>2, <3>3
    <2>. QED BY <2>5, <2>6
  <1>. QED BY <1>3, <1>4, <1>5, <1>6, <1>7 DEF IInv, lifecycle

LEMMA LiftedUndrawn ==
    ASSUME IInv, NEW p \in Producers, NEW t, Stack(t), Below(t, drawn),
           \A r : Holds(t, r) => Holds(frames[p], r) \/ (r \in Row /\ r.seq > drawn),
           frames' = [frames EXCEPT ![p] = t],
           UNCHANGED <<changes, outbox, drawn, lifecycle, sent, consumer>>
    PROVE  IInv'
  <1>1. drawn' \in 0..MaxRows /\ drawn <= drawn'
    BY BoundsAssumption DEF IInv, OInv, TypeOK
  <1>2. Below(t, drawn') BY DEF Below
  <1>3. UNCHANGED <<changes, outbox, lifecycle, sent, consumer>> OBVIOUS
  <1>. QED BY <1>1, <1>2, <1>3, Lifted

LEMMA Facts ==
    ASSUME IInv, NEW p \in Producers
    PROVE  /\ frames \in [Producers -> Seq(Frame)]
           /\ Stack(frames[p]) /\ Below(frames[p], drawn)
           /\ Len(frames[p]) \in Nat
           /\ drawn \in 0..MaxRows /\ drawn \in Nat
           /\ outbox \subseteq Row
           /\ frames[p] # <<>> =>
                 /\ Len(frames[p]) \in 1..Len(frames[p])
                 /\ Top(p) \in Frame /\ Fits(Outer(p), Top(p))
  <1>1. /\ frames \in [Producers -> Seq(Frame)] /\ outbox \subseteq Row
        /\ drawn \in 0..MaxRows
    BY DEF IInv, OInv, TypeOK
  <1>2. drawn \in Nat BY <1>1, BoundsAssumption
  <1>3. Stack(frames[p]) /\ Below(frames[p], drawn) BY DEF IInv
  <1>4. frames[p] \in Seq(Frame) /\ Len(frames[p]) \in Nat BY <1>1
  <1>5. ASSUME frames[p] # <<>>
        PROVE  /\ Len(frames[p]) \in 1..Len(frames[p])
               /\ Top(p) \in Frame /\ Fits(Outer(p), Top(p))
    <2> DEFINE n == Len(frames[p])
    <2>1. n \in 1..n /\ n - 1 \in 0..n BY <1>4, <1>5
    <2>2. /\ Len(Outer(p)) = n - 1
          /\ \A m \in 1..(n - 1) : Outer(p)[m] = frames[p][m]
      BY <2>1, <1>4, Cut DEF Outer
    <2>3. FrameInv(frames[p], n) BY <2>1, <1>3 DEF Stack
    <2>4. \A m \in 1..n : m = n \/ m \in 1..(n - 1) BY <2>1
    <2>5. Fits(Outer(p), Top(p)) BY <2>2, <2>3, <2>4 DEF FrameInv, Fits, Top
    <2>. QED BY <2>1, <2>5, <1>3, <1>4 DEF Stack, Top
  <1>. QED BY <1>1, <1>2, <1>3, <1>4, <1>5

(* The frames below a producer's topmost one, with another on top.         *)
LEMMA Retopped ==
    ASSUME IInv, NEW p \in Producers, frames[p] # <<>>, NEW f \in Frame, Fits(Outer(p), f),
           f.since = Top(p).since, drawn' \in Nat, drawn <= drawn',
           \A r \in f.rows : r \in Top(p).rows \/ (r.seq > drawn /\ r.seq <= drawn')
    PROVE  LET t == Append(Outer(p), f) IN
           /\ Stack(t) /\ Below(t, drawn')
           /\ \A r : Holds(t, r) => Holds(frames[p], r) \/ (r \in Row /\ r.seq > drawn)
  <1> DEFINE s == frames[p]
             o == Outer(p)
  <1>1. /\ Stack(s) /\ Below(s, drawn) /\ Len(s) \in Nat /\ Len(s) \in 1..Len(s)
        /\ s \in Seq(Frame) /\ drawn \in Nat /\ Len(s) - 1 \in 0..Len(s) /\ Top(p) = s[Len(s)]
    BY Facts DEF Stack, Top
  <1>2. /\ Stack(o) /\ Below(o, drawn) /\ \A r : Holds(o, r) => Holds(s, r)
        /\ o \in Seq(Frame) /\ Len(o) = Len(s) - 1 /\ Fits(o, f)
        /\ \A m \in 1..Len(o) : m \in 1..Len(s) /\ o[m] = s[m]
    <2>1. Stack(o) /\ Below(o, drawn) /\ \A r : Holds(o, r) => Holds(s, r)
      BY <1>1, CutStack DEF Outer
    <2>. QED BY <2>1, <1>1, Cut DEF Outer
  <1> HIDE DEF o
  <1>3. Below(o, drawn')
    <2>1. \A n \in 1..Len(o) : \A r \in o[n].rows \cup o[n].since :
             r.seq \in Nat /\ r.seq <= drawn
      BY <1>2, Fields, Seqs DEF Below
    <2>. QED BY <2>1, <1>1 DEF Below
  <1>4. \A r \in f.rows \cup f.since : r.seq \in Nat
    BY Fields, Seqs
  <1>5. \A r \in Top(p).rows \cup Top(p).since : r.seq \in Nat /\ r.seq <= drawn
    BY <1>1, Fields, Seqs, Facts DEF Below
  <1>6. \A r \in f.rows \cup f.since : r.seq <= drawn'
    BY <1>4, <1>5, <1>1
  <1>7. \A m \in 1..Len(s) : \A x \in s[m].since : \A r \in f.rows : x.seq < r.seq
    <2> SUFFICES ASSUME NEW m \in 1..Len(s), NEW x \in s[m].since, NEW r \in f.rows
                 PROVE  x.seq < r.seq
      OBVIOUS
    <2>1. x.seq \in Nat /\ x.seq <= drawn BY <1>1, Fields, Seqs DEF Below
    <2>2. CASE r \in Top(p).rows BY <2>2, <1>1 DEF Stack
    <2>3. CASE r.seq > drawn BY <2>1, <2>3, <1>4, <1>1
    <2>. QED BY <2>2, <2>3
  <1>8. /\ \A x \in f.since : \A r \in f.rows : x.seq < r.seq
        /\ \A m \in 1..Len(o) : \A x \in o[m].since : \A r \in f.rows : x.seq < r.seq
    BY <1>1, <1>2, <1>7
  <1>9. /\ Stack(Append(o, f)) /\ Below(Append(o, f), drawn')
        /\ \A r : Holds(Append(o, f), r) => Holds(o, r) \/ r \in f.rows
    BY <1>2, <1>3, <1>6, <1>8, PushedStack
  <1>10. \A r \in f.rows : Holds(s, r) \/ (r \in Row /\ r.seq > drawn)
    BY <1>1, Fields DEF Holds
  <1>. QED BY <1>2, <1>9, <1>10 DEF o
-----------------------------------------------------------------------------
(* The producers' steps.                                                   *)
LEMMA BeginKeeps ==
    ASSUME IInv, NEW p \in Producers, Begin(p) PROVE IInv'
  <1> DEFINE t == Append(frames[p], Opened)
  <1>1. Stack(frames[p]) /\ Below(frames[p], drawn) /\ drawn \in Nat /\ drawn \in 0..MaxRows
    BY Facts
  <1>2. Opened \in Frame /\ Fits(frames[p], Opened)
    BY Facts DEF Opened, Frame, Fits
  <1>3. \A x \in Opened.since : x.seq <= drawn
    BY DEF Opened, IInv
  <1>4. Opened.rows = {}
    BY DEF Opened
  <1>5. Stack(t) /\ Below(t, drawn) /\ \A r : Holds(t, r) => Holds(frames[p], r)
    BY <1>1, <1>2, <1>3, <1>4, PushedStack
  <1>6. /\ frames' = [frames EXCEPT ![p] = t]
        /\ UNCHANGED <<changes, outbox, drawn, lifecycle, sent, consumer>>
    BY DEF Begin
  <1>. QED
    <2> HIDE DEF t
    <2>. QED BY <1>5, <1>6, LiftedUndrawn

LEMMA ChangeKeeps ==
    ASSUME IInv, NEW p \in Producers, NEW e \in Envelopes, Change(p, e) PROVE IInv'
  <1> DEFINE f == [Top(p) EXCEPT !.changes = @ \cup {e}]
             t == Append(Outer(p), f)
  <1>1. /\ frames[p] # <<>> /\ Top(p) \in Frame /\ Fits(Outer(p), Top(p)) /\ drawn \in Nat
        /\ drawn \in 0..MaxRows
    BY Facts DEF Change
  <1>2. f \in Frame /\ Fits(Outer(p), f) /\ f.rows = Top(p).rows /\ f.since = Top(p).since
    BY <1>1 DEF Frame, Fits
  <1>3. /\ frames' = [frames EXCEPT ![p] = t]
        /\ UNCHANGED <<changes, outbox, drawn, lifecycle, sent, consumer>>
    BY DEF Change
  <1> HIDE DEF f
  <1>4. /\ Stack(t) /\ Below(t, drawn')
        /\ \A r : Holds(t, r) => Holds(frames[p], r) \/ (r \in Row /\ r.seq > drawn)
    BY <1>1, <1>2, <1>3, Retopped
  <1>5. Below(t, drawn) BY <1>3, <1>4
  <1>. QED
    <2> HIDE DEF t
    <2>. QED BY <1>3, <1>4, <1>5, LiftedUndrawn

LEMMA EnqueueKeeps ==
    ASSUME IInv, NEW p \in Producers, NEW e \in Envelopes, Enqueue(p, e) PROVE IInv'
  <1> DEFINE row == NewRow(Number, e)
             f == [Top(p) EXCEPT !.rows = @ \cup {row}]
             t == Append(Outer(p), f)
  <1>1. /\ frames[p] # <<>> /\ Top(p) \in Frame /\ Fits(Outer(p), Top(p)) /\ drawn \in Nat
        /\ drawn \in 0..MaxRows /\ drawn < MaxRows /\ MayEnqueue(p, e)
    BY Facts DEF Enqueue
  <1>2. /\ row \in Row /\ row.envelope = e /\ row.envelope_id = e
        /\ row.seq = drawn + 1
    BY <1>1, BoundsAssumption DEF Row, Numbers, NewRow, Number
  <1>3. /\ frames' = [frames EXCEPT ![p] = t] /\ drawn' = drawn + 1
        /\ UNCHANGED <<changes, outbox, lifecycle, sent, consumer>>
    BY DEF Enqueue
  <1> HIDE DEF row
  <1>4. f \in Frame /\ f.rows = Top(p).rows \cup {row} /\ f.since = Top(p).since
    BY <1>1, <1>2 DEF Frame
  <1>5. f.changes = Top(p).changes
    BY <1>1 DEF Frame
  <1>6. Fits(Outer(p), f)
    <2> DEFINE n == Len(frames[p])
    <2>1. n \in Nat /\ n - 1 \in 0..n /\ frames[p] \in Seq(Frame)
      BY <1>1, Facts
    <2>2. /\ Len(Outer(p)) = n - 1
          /\ \A m \in 1..(n - 1) : Outer(p)[m] = frames[p][m]
      BY <2>1, Cut DEF Outer
    <2>3. \A m \in 1..n : m = n \/ m \in 1..(n - 1) BY <2>1
    <2>4. e \in Top(p).changes \/ \E m \in 1..Len(Outer(p)) : e \in Outer(p)[m].changes
      BY <1>1, <2>2, <2>3 DEF MayEnqueue, Top
    <2>. QED BY <1>1, <1>2, <1>4, <1>5, <2>4 DEF Fits
  <1> HIDE DEF f
  <1>7. \A r \in f.rows : r \in Top(p).rows \/ (r.seq > drawn /\ r.seq <= drawn')
    BY <1>1, <1>2, <1>3, <1>4
  <1>8. /\ Stack(t) /\ Below(t, drawn')
        /\ \A r : Holds(t, r) => Holds(frames[p], r) \/ (r \in Row /\ r.seq > drawn)
    BY <1>1, <1>3, <1>4, <1>6, <1>7, Retopped
  <1>9. drawn' \in 0..MaxRows /\ drawn <= drawn' BY <1>1, <1>3, BoundsAssumption
  <1>. QED
    <2> HIDE DEF t
    <2>. QED BY <1>3, <1>8, <1>9, Lifted

LEMMA ReleaseKeeps ==
    ASSUME IInv, NEW p \in Producers, Release(p) PROVE IInv'
  <1> DEFINE s == frames[p]
             n == Len(s)
             o == SubSeq(s, 1, n - 2)
             f == Joined(s[n - 1], s[n])
             t == Append(o, f)
  <1>1. /\ Stack(s) /\ Below(s, drawn) /\ n \in Nat /\ n > 1 /\ s \in Seq(Frame)
        /\ drawn \in Nat /\ drawn \in 0..MaxRows /\ n - 2 \in 0..n
        /\ n \in 1..n /\ n - 1 \in 1..n
    BY Facts DEF Release, Stack
  <1>2. /\ frames' = [frames EXCEPT ![p] = t]
        /\ UNCHANGED <<changes, outbox, drawn, lifecycle, sent, consumer>>
    BY DEF Release
  <1>3. /\ Stack(o) /\ Below(o, drawn) /\ \A r : Holds(o, r) => Holds(s, r)
    BY <1>1, CutStack
  <1>4. o \in Seq(Frame) /\ Len(o) = n - 2 /\ \A m \in 1..(n - 2) : o[m] = s[m]
    BY <1>1, Cut
  <1> DEFINE a == s[n - 1]
             b == s[n]
  <1>5. a \in Frame /\ b \in Frame /\ FrameInv(s, n - 1) /\ FrameInv(s, n)
    BY <1>1 DEF Stack
  <1>6. /\ f \in Frame /\ f.rows = a.rows \cup b.rows /\ f.since = a.since
        /\ f.changes = a.changes \cup b.changes
    BY <1>5 DEF Frame, Joined
  <1>7. Fits(o, f)
    <2>1. \A m \in 1..n : m = n \/ m = n - 1 \/ m \in 1..(n - 2) BY <1>1
    <2>2. \A m \in 1..(n - 1) : m = n - 1 \/ m \in 1..(n - 2) BY <1>1
    <2>3. \A m \in 1..(n - 2) : o[m].changes = s[m].changes BY <1>4
    <2>4. ASSUME NEW r \in a.rows
          PROVE  /\ r.envelope_id = r.envelope
                 /\ r.envelope \in f.changes \/ \E m \in 1..Len(o) : r.envelope \in o[m].changes
      BY <1>4, <1>5, <1>6, <2>2, <2>3 DEF FrameInv
    <2>5. ASSUME NEW r \in b.rows
          PROVE  /\ r.envelope_id = r.envelope
                 /\ r.envelope \in f.changes \/ \E m \in 1..Len(o) : r.envelope \in o[m].changes
      BY <1>4, <1>5, <1>6, <2>1, <2>3 DEF FrameInv
    <2>. QED BY <1>6, <2>4, <2>5 DEF Fits
  <1>8. \A r \in f.rows \cup f.since : r.seq <= drawn
    BY <1>1, <1>6 DEF Below
  <1>9. \A m \in 1..(n - 1) : \A x \in s[m].since : \A r \in f.rows : x.seq < r.seq
    <2>. TAKE m \in 1..(n - 1)
    <2>1. m \in 1..n /\ m \in 1..(n - 1) BY <1>1
    <2>. QED BY <2>1, <1>1, <1>6 DEF Stack
  <1>10. \A x \in f.since : \A r \in f.rows : x.seq < r.seq
    BY <1>1, <1>6, <1>9
  <1>11. \A m \in 1..Len(o) : \A x \in o[m].since : \A r \in f.rows : x.seq < r.seq
    BY <1>1, <1>4, <1>9
  <1>12. \A r \in f.rows : Holds(s, r)
    BY <1>1, <1>6 DEF Holds
  <1> HIDE DEF f, o
  <1>13. /\ Stack(t) /\ Below(t, drawn)
         /\ \A r : Holds(t, r) => Holds(o, r) \/ r \in f.rows
    BY <1>1, <1>3, <1>6, <1>7, <1>8, <1>10, <1>11, PushedStack
  <1> HIDE DEF t, s
  <1>14. \A r : Holds(t, r) => Holds(s, r)
    BY <1>3, <1>12, <1>13
  <1>. QED BY <1>2, <1>13, <1>14, LiftedUndrawn DEF s

LEMMA RollbackKeeps ==
    ASSUME IInv, NEW p \in Producers, Rollback(p) PROVE IInv'
  <1>1. /\ Stack(frames[p]) /\ Below(frames[p], drawn) /\ frames[p] # <<>>
        /\ Len(frames[p]) \in 1..Len(frames[p]) /\ Len(frames[p]) - 1 \in 0..Len(frames[p])
        /\ drawn \in Nat /\ drawn \in 0..MaxRows
    BY Facts DEF Rollback
  <1>2. UNCHANGED <<changes, outbox, drawn, lifecycle, sent, consumer>>
    BY DEF Rollback
  <1>3. CASE frames' = [frames EXCEPT ![p] = Outer(p)]
    <2>1. /\ Stack(Outer(p)) /\ Below(Outer(p), drawn)
          /\ \A r : Holds(Outer(p), r) => Holds(frames[p], r)
      BY <1>1, CutStack DEF Outer
    <2>. QED BY <1>2, <1>3, <2>1, LiftedUndrawn
  <1>4. CASE frames' = [frames EXCEPT ![p] = <<>>]
    <2>1. /\ Stack(<<>>) /\ Below(<<>>, drawn)
          /\ \A r : Holds(<<>>, r) => Holds(frames[p], r)
      BY DEF Stack, Below, Holds
    <2>. QED BY <1>2, <1>4, <2>1, LiftedUndrawn
  <1>. QED BY <1>3, <1>4 DEF Rollback

(* A transaction that may commit has envelopes of just what it changed.    *)
LEMMA Matched ==
    ASSUME IInv, NEW p \in Producers, Len(frames[p]) = 1, MayCommit(p)
    PROVE  /\ Top(p) \in Frame /\ Top(p) = frames[p][1]
           /\ Top(p).changes = {r.envelope : r \in Top(p).rows}
           /\ \A r \in Top(p).rows : r.envelope_id = r.envelope
  <1>1. Stack(frames[p]) /\ 1 \in 1..1 /\ \A m \in 1..1 : m = 1 BY Facts
  <1>2. FrameInv(frames[p], 1) /\ frames[p][1] \in Frame BY <1>1 DEF Stack
  <1>3. Top(p) = frames[p][1] BY DEF Top
  <1>. QED BY <1>1, <1>2, <1>3 DEF FrameInv, MayCommit

LEMMA CommitKeeps ==
    ASSUME IInv, NEW p \in Producers, Commit(p) PROVE IInv'
  <1> DEFINE f == Top(p)
  <1>1. /\ f \in Frame /\ f = frames[p][1] /\ 1 \in 1..Len(frames[p])
        /\ Len(frames[p]) = 1 /\ drawn \in Nat
        /\ f.changes = {r.envelope : r \in f.rows}
        /\ \A r \in f.rows : r.envelope_id = r.envelope
        /\ frames \in [Producers -> Seq(Frame)] /\ outbox \subseteq Row
    BY Facts, Matched DEF Commit
  <1>2. /\ changes' = changes \cup f.changes /\ outbox' = outbox \cup f.rows
        /\ frames' = [frames EXCEPT ![p] = <<>>]
        /\ UNCHANGED <<drawn, status, attempts, sent, inbox, effects>>
    BY DEF Commit, lifecycle, consumer
  <1> HIDE DEF f
  <1>3. /\ frames' \in [Producers -> Seq(Frame)]
        /\ frames'[p] = <<>>
        /\ \A q \in Producers \ {p} : frames'[q] = frames[q]
    BY <1>1, <1>2
  <1>4. TypeOK'
    BY <1>1, <1>2, <1>3, Fields DEF IInv, OInv, TypeOK
  <1>5. Atomic'
    BY <1>1, <1>2 DEF IInv, OInv, Atomic
  <1>6. \A r \in outbox' : r.envelope_id = r.envelope
    BY <1>1, <1>2 DEF IInv, OInv
  <1>7. \A q \in Producers : Stack(frames'[q]) /\ Below(frames'[q], drawn')
    <2>. TAKE q \in Producers
    <2>1. CASE q = p BY <2>1, <1>3 DEF Stack, Below
    <2>2. CASE q # p BY <2>2, <1>2, <1>3 DEF IInv
    <2>. QED BY <2>1, <2>2
  <1>8. \A q \in Producers : \A n \in 1..Len(frames'[q]) : FrameInv(frames'[q], n)
    BY <1>7 DEF Stack
  <1>9. /\ inbox' \subseteq changes'
        /\ \A e \in Envelopes : effects'[e] = IF e \in inbox' THEN 1 ELSE 0
    BY <1>2 DEF IInv, OInv
  <1>10. \A r \in outbox' : r.seq <= drawn'
    BY <1>1, <1>2 DEF IInv, Below
  <1>11. \A r : Holds(frames[p], r) <=> r \in f.rows
    BY <1>1 DEF Holds
  <1>12. ASSUME NEW q \in Producers, NEW r \in Row, NEW x \in Row, Holds(frames'[q], r)
         PROVE  /\ x \in outbox' => x.seq # r.seq
                /\ \A w \in Producers \ {q} : Holds(frames'[w], x) => x.seq # r.seq
    <2>1. q # p BY <1>3, <1>12 DEF Holds
    <2>2. Holds(frames[q], r) BY <1>3, <1>12, <2>1
    <2>3. x \in f.rows => x.seq # r.seq
      BY <2>1, <2>2, <1>11 DEF IInv
    <2>4. x \in outbox' => x.seq # r.seq
      BY <2>2, <2>3, <1>2 DEF IInv
    <2>5. \A w \in Producers \ {q} : Holds(frames'[w], x) => x.seq # r.seq
      <3> SUFFICES ASSUME NEW w \in Producers \ {q}, Holds(frames'[w], x)
                   PROVE  x.seq # r.seq
        OBVIOUS
      <3>1. w # p BY <1>3 DEF Holds
      <3>2. Holds(frames[w], x) BY <1>3, <3>1
      <3>. QED BY <2>2, <3>2 DEF IInv
    <2>. QED BY <2>4, <2>5
  <1>. QED BY <1>4, <1>5, <1>6, <1>7, <1>8, <1>9, <1>2, <1>10, <1>12 DEF IInv, OInv
-----------------------------------------------------------------------------
(* The steps of the relay and the consumer leave producers and table alone.*)
LEMMA RelayKeeps ==
    ASSUME IInv, NEW r \in outbox, Publish(r) \/ Mark(r) \/ Fail(r) \/ Consume(r)
    PROVE  IInv'
  <1>1. /\ UNCHANGED <<frames, changes, outbox, drawn>>
    BY DEF Publish, Mark, Fail, Consume
  <1>2. /\ r \in Row /\ r.seq \in Numbers /\ r.envelope \in Envelopes
        /\ r.envelope_id = r.envelope /\ r.envelope \in changes
    BY Seqs DEF IInv, OInv, TypeOK, Atomic, Row
  <1>3. TypeOK'
    <2>1. CASE Publish(r)
      BY <2>1, <1>1 DEF IInv, OInv, TypeOK, Publish, lifecycle, consumer
    <2>2. CASE Mark(r)
      BY <2>2, <1>1 DEF IInv, OInv, TypeOK, Mark, consumer
    <2>3. CASE Fail(r)
      <3>1. attempts[r.seq] \in 0..MaxAttempts /\ attempts[r.seq] + 1 \in 0..MaxAttempts
        BY <2>3, <1>2, BoundsAssumption DEF IInv, OInv, TypeOK, Fail
      <3>. QED BY <2>3, <3>1, <1>1 DEF IInv, OInv, TypeOK, Fail, consumer
    <2>4. CASE Consume(r)
      <3>1. effects' \in [Envelopes -> Nat]
        BY <2>4, <1>2 DEF IInv, OInv, TypeOK, Consume
      <3>2. inbox' \subseteq Envelopes
        BY <2>4, <1>2 DEF IInv, OInv, TypeOK, Consume
      <3>. QED BY <2>4, <3>1, <3>2, <1>1 DEF IInv, OInv, TypeOK, Consume, lifecycle
    <2>. QED BY <2>1, <2>2, <2>3, <2>4
  <1>4. /\ inbox' \subseteq changes'
        /\ \A e \in Envelopes : effects'[e] = IF e \in inbox' THEN 1 ELSE 0
    <2>1. CASE UNCHANGED consumer
      BY <2>1, <1>1 DEF consumer, IInv, OInv
    <2>2. CASE Consume(r)
      BY <2>2, <1>1, <1>2 DEF IInv, OInv, TypeOK, Consume
    <2>. QED BY <2>1, <2>2 DEF Publish, Mark, Fail
  <1>5. OInv'
    BY <1>1, <1>3, <1>4 DEF IInv, OInv, Atomic
  <1>6. \A n \in Numbers : status'[n] = "pending" => attempts'[n] < MaxAttempts
    <2>1. CASE UNCHANGED lifecycle BY <2>1 DEF lifecycle, IInv
    <2>2. CASE Mark(r) BY <2>2, <1>2 DEF Mark, IInv, OInv, TypeOK
    <2>3. CASE Fail(r)
      <3>1. attempts[r.seq] \in 0..MaxAttempts /\ attempts[r.seq] < MaxAttempts
        BY <2>3, <1>2 DEF IInv, OInv, TypeOK, Fail
      <3>2. \A n \in Numbers \ {r.seq} : attempts'[n] = attempts[n] /\ status'[n] = status[n]
        BY <2>3, <1>2 DEF Fail, IInv, OInv, TypeOK
      <3>3. /\ attempts'[r.seq] = attempts[r.seq] + 1
            /\ attempts'[r.seq] = MaxAttempts => status'[r.seq] = "dead"
        BY <2>3, <1>2 DEF Fail, IInv, OInv, TypeOK
      <3>. QED BY <3>1, <3>2, <3>3, BoundsAssumption DEF IInv
    <2>. QED BY <2>1, <2>2, <2>3 DEF Publish, Consume
  <1>. QED BY <1>1, <1>5, <1>6 DEF IInv
-----------------------------------------------------------------------------
LEMMA InitIInv == Init => IInv
  <1> SUFFICES ASSUME Init PROVE IInv OBVIOUS
  <1>1. TypeOK BY BoundsAssumption DEF Init, TypeOK
  <1>2. \A p \in Producers : frames[p] = <<>> BY DEF Init
  <1>3. \A p \in Producers : Stack(frames[p]) /\ Below(frames[p], drawn)
    <2>1. Stack(<<>>) /\ Below(<<>>, drawn) BY DEF Stack, Below
    <2>. QED BY <1>2, <2>1
  <1>4. \A p \in Producers : \A r : ~ Holds(frames[p], r)
    BY <1>2 DEF Holds
  <1>5. OInv BY <1>1, <1>3 DEF OInv, Atomic, Init, Stack
  <1>. QED BY <1>3, <1>4, <1>5, BoundsAssumption DEF IInv, Init

LEMMA StepIInv == IInv /\ [Next]_vars => IInv'
  <1> SUFFICES ASSUME IInv, [Next]_vars PROVE IInv' OBVIOUS
  <1>1. CASE UNCHANGED vars
    BY <1>1 DEF vars, lifecycle, consumer, IInv, OInv, TypeOK, Atomic
  <1>2. ASSUME NEW p \in Producers, Begin(p) PROVE IInv' BY <1>2, BeginKeeps
  <1>3. ASSUME NEW p \in Producers, Release(p) PROVE IInv' BY <1>3, ReleaseKeeps
  <1>4. ASSUME NEW p \in Producers, Rollback(p) PROVE IInv' BY <1>4, RollbackKeeps
  <1>5. ASSUME NEW p \in Producers, Commit(p) PROVE IInv' BY <1>5, CommitKeeps
  <1>6. ASSUME NEW p \in Producers, NEW e \in Envelopes, Change(p, e) PROVE IInv'
    BY <1>6, ChangeKeeps
  <1>7. ASSUME NEW p \in Producers, NEW e \in Envelopes, Enqueue(p, e) PROVE IInv'
    BY <1>7, EnqueueKeeps
  <1>8. ASSUME NEW r \in outbox, Publish(r) \/ Mark(r) \/ Fail(r) \/ Consume(r) PROVE IInv'
    BY <1>8, RelayKeeps
  <1>. QED BY <1>1, <1>2, <1>3, <1>4, <1>5, <1>6, <1>7, <1>8 DEF Next

THEOREM Invariance == Spec => []IInv
  BY InitIInv, StepIInv, PTL DEF Spec

(* outbox.py:6-9: a document's change and its message are committed        *)
(* together or not at all, whatever savepoints are rolled back, whichever  *)
(* producer fails, and however often it tries again; and what a consumer   *)
(* has seen was committed.                                                 *)
THEOREM OutboxInvariance == Spec => []OInv
  <1>1. IInv => OInv BY DEF IInv
  <1>. QED BY Invariance, <1>1, PTL

(* outbox.py:16-17: though rows are published any number of times and a    *)
(* change may have several, a consumer acts on each change at most once,   *)
(* and on none that was not committed.                                     *)
THEOREM OncePerChange == Spec => []ActedOnOnce
  <1>1. IInv => ActedOnOnce BY DEF IInv, OInv, ActedOnOnce
  <1>. QED BY Invariance, <1>1, PTL

(* outbox.py:57-63: a row about to be committed has a number that no       *)
(* committed row has, above those committed when its transaction began.    *)
THEOREM NumbersFollowCommits == Spec => []NumberedInOrder
  <1>1. IInv => NumberedInOrder
    <2> SUFFICES ASSUME IInv, NEW p \in Producers, NEW n \in 1..Len(frames[p]),
                        NEW r \in frames[p][n].rows
                 PROVE  /\ \A s \in outbox : s.seq # r.seq
                        /\ \A s \in frames[p][n].since : s.seq < r.seq
      BY DEF NumberedInOrder
    <2>1. Holds(frames[p], r) BY DEF Holds
    <2>2. Stack(frames[p]) /\ outbox \subseteq Row /\ n \in 1..n BY Facts DEF Stack
    <2>3. r \in Row BY <2>1, <2>2, HeldAreRows DEF Stack
    <2>. QED BY <2>1, <2>2, <2>3 DEF IInv, Stack
  <1>. QED BY Invariance, <1>1, PTL
-----------------------------------------------------------------------------
(* What is announced: the envelopes of the committed rows.                 *)
Announced == {r.envelope : r \in outbox}

(* A commit commits changes and announces the very same ones.              *)
LEMMA CommitDelivers ==
    ASSUME IInv, NEW p \in Producers, Commit(p)
    PROVE  Delivery!CommitTogether
  <1> DEFINE f == Top(p)
  <1>1. /\ f \in Frame /\ f.changes \subseteq Envelopes
        /\ {r.envelope : r \in f.rows} = f.changes
        /\ changes' = changes \cup f.changes /\ outbox' = outbox \cup f.rows
        /\ UNCHANGED effects
    <2>1. f \in Frame /\ {r.envelope : r \in f.rows} = f.changes BY Matched DEF Commit
    <2>. QED BY <2>1, Fields DEF Commit, consumer
  <1> HIDE DEF f
  <1>2. Announced' = Announced \cup f.changes
    BY <1>1 DEF Announced
  <1>. QED BY <1>1, <1>2 DEF Delivery!CommitTogether, Announced

(* A consumer that has not seen the envelope_id has not acted on the       *)
(* change, and what it was sent is committed.                              *)
LEMMA ConsumeActs ==
    ASSUME IInv, NEW r \in outbox, Consume(r)
    PROVE  \E e \in Envelopes : Delivery!ActOn(e)
  <1>1. /\ r.envelope \in Envelopes /\ r.envelope \in Announced
        /\ r.envelope_id = r.envelope
    BY DEF IInv, OInv, TypeOK, Row, Announced
  <1>2. effects[r.envelope] = 0 /\ effects[r.envelope] + 1 = 1
    BY <1>1 DEF Consume, IInv, OInv
  <1>3. /\ effects' = [effects EXCEPT ![r.envelope] = 1]
        /\ UNCHANGED <<changes, Announced>>
    BY <1>2 DEF Consume, Announced
  <1>. QED BY <1>1, <1>2, <1>3 DEF Delivery!ActOn, Announced

(* Nothing else is noticed by those who only see what is committed.        *)
LEMMA StepDelivers ==
    IInv /\ [Next]_vars => [Delivery!DNext]_<<changes, Announced, effects>>
  <1> SUFFICES ASSUME IInv, [Next]_vars
               PROVE  Delivery!DNext \/ UNCHANGED <<changes, Announced, effects>>
    OBVIOUS
  <1>1. ASSUME NEW p \in Producers,
               \/ Begin(p) \/ Release(p) \/ Rollback(p)
               \/ \E e \in Envelopes : Change(p, e) \/ Enqueue(p, e)
        PROVE  UNCHANGED <<changes, Announced, effects>>
    BY <1>1 DEF Begin, Release, Rollback, Change, Enqueue, Announced, consumer
  <1>2. ASSUME NEW p \in Producers, Commit(p) PROVE Delivery!DNext
    BY <1>2, CommitDelivers DEF Delivery!DNext
  <1>3. ASSUME NEW r \in outbox, Publish(r) \/ Mark(r) \/ Fail(r)
        PROVE  UNCHANGED <<changes, Announced, effects>>
    BY <1>3 DEF Publish, Mark, Fail, Announced, consumer
  <1>4. ASSUME NEW r \in outbox, Consume(r) PROVE Delivery!DNext
    BY <1>4, ConsumeActs DEF Delivery!DNext
  <1>5. CASE UNCHANGED vars
    BY <1>5 DEF vars, Announced, consumer
  <1>. QED BY <1>1, <1>2, <1>3, <1>4, <1>5 DEF Next

(* outbox.py:1-17: producers with their savepoints, failures and retries,  *)
(* a relay that repeats itself and a consumer that goes by envelope_id     *)
(* come to atomic commits of changes with their messages, each acted on at *)
(* most once: no change, message or effect is ever taken back.             *)
THEOREM OutboxDelivers == Spec => ImplementsDelivery
  <1>1. Init => Delivery!DInit
    BY DEF Init, Delivery!DInit
  <1>2. IInv /\ [Next]_vars => [Delivery!DNext]_<<changes, {r.envelope : r \in outbox}, effects>>
    BY StepDelivers DEF Announced
  <1>. QED BY <1>1, <1>2, Invariance, PTL DEF Spec, ImplementsDelivery, Delivery!DSpec
=============================================================================
