--------------------------- MODULE SessionProofs ---------------------------
(***************************************************************************)
(* Sessions on connections of a pool run under their own tenant and leave  *)
(* nothing behind, and those of a test stay inside its transaction, for    *)
(* any number of tasks, tenants, connections, resolvers and savepoints.    *)
(***************************************************************************)
EXTENDS SessionResolver, TLAPS

Values == Tenants \cup {NoTenant}

(* What a session's event makes of the variable.                           *)
LEMMA AfterBeginOwn ==
  ASSUME NEW p \in Principals, NEW value \in Values
  PROVE  /\ AfterBegin(p, value) \in Values
         /\ value \in {NoTenant, TenantOf[p]} => AfterBegin(p, value) = TenantOf[p]
  BY TenantsAssumption DEF AfterBegin, Values

(* What is open on the connection of a session.                            *)
LEMMA Connected ==
  ASSUME CoreInv, NEW t \in Tasks, conn[t] # NoConn
  PROVE  /\ conn[t] \in Connections /\ principal[t] \in Principals
         /\ saved[conn[t]] \in Seq(Values) /\ guc[conn[t]] \in Values
         /\ TenantOf[principal[t]] \in Values /\ NoTenant \in Values
         /\ base[t] \in Nat /\ base[t] < Len(saved[conn[t]])
         /\ saved[conn[t]][1] = NoTenant
<1>1. /\ conn[t] \in Connections /\ principal[t] \in Principals
      /\ saved[conn[t]] \in Seq(Values) /\ guc[conn[t]] \in Values
      /\ TenantOf[principal[t]] \in Values /\ NoTenant \in Values
  BY TenantsAssumption DEF CoreInv, TypeOK, Values
<1>2. base[t] \in Nat /\ base[t] < Len(saved[conn[t]])
  BY DEF CoreInv, TypeOK, StackInv
<1>3. saved[conn[t]][1] = NoTenant
  BY <1>1 DEF CoreInv, TransactionInv, TestsUndone
<1> QED
  BY <1>1, <1>2, <1>3

(* Of the sessions on a connection the one that moves began last.          *)
LEMMA FirstOut ==
  ASSUME CoreInv, NEW t \in Tasks, Foremost(t),
         NEW u \in Tasks \ {t}, conn[u] = conn[t]
  PROVE  base[u] \in Nat /\ base[u] < base[t] /\ ~Pooled(conn[t])
<1>1. base[u] <= base[t] /\ base[u] \in Nat /\ base[t] \in Nat
  BY DEF Foremost, CoreInv, TypeOK
<1>2. base[u] # base[t] /\ ~Pooled(conn[t])
  BY DEF Foremost, CoreInv, StackInv, TransactionInv
<1> QED
  BY <1>1, <1>2

(* Initially nobody has a connection.                                      *)
LEMMA InitCore == ASSUME Init PROVE CoreInv
<1>1. TypeOK
  <2>1. saved \in [Connections -> Seq(Values)]
    <3>1. <<>> \in Seq(Values) /\ <<NoTenant>> \in Seq(Values)
      BY DEF Values
    <3> QED
      BY <3>1 DEF Init
  <2> QED
    BY <2>1, TenantsAssumption, PoolsAssumption DEF Init, TypeOK, Values
<1>2. StageInv /\ StackInv /\ TransactionInv /\ FreeInv
  BY DEF Init, StageInv, StackInv, TransactionInv, FreeInv
<1>3. TestsUndone
  BY DEF Init, TestsUndone
<1> QED
  BY <1>1, <1>2, <1>3 DEF CoreInv

(* Steps that leave connections alone and close no session.                *)
LEMMA RegistryKeeps ==
  ASSUME CoreInv, UNCHANGED <<link, database>>, TypeOK', StageInv',
         \A t \in Tasks : conn[t] # NoConn => principal'[t] = principal[t]
  PROVE  CoreInv'
<1> USE DEF CoreInv, link, database, Pooled
<1>1. TransactionInv'
  BY DEF TransactionInv
<1>2. FreeInv' /\ StackInv' /\ TestsUndone'
  BY DEF FreeInv, StackInv, TestsUndone
<1> QED
  BY <1>1, <1>2
-----------------------------------------------------------------------------
(* A session gets a connection: a free one, or the test's.                 *)
LEMMA BeginKeeps ==
  ASSUME CoreInv, NEW t \in Tasks, NEW c \in Connections, Begin(t, c)
  PROVE  CoreInv'
<1> DEFINE own == TenantOf[principal[t]]
           stack == Append(saved[c], guc[c])
           value == AfterBegin(principal[t], guc[c])
<1> USE DEF CoreInv
<1>1. /\ c # NoConn /\ principal[t] \in Principals
      /\ saved[c] \in Seq(Values) /\ guc[c] \in Values
      /\ conn[t] = NoConn
  BY PoolsAssumption DEF Begin, TypeOK, Values
<1>2. Pooled(c) => /\ \A u \in Tasks : conn[u] # c
                   /\ saved[c] = <<>> /\ guc[c] = NoTenant
  <2> SUFFICES ASSUME Pooled(c)
               PROVE  (\A u \in Tasks : conn[u] # c) /\ saved[c] = <<>> /\ guc[c] = NoTenant
    OBVIOUS
  <2>1. saved[c] = <<>>
    BY DEF Begin
  <2>2. ASSUME NEW u \in Tasks, conn[u] = c PROVE FALSE
    BY <1>1, <2>1, <2>2, Connected
  <2> QED
    BY <2>1, <2>2 DEF FreeInv
<1>3. /\ value \in Values
      /\ Pooled(c) => value = own
  BY <1>1, <1>2, AfterBeginOwn
<1>4. /\ stack \in Seq(Values) /\ Len(stack) = Len(saved[c]) + 1
      /\ saved[c] # <<>> => stack[1] = saved[c][1]
      /\ Pooled(c) => Len(stack) = 1 /\ stack[1] = NoTenant
  <2>1. /\ stack \in Seq(Values) /\ Len(stack) = Len(saved[c]) + 1
        /\ saved[c] # <<>> => stack[1] = saved[c][1]
        /\ stack[Len(saved[c]) + 1] = guc[c]
    BY <1>1
  <2> QED
    BY <2>1, <1>2
<1>5. /\ saved' = [saved EXCEPT ![c] = stack]
      /\ guc' = [guc EXCEPT ![c] = value]
      /\ conn' = [conn EXCEPT ![t] = c]
      /\ base' = [base EXCEPT ![t] = Len(saved[c])]
      /\ stage[t] = "open"
      /\ UNCHANGED <<resolver, stage, principal, using, pool>>
  BY DEF Begin, Opens, TypeOK, registry, session
<1> HIDE DEF stack, value
<1>6. TypeOK'
  BY <1>1, <1>3, <1>4, <1>5 DEF TypeOK, Values
<1>7. StageInv'
  BY <1>5 DEF StageInv, TypeOK
<1>8. TestsUndone'
  <2> SUFFICES ASSUME NEW d \in Connections, ~Pooled(d)
               PROVE  saved'[d] # <<>> /\ saved'[d][1] = NoTenant
    BY DEF TestsUndone, Pooled
  <2>1. CASE d = c
    BY <2>1, <1>1, <1>4, <1>5 DEF TestsUndone, TypeOK
  <2>2. CASE d # c
    BY <2>2, <1>5 DEF TestsUndone, TypeOK
  <2> QED
    BY <2>1, <2>2
<1>9. StackInv'
  <2> SUFFICES ASSUME NEW u \in Tasks, conn'[u] # NoConn
               PROVE  /\ base'[u] < Len(saved'[conn'[u]])
                      /\ ~Pooled(conn'[u]) => base'[u] > 0
                      /\ \A w \in Tasks \ {u} : conn'[w] = conn'[u] => base'[w] # base'[u]
    BY DEF StackInv, Pooled
  <2>1. CASE u = t
    <3>1. conn'[u] = c /\ base'[u] = Len(saved[c]) /\ saved'[c] = stack
      BY <2>1, <1>5 DEF TypeOK
    <3>2. ~Pooled(c) => Len(saved[c]) > 0
      BY <1>1 DEF TestsUndone
    <3>3. ASSUME NEW w \in Tasks \ {u}, conn'[w] = c PROVE base'[w] # Len(saved[c])
      <4>1. conn[w] = c /\ base'[w] = base[w]
        BY <3>3, <2>1, <1>5 DEF TypeOK
      <4> QED
        BY <4>1, <1>1, Connected
    <3> QED
      BY <3>1, <3>2, <3>3, <1>1, <1>4
  <2>2. CASE u # t
    <3>1. conn'[u] = conn[u] /\ base'[u] = base[u]
      BY <2>2, <1>5 DEF TypeOK
    <3>2. base[u] < Len(saved'[conn[u]]) /\ base[u] < Len(saved[conn[u]]) /\ base[u] \in Nat
      <4>1. base[u] < Len(saved[conn[u]]) /\ base[u] \in Nat
        BY <3>1, Connected
      <4>2. CASE conn[u] = c
        BY <4>1, <4>2, <1>1, <1>4, <1>5 DEF TypeOK
      <4>3. CASE conn[u] # c
        BY <4>1, <4>3, <3>1, <1>5 DEF TypeOK
      <4> QED
        BY <4>1, <4>2, <4>3
    <3>3. ASSUME NEW w \in Tasks \ {u}, conn'[w] = conn[u] PROVE base'[w] # base[u]
      <4>1. CASE w = t
        BY <4>1, <3>2, <3>3, <1>5 DEF TypeOK
      <4>2. CASE w # t
        BY <4>2, <3>1, <3>3, <1>5 DEF TypeOK, StackInv
      <4> QED
        BY <4>1, <4>2
    <3> QED
      BY <3>1, <3>2, <3>3 DEF StackInv
  <2> QED
    BY <2>1, <2>2
<1>10. TransactionInv'
  <2> SUFFICES ASSUME NEW u \in Tasks, conn'[u] # NoConn, Pooled(conn'[u])
               PROVE  /\ base'[u] = 0
                      /\ \A w \in Tasks \ {u} : conn'[w] # conn'[u]
                      /\ saved'[conn'[u]][1] = NoTenant
                      /\ guc'[conn'[u]] = TenantOf[principal'[u]]
                      /\ \A i \in 2..Len(saved'[conn'[u]]) :
                            saved'[conn'[u]][i] = TenantOf[principal'[u]]
    BY DEF TransactionInv, Pooled
  <2>1. CASE u = t
    <3>1. /\ conn'[u] = c /\ saved'[c] = stack /\ guc'[c] = value
          /\ base'[u] = Len(saved[c]) /\ principal'[u] = principal[t]
      BY <2>1, <1>5 DEF TypeOK
    <3>2. /\ saved[c] = <<>> /\ Len(stack) = 1 /\ stack[1] = NoTenant /\ value = own
      BY <3>1, <1>2, <1>3, <1>4
    <3>3. \A w \in Tasks \ {u} : conn'[w] # c
      BY <2>1, <3>1, <1>2, <1>5 DEF TypeOK
    <3>4. Len(saved[c]) = 0 /\ \A i \in 2..Len(stack) : FALSE
      BY <3>2
    <3> QED
      BY <3>1, <3>2, <3>3, <3>4
  <2>2. CASE u # t
    BY <2>2, <1>1, <1>2, <1>5 DEF TypeOK, TransactionInv
  <2> QED
    BY <2>1, <2>2
<1>11. FreeInv'
  <2> SUFFICES ASSUME NEW d \in Connections, Pooled(d), \A u \in Tasks : conn'[u] # d
               PROVE  saved'[d] = <<>> /\ guc'[d] = NoTenant
    BY DEF FreeInv, Pooled
  <2>1. d # c
    BY <1>5 DEF TypeOK
  <2>2. \A u \in Tasks : conn[u] # d
    BY <1>1, <1>5, <2>1, PoolsAssumption DEF TypeOK
  <2> QED
    BY <1>5, <2>1, <2>2 DEF FreeInv, TypeOK
<1> QED
  BY <1>6, <1>7, <1>8, <1>9, <1>10, <1>11

(* What is open on the connection of a session changes, and stays its own. *)
LEMMA InsideKeeps ==
  ASSUME CoreInv, NEW t \in Tasks, Foremost(t),
         NEW stack \in Seq(Values), NEW value \in Values,
         saved' = [saved EXCEPT ![conn[t]] = stack],
         guc' = [guc EXCEPT ![conn[t]] = value],
         Len(stack) > base[t], stack[1] = NoTenant,
         Pooled(conn[t]) =>
            /\ value = TenantOf[principal[t]]
            /\ \A i \in 2..Len(stack) : stack[i] = TenantOf[principal[t]],
         UNCHANGED <<registry, stage, session, link>>
  PROVE  CoreInv'
<1> USE DEF CoreInv, registry, session, link
<1>1. conn[t] # NoConn /\ conn[t] \in Connections /\ base[t] \in Nat
  BY Connected DEF Foremost
<1>2. TypeOK' /\ StageInv'
  BY <1>1 DEF TypeOK, Values, StageInv
<1>3. \A u \in Tasks \ {t} : conn[u] = conn[t] => base[u] < Len(stack)
  <2> SUFFICES ASSUME NEW u \in Tasks \ {t}, conn[u] = conn[t]
               PROVE  base[u] < Len(stack)
    OBVIOUS
  <2>1. base[u] \in Nat /\ base[u] < base[t]
    BY FirstOut
  <2> QED
    BY <2>1, <1>1
<1>4. StackInv'
  <2> SUFFICES ASSUME NEW u \in Tasks, conn[u] # NoConn
               PROVE  base[u] < Len(saved'[conn[u]])
    BY DEF StackInv, Pooled
  <2>1. CASE conn[u] = conn[t]
    BY <2>1, <1>1, <1>3 DEF TypeOK
  <2>2. CASE conn[u] # conn[t]
    BY <2>2 DEF TypeOK, StackInv
  <2> QED
    BY <2>1, <2>2
<1>5. TransactionInv'
  <2> SUFFICES ASSUME NEW u \in Tasks, conn[u] # NoConn, Pooled(conn[u])
               PROVE  /\ saved'[conn[u]][1] = NoTenant
                      /\ guc'[conn[u]] = TenantOf[principal[u]]
                      /\ \A i \in 2..Len(saved'[conn[u]]) :
                            saved'[conn[u]][i] = TenantOf[principal[u]]
    BY DEF TransactionInv, Pooled
  <2>1. CASE u = t
    BY <2>1, <1>1 DEF TypeOK
  <2>2. CASE u # t
    BY <2>2 DEF TypeOK, TransactionInv
  <2> QED
    BY <2>1, <2>2
<1>6. FreeInv'
  BY DEF FreeInv, TypeOK, Pooled
<1>7. TestsUndone'
  <2> SUFFICES ASSUME NEW d \in Connections, ~Pooled(d)
               PROVE  saved'[d] # <<>> /\ saved'[d][1] = NoTenant
    BY DEF TestsUndone, Pooled
  <2>1. CASE d = conn[t]
    BY <2>1, <1>1 DEF TypeOK
  <2>2. CASE d # conn[t]
    BY <2>2 DEF TypeOK, TestsUndone
  <2> QED
    BY <2>1, <2>2
<1> QED
  BY <1>2, <1>4, <1>5, <1>6, <1>7

(* A savepoint is set.                                                     *)
LEMMA NestKeeps ==
  ASSUME CoreInv, NEW t \in Tasks, Nest(t)
  PROVE  CoreInv'
<1> DEFINE c == conn[t]
           own == TenantOf[principal[t]]
           stack == Append(saved[c], guc[c])
           value == AfterBegin(principal[t], guc[c])
<1>1. Foremost(t) /\ c # NoConn
  BY DEF Nest, Foremost
<1>2. /\ c \in Connections /\ principal[t] \in Principals
      /\ saved[c] \in Seq(Values) /\ guc[c] \in Values
      /\ base[t] \in Nat /\ base[t] < Len(saved[c]) /\ saved[c][1] = NoTenant
  BY <1>1, Connected
<1>3. Pooled(c) => /\ guc[c] = own
                   /\ \A i \in 2..Len(saved[c]) : saved[c][i] = own
  BY <1>1 DEF CoreInv, TransactionInv
<1>4. value \in Values /\ (Pooled(c) => value = own)
  BY <1>2, <1>3, AfterBeginOwn
<1>5. /\ stack \in Seq(Values) /\ Len(stack) > base[t] /\ stack[1] = NoTenant
      /\ Pooled(c) => \A i \in 2..Len(stack) : stack[i] = own
  BY <1>2, <1>3
<1>6. /\ saved' = [saved EXCEPT ![c] = stack]
      /\ guc' = [guc EXCEPT ![c] = value]
      /\ UNCHANGED <<registry, stage, session, link>>
  BY <1>2 DEF Nest, Opens, CoreInv, TypeOK
<1> QED
  BY <1>1, <1>4, <1>5, <1>6, InsideKeeps

(* It is released or rolled back.                                          *)
LEMMA UnnestKeeps ==
  ASSUME CoreInv, NEW t \in Tasks, Unnest(t)
  PROVE  CoreInv'
<1> DEFINE c == conn[t]
           own == TenantOf[principal[t]]
           n == Len(saved[c])
           stack == SubSeq(saved[c], 1, n - 1)
<1>1. Foremost(t) /\ c # NoConn
  BY DEF Unnest, Foremost
<1>2. /\ c \in Connections /\ n \in Nat /\ base[t] \in Nat /\ n - base[t] > 1
      /\ saved[c] \in Seq(Values) /\ guc[c] \in Values /\ saved[c][1] = NoTenant
  BY <1>1, Connected DEF Unnest, Depth
<1>3. Pooled(c) => guc[c] = own /\ \A i \in 2..n : saved[c][i] = own
  BY <1>1 DEF CoreInv, TransactionInv
<1>4. /\ stack \in Seq(Values) /\ Len(stack) = n - 1
      /\ \A i \in 1..Len(stack) : stack[i] = saved[c][i]
  BY <1>2
<1>5. /\ Len(stack) > base[t] /\ stack[1] = NoTenant
      /\ Pooled(c) => \A i \in 2..Len(stack) : stack[i] = own
  BY <1>2, <1>3, <1>4
<1>6. PICK value \in {guc[c], saved[c][n]} : guc' = [guc EXCEPT ![c] = value]
  <2>1. guc = [guc EXCEPT ![c] = guc[c]]
    BY <1>2 DEF CoreInv, TypeOK
  <2> QED
    BY <2>1 DEF Unnest
<1>7. value \in Values /\ (Pooled(c) => value = own)
  BY <1>2, <1>3, <1>6
<1>8. /\ saved' = [saved EXCEPT ![c] = stack]
      /\ UNCHANGED <<registry, stage, session, link>>
  BY <1>2 DEF Unnest, CoreInv, TypeOK
<1> QED
  BY <1>1, <1>4, <1>5, <1>6, <1>7, <1>8, InsideKeeps
-----------------------------------------------------------------------------
(* The end of a session's transaction leaves the connection as the session *)
(* found it, but for the tenant a commit leaves in the test's transaction. *)
LEMMA CloseKeeps ==
  ASSUME CoreInv, NEW t \in Tasks, Foremost(t),
         NEW value \in {Before(t), guc[conn[t]]}, Closes(t, value),
         Pooled(conn[t]) => value = Before(t),
         resolver' \in Resolvers \cup {NoResolver}, principal' = principal,
         stage' \in [Tasks -> {"out", "resolving", "open", "failed"}],
         using' \in [Tasks -> Resolvers \cup {NoResolver}],
         pool' \in [Tasks -> Pools \cup {NoPool}],
         stage'[t] # "resolving",
         \A u \in Tasks \ {t} : stage'[u] = stage[u] /\ using'[u] = using[u]
  PROVE  CoreInv'
<1> DEFINE c == conn[t]
           stack == SubSeq(saved[c], 1, base[t])
<1> USE DEF CoreInv
<1>1. /\ c # NoConn /\ c \in Connections /\ base[t] \in Nat
      /\ saved[c] \in Seq(Values) /\ guc[c] \in Values /\ NoTenant \in Values
      /\ base[t] < Len(saved[c]) /\ saved[c][1] = NoTenant
  BY Connected DEF Foremost
<1>2. /\ stack \in Seq(Values) /\ Len(stack) = base[t]
      /\ base[t] > 0 => stack[1] = NoTenant
      /\ base[t] = 0 => stack = <<>>
  BY <1>1
<1>3. /\ Pooled(c) => base[t] = 0 /\ value = NoTenant
      /\ ~Pooled(c) => base[t] > 0
      /\ value \in Values
  <2>1. Before(t) \in Values
    BY <1>1 DEF Before
  <2>2. Pooled(c) => base[t] = 0
    BY <1>1 DEF TransactionInv
  <2>3. Pooled(c) => value = NoTenant
    BY <1>1, <2>2 DEF Before
  <2>4. ~Pooled(c) => base[t] > 0
    BY <1>1 DEF StackInv
  <2> QED
    BY <1>1, <2>1, <2>2, <2>3, <2>4
<1>4. /\ guc' = [guc EXCEPT ![c] = value]
      /\ saved' = [saved EXCEPT ![c] = stack]
      /\ conn' = [conn EXCEPT ![t] = NoConn]
      /\ base' = [base EXCEPT ![t] = 0]
  BY <1>1 DEF Closes, TypeOK
<1> HIDE DEF stack
<1>5. TypeOK'
  BY <1>1, <1>2, <1>3, <1>4 DEF TypeOK, Values
<1>6. StageInv'
  BY <1>4 DEF StageInv, TypeOK
<1>7. StackInv'
  <2> SUFFICES ASSUME NEW u \in Tasks, conn'[u] # NoConn
               PROVE  /\ base'[u] < Len(saved'[conn'[u]])
                      /\ ~Pooled(conn'[u]) => base'[u] > 0
                      /\ \A w \in Tasks \ {u} : conn'[w] = conn'[u] => base'[w] # base'[u]
    BY DEF StackInv, Pooled
  <2>1. u # t /\ conn'[u] = conn[u] /\ base'[u] = base[u]
    BY <1>4 DEF TypeOK
  <2>2. base[u] < Len(saved'[conn[u]])
    <3>1. CASE conn[u] = c
      <4>1. base[u] < base[t] /\ saved'[c] = stack
        BY <2>1, <3>1, <1>1, <1>4, FirstOut DEF TypeOK
      <4> QED
        BY <3>1, <4>1, <1>2
    <3>2. CASE conn[u] # c
      BY <3>2, <2>1, <1>4 DEF TypeOK, StackInv
    <3> QED
      BY <3>1, <3>2
  <2>3. ASSUME NEW w \in Tasks \ {u}, conn'[w] = conn[u] PROVE base'[w] # base[u]
    BY <2>1, <2>3, <1>4 DEF TypeOK, StackInv
  <2> QED
    BY <2>1, <2>2, <2>3 DEF StackInv
<1>8. TransactionInv'
  <2> SUFFICES ASSUME NEW u \in Tasks, conn'[u] # NoConn, Pooled(conn'[u])
               PROVE  /\ base'[u] = 0
                      /\ \A w \in Tasks \ {u} : conn'[w] # conn'[u]
                      /\ saved'[conn'[u]][1] = NoTenant
                      /\ guc'[conn'[u]] = TenantOf[principal'[u]]
                      /\ \A i \in 2..Len(saved'[conn'[u]]) :
                            saved'[conn'[u]][i] = TenantOf[principal'[u]]
    BY DEF TransactionInv, Pooled
  <2>1. u # t /\ conn'[u] = conn[u] /\ base'[u] = base[u]
    BY <1>4 DEF TypeOK
  <2>2. conn[u] # c
    BY <2>1, <1>1 DEF TransactionInv
  <2>3. saved'[conn[u]] = saved[conn[u]] /\ guc'[conn[u]] = guc[conn[u]]
    BY <2>2, <1>4 DEF TypeOK
  <2>4. \A w \in Tasks \ {u} : conn'[w] # conn[u]
    BY <1>4, <2>1 DEF TransactionInv, TypeOK
  <2> QED
    BY <2>1, <2>3, <2>4 DEF TransactionInv
<1>9. FreeInv'
  <2> SUFFICES ASSUME NEW d \in Connections, Pooled(d), \A u \in Tasks : conn'[u] # d
               PROVE  saved'[d] = <<>> /\ guc'[d] = NoTenant
    BY DEF FreeInv, Pooled
  <2>1. CASE d = c
    BY <2>1, <1>1, <1>2, <1>3, <1>4 DEF TypeOK
  <2>2. CASE d # c
    BY <2>2, <1>4 DEF FreeInv, TypeOK
  <2> QED
    BY <2>1, <2>2
<1>10. TestsUndone'
  <2> SUFFICES ASSUME NEW d \in Connections, ~Pooled(d)
               PROVE  saved'[d] # <<>> /\ saved'[d][1] = NoTenant
    BY DEF TestsUndone, Pooled
  <2>1. CASE d = c
    BY <2>1, <1>1, <1>2, <1>3, <1>4 DEF TypeOK
  <2>2. CASE d # c
    BY <2>2, <1>4 DEF TestsUndone, TypeOK
  <2> QED
    BY <2>1, <2>2
<1> QED
  BY <1>5, <1>6, <1>7, <1>8, <1>9, <1>10

(* A test ends, and the next begins, on a connection without sessions.     *)
LEMMA TestEndsKeeps ==
  ASSUME CoreInv, NEW c \in Connections, TestEnds(c)
  PROVE  CoreInv'
<1> USE DEF CoreInv
<1>1. ~Pooled(c) /\ saved[c][1] = NoTenant /\ \A t \in Tasks : conn[t] # c
  BY DEF TestEnds, TestsUndone
<1>2. /\ guc' = [guc EXCEPT ![c] = NoTenant]
      /\ saved' = [saved EXCEPT ![c] = <<NoTenant>>]
      /\ UNCHANGED <<registry, stage, session, link>>
  BY <1>1 DEF TestEnds, TypeOK
<1>3. TypeOK'
  <2>1. NoTenant \in Values /\ <<NoTenant>> \in Seq(Values)
    BY DEF Values
  <2> QED
    BY <1>2, <2>1 DEF TypeOK, Values, registry, session, link
<1>4. StageInv'
  BY <1>2 DEF StageInv, session, link
<1>5. StackInv' /\ TransactionInv'
  <2>1. \A t \in Tasks : conn[t] # NoConn =>
           saved'[conn[t]] = saved[conn[t]] /\ guc'[conn[t]] = guc[conn[t]]
    BY <1>1, <1>2 DEF TypeOK
  <2>2. StackInv'
    BY <1>2, <2>1 DEF StackInv, Pooled, link
  <2>3. TransactionInv'
    <3>1. conn' = conn /\ base' = base /\ principal' = principal
      BY <1>2 DEF link, session
    <3>2. ASSUME NEW t \in Tasks, conn'[t] # NoConn, PoolOf[conn'[t]] \notin Fixtures
          PROVE  /\ base'[t] = 0
                 /\ \A u \in Tasks \ {t} : conn'[u] # conn'[t]
                 /\ saved'[conn'[t]][1] = NoTenant
                 /\ guc'[conn'[t]] = TenantOf[principal'[t]]
                 /\ \A i \in 2..Len(saved'[conn'[t]]) :
                       saved'[conn'[t]][i] = TenantOf[principal'[t]]
      BY <2>1, <3>1, <3>2 DEF TransactionInv, Pooled
    <3> QED
      BY <3>2, Zenon DEF TransactionInv, Pooled
  <2> QED
    BY <2>2, <2>3
<1>6. FreeInv'
  BY <1>1, <1>2 DEF FreeInv, Pooled, TypeOK, link
<1>7. TestsUndone'
  <2>1. <<NoTenant>> # <<>> /\ <<NoTenant>>[1] = NoTenant
    OBVIOUS
  <2> QED
    BY <1>2, <2>1 DEF TestsUndone, Pooled, TypeOK
<1> QED
  BY <1>3, <1>4, <1>5, <1>6, <1>7
-----------------------------------------------------------------------------
LEMMA NextCore == ASSUME CoreInv, [Next]_vars PROVE CoreInv'
<1>1. ASSUME NEW r \in Resolvers \cup {NoResolver}, Configure(r) PROVE CoreInv'
  <2>1. TypeOK' /\ StageInv'
    BY <1>1 DEF Configure, CoreInv, TypeOK, StageInv, session, link, database
  <2> QED
    BY <1>1, <2>1, RegistryKeeps DEF Configure, session
<1>2. ASSUME NEW t \in Tasks, NEW p \in Principals, Request(t, p) \/ Job(t, p) PROVE CoreInv'
  <2>. Enter(t, p)
    BY <1>2 DEF Request, Job
  <2>1. conn[t] = NoConn
    BY DEF Enter, CoreInv, StageInv
  <2>2. TypeOK' /\ StageInv'
    BY <2>1 DEF Enter, CoreInv, TypeOK, StageInv, registry, link, database
  <2> QED
    BY <2>1, <2>2, RegistryKeeps DEF Enter, CoreInv, TypeOK
<1>3. ASSUME NEW t \in Tasks, Resolve(t) PROVE CoreInv'
  <2>1. conn[t] = NoConn
    BY <1>3 DEF Resolve, CoreInv, StageInv
  <2>2. TypeOK' /\ StageInv'
    BY <1>3, <2>1, ResolversAssumption
    DEF Resolve, CoreInv, TypeOK, StageInv, registry, link, database
  <2> QED
    BY <1>3, <2>1, <2>2, RegistryKeeps DEF Resolve
<1>4. ASSUME NEW t \in Tasks, GiveUp(t) PROVE CoreInv'
  <2>1. conn[t] = NoConn
    BY <1>4 DEF GiveUp, CoreInv, StageInv
  <2>2. TypeOK' /\ StageInv'
    BY <1>4, <2>1 DEF GiveUp, CoreInv, TypeOK, StageInv, registry, link, database
  <2> QED
    BY <1>4, <2>1, <2>2, RegistryKeeps DEF GiveUp
<1>5. ASSUME NEW t \in Tasks, NEW c \in Connections, Begin(t, c) PROVE CoreInv'
  BY <1>5, BeginKeeps
<1>6. ASSUME NEW t \in Tasks, Nest(t) PROVE CoreInv'
  BY <1>6, NestKeeps
<1>7. ASSUME NEW t \in Tasks, Unnest(t) PROVE CoreInv'
  BY <1>7, UnnestKeeps
<1>8. ASSUME NEW t \in Tasks, Commit(t) \/ Rollback(t) PROVE CoreInv'
  <2>1. Foremost(t) /\ conn[t] # NoConn /\ stage[t] # "resolving"
    BY <1>8 DEF Commit, Rollback, Foremost, CoreInv, StageInv
  <2>2. PICK value \in {Before(t), guc[conn[t]]} :
           Closes(t, value) /\ (Pooled(conn[t]) => value = Before(t))
    BY <1>8, <2>1 DEF Commit, Rollback, IsLocal, CoreInv, TransactionInv
  <2>3. UNCHANGED <<resolver, stage, principal, using, pool>>
    BY <1>8 DEF Commit, Rollback, registry, session
  <2> QED
    BY <2>1, <2>2, <2>3, CloseKeeps DEF CoreInv, TypeOK
<1>9. ASSUME NEW t \in Tasks, Exit(t) PROVE CoreInv'
  <2>1. /\ stage' = [stage EXCEPT ![t] = "out"] /\ UNCHANGED <<resolver, principal>>
        /\ using' = [using EXCEPT ![t] = NoResolver]
        /\ pool' = [pool EXCEPT ![t] = NoPool]
    BY <1>9 DEF Exit, registry
  <2>2. CASE Foremost(t) /\ Closes(t, Before(t))
    BY <2>1, <2>2, CloseKeeps DEF CoreInv, TypeOK
  <2>3. CASE conn[t] = NoConn /\ UNCHANGED <<link, database>>
    <3>1. TypeOK' /\ StageInv'
      BY <2>1, <2>3 DEF CoreInv, TypeOK, StageInv, link, database
    <3> QED
      BY <2>1, <2>3, <3>1, RegistryKeeps
  <2> QED
    BY <1>9, <2>2, <2>3 DEF Exit
<1>10. ASSUME NEW c \in Connections, TestEnds(c) PROVE CoreInv'
  BY <1>10, TestEndsKeeps
<1>11. ASSUME NEW t \in Tasks, NEW p \in Principals, NEW f \in Fixtures, Isolated(t, p, f)
       PROVE  CoreInv'
  <2>1. conn[t] = NoConn
    BY <1>11 DEF Isolated, CoreInv, StageInv
  <2>2. TypeOK' /\ StageInv'
    BY <1>11, <2>1, FixturesAssumption
    DEF Isolated, CoreInv, TypeOK, StageInv, registry, link, database
  <2> QED
    BY <1>11, <2>1, <2>2, RegistryKeeps DEF Isolated, CoreInv, TypeOK
<1>12. CASE UNCHANGED vars
  <2>1. TypeOK' /\ StageInv'
    BY <1>12 DEF CoreInv, TypeOK, StageInv, vars, registry, session, link, database
  <2> QED
    BY <1>12, <2>1, RegistryKeeps DEF vars, session
<1> QED
  BY <1>1, <1>2, <1>3, <1>4, <1>5, <1>6, <1>7, <1>8, <1>9, <1>10, <1>11, <1>12 DEF Next
-----------------------------------------------------------------------------
(* The same for what tenants a connection sees: a step on connection c.    *)
Seen(c) == TenantsOf(PoolOf[c]) \cup {NoTenant}

LEMMA SeenKeeps ==
  ASSUME CoreInv, PoolInv, NEW c \in Connections,
         NEW stack \in Seq(Values), NEW value \in Seen(c),
         saved' = [saved EXCEPT ![c] = stack],
         guc' = [guc EXCEPT ![c] = value],
         \A i \in 1..Len(stack) : stack[i] \in Seen(c),
         principal' = principal,
         \A u \in Tasks : stage'[u] = "open" => stage[u] = "open" /\ pool'[u] = pool[u],
         \A u \in Tasks : conn'[u] # NoConn =>
            /\ PoolOf[conn'[u]] = pool'[u]
            /\ conn'[u] # c => conn'[u] = conn[u] /\ base'[u] = base[u]
            /\ conn'[u] = c /\ TenantOf[principal[u]] # NoTenant =>
                  /\ value # NoTenant
                  /\ \A i \in (base'[u] + 2)..Len(stack) : stack[i] # NoTenant
  PROVE  PoolInv'
<1>1. guc \in [Connections -> Values] /\ saved \in [Connections -> Seq(Values)]
  BY DEF CoreInv, TypeOK, Values
<1>2. ASSUME NEW d \in Connections
      PROVE  /\ guc'[d] \in Seen(d)
             /\ \A i \in 1..Len(saved'[d]) : saved'[d][i] \in Seen(d)
  <2>1. CASE d = c
    BY <2>1, <1>1
  <2>2. CASE d # c
    BY <2>2, <1>1 DEF PoolInv, Seen
  <2> QED
    BY <2>1, <2>2
<1>3. ASSUME NEW u \in Tasks, conn'[u] # NoConn, TenantOf[principal'[u]] # NoTenant
      PROVE  /\ guc'[conn'[u]] # NoTenant
             /\ \A i \in (base'[u] + 2)..Len(saved'[conn'[u]]) : saved'[conn'[u]][i] # NoTenant
  <2>1. CASE conn'[u] = c
    BY <2>1, <1>1, <1>3
  <2>2. CASE conn'[u] # c
    <3>1. conn'[u] = conn[u] /\ base'[u] = base[u] /\ conn[u] # NoConn
      BY <2>2, <1>3
    <3>2. guc'[conn[u]] = guc[conn[u]] /\ saved'[conn[u]] = saved[conn[u]]
      BY <3>1, <2>2, <1>1, Connected
    <3> QED
      BY <3>1, <3>2, <1>3 DEF PoolInv
  <2> QED
    BY <2>1, <2>2
<1>4. \A u \in Tasks :
         /\ stage'[u] = "open" => TenantOf[principal'[u]] \in TenantsOf(pool'[u]) \cup {NoTenant}
         /\ conn'[u] # NoConn => PoolOf[conn'[u]] = pool'[u]
  BY DEF PoolInv
<1> QED
  BY <1>2, <1>3, <1>4 DEF PoolInv, Seen, TenantsOf

(* A step that leaves connections alone.                                   *)
LEMMA SeenStays ==
  ASSUME PoolInv, UNCHANGED <<link, database>>,
         \A u \in Tasks :
            /\ stage'[u] = "open" => TenantOf[principal'[u]] \in TenantsOf(pool'[u]) \cup {NoTenant}
            /\ conn[u] # NoConn => pool'[u] = pool[u] /\ principal'[u] = principal[u]
  PROVE  PoolInv'
BY DEF PoolInv, TenantsOf, link, database

LEMMA SeenOpens ==
  ASSUME CoreInv, PoolInv, NEW t \in Tasks, NEW c \in Connections,
         principal[t] \in Principals,
         TenantOf[principal[t]] \in Seen(c), PoolOf[c] = pool[t], Opens(t, c),
         UNCHANGED <<stage, session>>,
         \A u \in Tasks \ {t} : conn'[u] = conn[u] /\ base'[u] = base[u],
         conn'[t] = c,
         base'[t] = IF conn[t] = c THEN base[t] ELSE Len(saved[c])
  PROVE  PoolInv'
<1> DEFINE stack == Append(saved[c], guc[c])
           value == AfterBegin(principal[t], guc[c])
<1>1. saved[c] \in Seq(Values) /\ guc[c] \in Values /\ guc[c] \in Seen(c)
  BY DEF CoreInv, TypeOK, PoolInv, Values, Seen
<1>2. /\ stack \in Seq(Values) /\ Len(stack) = Len(saved[c]) + 1
      /\ stack[Len(saved[c]) + 1] = guc[c] /\ Len(saved[c]) \in Nat
      /\ \A i \in 1..Len(saved[c]) : stack[i] = saved[c][i]
  BY <1>1
<1>3. value \in Seen(c)
  BY <1>1 DEF AfterBegin
<1>4. TenantOf[principal[t]] # NoTenant \/ guc[c] # NoTenant => value # NoTenant
  BY DEF AfterBegin
<1>5. /\ saved' = [saved EXCEPT ![c] = stack]
      /\ guc' = [guc EXCEPT ![c] = value]
  BY DEF Opens, CoreInv, TypeOK
<1> HIDE DEF stack, value
<1>6. \A i \in 1..Len(stack) : stack[i] \in Seen(c)
  BY <1>1, <1>2 DEF PoolInv, Seen
<1>7. ASSUME NEW u \in Tasks, conn'[u] # NoConn
      PROVE  /\ PoolOf[conn'[u]] = pool'[u]
             /\ conn'[u] # c => conn'[u] = conn[u] /\ base'[u] = base[u]
             /\ conn'[u] = c /\ TenantOf[principal[u]] # NoTenant =>
                  /\ value # NoTenant
                  /\ \A i \in (base'[u] + 2)..Len(stack) : stack[i] # NoTenant
  <2>1. PoolOf[conn'[u]] = pool'[u] /\ (conn'[u] # c => conn'[u] = conn[u] /\ base'[u] = base[u])
    BY <1>7 DEF PoolInv, session
  <2>2. ASSUME conn'[u] = c, TenantOf[principal[u]] # NoTenant, conn[u] = c
        PROVE  /\ value # NoTenant
               /\ \A i \in (base'[u] + 2)..Len(stack) : stack[i] # NoTenant
    <3>1. base'[u] = base[u] /\ base[u] \in Nat
      BY <2>2 DEF CoreInv, TypeOK
    <3>2. guc[c] # NoTenant /\ \A i \in (base[u] + 2)..Len(saved[c]) : saved[c][i] # NoTenant
      BY <1>7, <2>2 DEF PoolInv
    <3>3. ASSUME NEW i \in (base[u] + 2)..Len(stack) PROVE stack[i] # NoTenant
      <4>1. i \in (base[u] + 2)..Len(saved[c]) \/ i = Len(saved[c]) + 1
        BY <3>1, <1>2
      <4>2. i \in (base[u] + 2)..Len(saved[c]) => i \in 1..Len(saved[c])
        BY <3>1, <1>2
      <4> QED
        BY <4>1, <4>2, <3>2, <1>2
    <3> QED
      BY <3>1, <3>2, <3>3, <1>4
  <2>3. ASSUME conn'[u] = c, TenantOf[principal[u]] # NoTenant, conn[u] # c
        PROVE  /\ value # NoTenant
               /\ \A i \in (base'[u] + 2)..Len(stack) : stack[i] # NoTenant
    <3>1. u = t /\ base'[u] = Len(saved[c])
      BY <2>3
    <3>2. \A i \in (base'[u] + 2)..Len(stack) : FALSE
      BY <3>1, <1>2
    <3> QED
      BY <3>1, <3>2, <1>4, <2>3
  <2> QED
    BY <2>1, <2>2, <2>3
<1> QED
  BY <1>2, <1>3, <1>5, <1>6, <1>7, SeenKeeps DEF session

(* What is open on a session's connection is cut back.                     *)
LEMMA SeenCut ==
  ASSUME CoreInv, PoolInv, NEW t \in Tasks, conn[t] # NoConn,
         NEW n \in 0..(Len(saved[conn[t]]) - 1),
         NEW value \in {guc[conn[t]], saved[conn[t]][n + 1]},
         saved' = [saved EXCEPT ![conn[t]] = SubSeq(@, 1, n)],
         guc' = [guc EXCEPT ![conn[t]] = value],
         principal' = principal,
         \A u \in Tasks : stage'[u] = "open" => stage[u] = "open" /\ pool'[u] = pool[u],
         \A u \in Tasks : conn'[u] # NoConn =>
            /\ conn'[u] = conn[u] /\ base'[u] = base[u] /\ pool'[u] = pool[u]
            /\ conn[u] = conn[t] => base[u] + 2 <= n + 1
  PROVE  PoolInv'
<1> DEFINE c == conn[t]
           stack == SubSeq(saved[c], 1, n)
<1>1. /\ c \in Connections /\ saved[c] \in Seq(Values) /\ guc[c] \in Seen(c)
      /\ n \in Nat /\ n + 1 \in 1..Len(saved[c]) /\ n <= Len(saved[c])
  BY Connected DEF PoolInv, Seen
<1>2. /\ stack \in Seq(Values) /\ Len(stack) = n
      /\ \A i \in 1..n : stack[i] = saved[c][i] /\ i \in 1..Len(saved[c])
  BY <1>1
<1>3. value \in Seen(c) /\ \A i \in 1..Len(stack) : stack[i] \in Seen(c)
  <2>1. \A i \in 1..Len(saved[c]) : saved[c][i] \in Seen(c)
    BY <1>1 DEF PoolInv, Seen
  <2> QED
    BY <2>1, <1>1, <1>2
<1>4. saved' = [saved EXCEPT ![c] = stack]
  BY DEF CoreInv, TypeOK
<1> HIDE DEF stack
<1>5. ASSUME NEW u \in Tasks, conn'[u] # NoConn
      PROVE  /\ PoolOf[conn'[u]] = pool'[u]
             /\ conn'[u] # c => conn'[u] = conn[u] /\ base'[u] = base[u]
             /\ conn'[u] = c /\ TenantOf[principal[u]] # NoTenant =>
                  /\ value # NoTenant
                  /\ \A i \in (base'[u] + 2)..Len(stack) : stack[i] # NoTenant
  <2>1. conn'[u] = conn[u] /\ base'[u] = base[u] /\ pool'[u] = pool[u] /\ base[u] \in Nat
    BY <1>5 DEF CoreInv, TypeOK
  <2>2. ASSUME conn[u] = c, TenantOf[principal[u]] # NoTenant
        PROVE  /\ value # NoTenant
               /\ \A i \in (base[u] + 2)..Len(stack) : stack[i] # NoTenant
    <3>1. guc[c] # NoTenant /\ \A i \in (base[u] + 2)..Len(saved[c]) : saved[c][i] # NoTenant
      BY <1>5, <2>1, <2>2 DEF PoolInv
    <3>2. n + 1 \in (base[u] + 2)..Len(saved[c])
      BY <1>1, <1>5, <2>1, <2>2
    <3>3. \A i \in (base[u] + 2)..n : i \in (base[u] + 2)..Len(saved[c]) /\ i \in 1..n
      BY <1>1, <2>1
    <3> QED
      BY <3>1, <3>2, <3>3, <1>2
  <2> QED
    BY <2>1, <2>2, <1>5 DEF PoolInv
<1>6. guc' = [guc EXCEPT ![c] = value]
  OBVIOUS
<1>7. \A u \in Tasks : stage'[u] = "open" => stage[u] = "open" /\ pool'[u] = pool[u]
  OBVIOUS
<1>8. c \in Connections /\ stack \in Seq(Values) /\ value \in Seen(c) /\ principal' = principal
  BY <1>1, <1>2, <1>3
<1> HIDE DEF c
<1> QED
  BY ONLY CoreInv, PoolInv, <1>3, <1>4, <1>5, <1>6, <1>7, <1>8, SeenKeeps

LEMMA SeenCloses ==
  ASSUME CoreInv, PoolInv, NEW t \in Tasks, Foremost(t),
         NEW value \in {Before(t), guc[conn[t]]}, Closes(t, value), principal' = principal,
         \A u \in Tasks : stage'[u] = "open" => stage[u] = "open" /\ pool'[u] = pool[u],
         \A u \in Tasks \ {t} : pool'[u] = pool[u]
  PROVE  PoolInv'
<1>1. conn[t] # NoConn /\ base[t] \in Nat /\ base[t] \in 0..(Len(saved[conn[t]]) - 1)
  BY Connected DEF Foremost
<1>2. /\ saved' = [saved EXCEPT ![conn[t]] = SubSeq(@, 1, base[t])]
      /\ guc' = [guc EXCEPT ![conn[t]] = value]
      /\ conn' = [conn EXCEPT ![t] = NoConn]
      /\ base' = [base EXCEPT ![t] = 0]
  BY DEF Closes
<1>3. ASSUME NEW u \in Tasks, conn'[u] # NoConn
      PROVE  /\ conn'[u] = conn[u] /\ base'[u] = base[u] /\ pool'[u] = pool[u]
             /\ conn[u] = conn[t] => base[u] + 2 <= base[t] + 1
  <2>1. u # t /\ conn'[u] = conn[u] /\ base'[u] = base[u]
    BY <1>2, <1>3 DEF CoreInv, TypeOK
  <2>2. conn[u] = conn[t] => base[u] \in Nat /\ base[u] < base[t]
    BY <2>1, FirstOut
  <2> QED
    BY <2>1, <2>2, <1>1
<1>4. value \in {guc[conn[t]], saved[conn[t]][base[t] + 1]}
  BY DEF Before
<1> QED
  BY <1>1, <1>2, <1>3, <1>4, SeenCut
-----------------------------------------------------------------------------
LEMMA InitPool == ASSUME Init PROVE PoolInv
BY DEF Init, PoolInv, Pooled

LEMMA NextPool == ASSUME CoreInv, PoolInv, [Next]_vars PROVE PoolInv'
<1> USE DEF registry, session
<1>1. ASSUME NEW r \in Resolvers \cup {NoResolver}, Configure(r) PROVE PoolInv'
  BY <1>1, SeenStays DEF Configure, PoolInv
<1>2. ASSUME NEW t \in Tasks, NEW p \in Principals, Request(t, p) \/ Job(t, p) PROVE PoolInv'
  <2>1. conn[t] = NoConn
    BY <1>2 DEF Request, Job, Enter, CoreInv, StageInv
  <2> QED
    BY <1>2, <2>1, SeenStays DEF Request, Job, Enter, PoolInv, CoreInv, TypeOK
<1>3. ASSUME NEW t \in Tasks, Resolve(t) PROVE PoolInv'
  <2>1. conn[t] = NoConn /\ using[t] \in Resolvers /\ principal[t] \in Principals
    BY <1>3 DEF Resolve, CoreInv, StageInv, TypeOK
  <2>2. TenantOf[principal[t]] \in TenantsOf(using[t][principal[t]])
    BY <2>1 DEF TenantsOf
  <2> QED
    BY <1>3, <2>1, <2>2, SeenStays DEF Resolve, PoolInv, CoreInv, TypeOK
<1>4. ASSUME NEW t \in Tasks, GiveUp(t) PROVE PoolInv'
  <2>1. conn[t] = NoConn
    BY <1>4 DEF GiveUp, CoreInv, StageInv
  <2> QED
    BY <1>4, <2>1, SeenStays DEF GiveUp, PoolInv, CoreInv, TypeOK
<1>5. ASSUME NEW t \in Tasks, NEW p \in Principals, NEW f \in Fixtures, Isolated(t, p, f)
      PROVE  PoolInv'
  <2>1. conn[t] = NoConn
    BY <1>5 DEF Isolated, CoreInv, StageInv
  <2> QED
    BY <1>5, <2>1, SeenStays DEF Isolated, PoolInv, CoreInv, TypeOK
<1>6. ASSUME NEW t \in Tasks, NEW c \in Connections, Begin(t, c) PROVE PoolInv'
  <2>1. /\ principal[t] \in Principals /\ PoolOf[c] = pool[t] /\ Opens(t, c)
        /\ UNCHANGED <<stage, session>> /\ conn[t] = NoConn /\ conn[t] # c
        /\ TenantOf[principal[t]] \in Seen(c)
    BY <1>6, PoolsAssumption DEF Begin, CoreInv, TypeOK, PoolInv, Seen
  <2>2. /\ conn'[t] = c /\ base'[t] = Len(saved[c])
        /\ \A u \in Tasks \ {t} : conn'[u] = conn[u] /\ base'[u] = base[u]
    BY <1>6 DEF Begin, CoreInv, TypeOK
  <2> QED
    BY <2>1, <2>2, SeenOpens
<1>7. ASSUME NEW t \in Tasks, Nest(t) PROVE PoolInv'
  <2>1. /\ principal[t] \in Principals /\ conn[t] \in Connections /\ Opens(t, conn[t])
        /\ UNCHANGED <<stage, session>> /\ conn' = conn /\ base' = base
        /\ conn[t] # NoConn
    BY <1>7, Connected DEF Nest, Foremost, link
  <2>2. PoolOf[conn[t]] = pool[t] /\ TenantOf[principal[t]] \in Seen(conn[t])
    BY <2>1 DEF PoolInv, Seen, CoreInv, StageInv
  <2> QED
    BY <2>1, <2>2, SeenOpens
<1>8. ASSUME NEW t \in Tasks, Unnest(t) PROVE PoolInv'
  <2> DEFINE n == Len(saved[conn[t]]) - 1
  <2>1. /\ conn[t] # NoConn /\ base[t] \in Nat /\ Len(saved[conn[t]]) - base[t] > 1
        /\ Foremost(t) /\ saved[conn[t]] \in Seq(Values) /\ conn[t] \in Connections
    BY <1>8, Connected DEF Unnest, Foremost, Depth
  <2>2. n \in 0..(Len(saved[conn[t]]) - 1) /\ n + 1 = Len(saved[conn[t]]) /\ base[t] + 2 <= n + 1
    BY <2>1
  <2>3. \A u \in Tasks : conn[u] = conn[t] => base[u] + 2 <= n + 1
    BY <2>1, <2>2 DEF Foremost, CoreInv, TypeOK
  <2>4. PICK value \in {guc[conn[t]], saved[conn[t]][n + 1]} : guc' = [guc EXCEPT ![conn[t]] = value]
    <3>1. guc = [guc EXCEPT ![conn[t]] = guc[conn[t]]]
      BY <2>1 DEF CoreInv, TypeOK
    <3> QED
      BY <1>8, <2>2, <3>1 DEF Unnest
  <2>5. /\ saved' = [saved EXCEPT ![conn[t]] = SubSeq(@, 1, n)]
        /\ UNCHANGED <<stage, principal, pool, conn, base>>
    BY <1>8 DEF Unnest, link
  <2> HIDE DEF n
  <2> QED
    BY <2>1, <2>2, <2>3, <2>4, <2>5, SeenCut
<1>9. ASSUME NEW t \in Tasks, Commit(t) \/ Rollback(t) PROVE PoolInv'
  <2>1. PICK value \in {Before(t), guc[conn[t]]} : Foremost(t) /\ Closes(t, value)
    BY <1>9 DEF Commit, Rollback
  <2>2. UNCHANGED <<stage, principal, pool>>
    BY <1>9 DEF Commit, Rollback
  <2> QED
    BY <2>1, <2>2, SeenCloses
<1>10. ASSUME NEW t \in Tasks, Exit(t) PROVE PoolInv'
  <2>1. /\ stage' = [stage EXCEPT ![t] = "out"] /\ principal' = principal
        /\ pool' = [pool EXCEPT ![t] = NoPool]
    BY <1>10 DEF Exit
  <2>2. /\ \A u \in Tasks : stage'[u] = "open" => stage[u] = "open" /\ pool'[u] = pool[u]
        /\ \A u \in Tasks \ {t} : pool'[u] = pool[u]
    BY <2>1 DEF CoreInv, TypeOK
  <2>3. CASE Foremost(t) /\ Closes(t, Before(t))
    BY <2>1, <2>2, <2>3, SeenCloses
  <2>4. CASE conn[t] = NoConn /\ UNCHANGED <<link, database>>
    BY <2>1, <2>2, <2>4, SeenStays DEF PoolInv
  <2> QED
    BY <1>10, <2>3, <2>4 DEF Exit
<1>11. ASSUME NEW c \in Connections, TestEnds(c) PROVE PoolInv'
  <2>1. /\ ~Pooled(c) /\ saved[c][1] = NoTenant /\ \A t \in Tasks : conn[t] # c
        /\ guc' = [guc EXCEPT ![c] = NoTenant]
        /\ saved' = [saved EXCEPT ![c] = <<NoTenant>>]
        /\ UNCHANGED <<stage, session, link>>
    BY <1>11 DEF TestEnds, CoreInv, TypeOK, TestsUndone
  <2>2. /\ <<NoTenant>> \in Seq(Values) /\ Len(<<NoTenant>>) = 1 /\ <<NoTenant>>[1] = NoTenant
        /\ NoTenant \in Seen(c)
    BY DEF Values, Seen
  <2>3. \A i \in 1..Len(<<NoTenant>>) : <<NoTenant>>[i] \in Seen(c)
    BY <2>2
  <2>4. conn' = conn /\ base' = base
    BY <2>1 DEF link
  <2> QED
    BY <2>1, <2>2, <2>3, <2>4, SeenKeeps DEF PoolInv
<1>12. CASE UNCHANGED vars
  BY <1>12, SeenStays DEF vars, PoolInv
<1> QED
  BY <1>1, <1>2, <1>3, <1>4, <1>5, <1>6, <1>7, <1>8, <1>9, <1>10, <1>11, <1>12 DEF Next

LEMMA InitSInv == ASSUME Init PROVE SInv
BY InitCore, InitPool DEF SInv

LEMMA NextSInv == ASSUME SInv, [Next]_vars PROVE SInv'
BY NextCore, NextPool DEF SInv
-----------------------------------------------------------------------------
(* Sessions of a pool never share a connection, those of a test nest in its*)
(* transaction, and connections of a pool nobody uses carry no tenant.     *)
THEOREM SessionInvariance == Spec => []SInv
  BY InitSInv, NextSInv, PTL DEF Spec

(* On a pool a session's statements run under its own principal's tenant,  *)
(* whatever the resolver does (session.py:38-48).                          *)
THEOREM SessionsRunAsThemselves == Spec => []OwnTenant
<1>1. SInv => OwnTenant
  BY DEF SInv, CoreInv, TransactionInv, OwnTenant, Foremost
<1> QED
  BY <1>1, SessionInvariance, PTL

(* A test's transaction stays open below its sessions (testing/db.py:61).  *)
THEOREM TestsAreUndone == Spec => []TestsUndone
<1>1. SInv => TestsUndone
  BY DEF SInv, CoreInv
<1> QED
  BY <1>1, SessionInvariance, PTL

(* No tenant outlives its transaction on a connection of a pool            *)
(* (session.py:35-36).                                                     *)
THEOREM PoolNeverLeaks == Spec => NeverLeaks
<1> DEFINE Own(t) == conn[t] # NoConn /\ Pooled(conn[t]) /\ conn'[t] = NoConn
                        => guc'[conn[t]] = Before(t)
<1>1. ASSUME SInv, SInv', [Next]_vars, NEW t \in Tasks,
             conn[t] # NoConn, Pooled(conn[t]), conn'[t] = NoConn
      PROVE  guc'[conn[t]] = Before(t)
  <2>1. conn[t] \in Connections /\ Before(t) = NoTenant
    BY <1>1 DEF SInv, CoreInv, TypeOK, TransactionInv, Before
  <2>2. \A u \in Tasks \ {t} : conn'[u] # conn[t]
    <3>1. ASSUME NEW u \in Tasks \ {t}, conn'[u] = conn[t]
          PROVE  FALSE
      <4>1. conn[u] # conn[t]
        BY <1>1 DEF SInv, CoreInv, TransactionInv
      <4>2. conn'[u] # conn[u] /\ conn'[t] # conn[t]
        BY <1>1, <3>1, <4>1
      <4> QED
        BY <4>2, <1>1 DEF Next, vars, Configure, Enter, Resolve, Exit, GiveUp, Begin,
           Nest, Unnest, Commit, Rollback, TestEnds, Closes, link, SInv, CoreInv, TypeOK,
           Request, Job, Isolated
    <3> QED
      BY <3>1
  <2>3. guc'[conn[t]] = NoTenant
    BY <2>1, <2>2, <1>1 DEF SInv, CoreInv, FreeInv, Pooled
  <2> QED
    BY <2>1, <2>3
<1>2. SInv /\ SInv' /\ [Next]_vars => [\A t \in Tasks : Own(t)]_vars
  BY <1>1
<1> QED
  BY <1>2, SessionInvariance, PTL DEF Spec, NeverLeaks

(* A session with a tenant never runs under none, nor under one its        *)
(* connection is not for, in a test either (testing/db.py:98-103).         *)
THEOREM NobodyElses == Spec => []NoOtherTenant
<1>1. SInv => NoOtherTenant
  <2> SUFFICES ASSUME SInv, NEW t \in Tasks, Foremost(t)
               PROVE  /\ guc[conn[t]] \in TenantsOf(pool[t]) \cup {NoTenant}
                      /\ guc[conn[t]] = NoTenant => TenantOf[principal[t]] = NoTenant
    BY DEF NoOtherTenant
  <2>1. conn[t] # NoConn /\ conn[t] \in Connections
    BY Connected DEF Foremost, SInv
  <2> QED
    BY <2>1 DEF SInv, PoolInv
<1> QED
  BY <1>1, SessionInvariance, PTL
=============================================================================
