------------------------- MODULE CertificateProofs -------------------------
(***************************************************************************)
(* What CertificateReader promises, proved for any tenants, certificates,  *)
(* keys and sessions, by the inductive invariant CInv.                     *)
(***************************************************************************)
EXTENDS CertificateReader, TLAPS

LEMMA SightsAreMoments ==
    ASSUME NEW t, NEW co, NEW material \in BOOLEAN
    PROVE  Sights(t, co, material) \subseteq Moments
BY DEF Sights, Moments

LEMMA SightsAreMomentsNext ==
    ASSUME NEW t, NEW co PROVE Sights(t, co, TRUE)' \subseteq Moments
BY DEF Sights, Moments

(* There is always something to be seen, the key if it is there.           *)
LEMMA SightsNext ==
    ASSUME NEW t, NEW co
    PROVE  \E m \in Sights(t, co, TRUE)' : m.opens <=> key'[t] # NoKey
<1> DEFINE opens == key'[t] # NoKey
           newest == {c \in Certs :
              /\ Exists(c)' /\ cert'[c].active /\ cert'[c].company = co /\ OwnerOf[co] = t
              /\ \A d \in Certs :
                    /\ Exists(d)' /\ cert'[d].active /\ cert'[d].company = co /\ OwnerOf[co] = t
                    => cert'[d].issued <= cert'[c].issued}
           found == IF newest = {} THEN {Nothing} ELSE newest
<1>1. PICK c : c \in found
    OBVIOUS
<1>2. Sights(t, co, TRUE)' = [newest : found, opens : {opens}]
    BY DEF Sights
<1>3. [newest |-> c, opens |-> opens] \in [newest : found, opens : {opens}]
    BY <1>1
<1> QED BY <1>2, <1>3

(* What Latest finds is to be seen, and so is nothing when it finds none.  *)
LEMMA LatestIsSeen ==
    ASSUME NEW t, NEW co, NEW material \in BOOLEAN
    PROVE  /\ Latest(t, co) \subseteq Certs
           /\ \A c \in Latest(t, co) :
                 /\ Exists(c) /\ OwnerOf[cert[c].company] = t
                 /\ [newest |-> c, opens |-> material => key[t] # NoKey]
                        \in Sights(t, co, material)
           /\ Latest(t, co) = {} => [newest |-> Nothing, opens |-> material => key[t] # NoKey]
                                       \in Sights(t, co, material)
<1> DEFINE found == {c \in Certs :
          /\ Exists(c) /\ cert[c].active /\ cert[c].company = co /\ OwnerOf[co] = t
          /\ \A d \in Certs : Exists(d) /\ cert[d].active /\ cert[d].company = co /\ OwnerOf[co] = t
                                 => cert[d].issued <= cert[c].issued}
<1>1. Latest(t, co) = found
    BY DEF Latest, Active
<1>2. Sights(t, co, material) = [newest : IF found = {} THEN {Nothing} ELSE found,
                                 opens : {material => key[t] # NoKey}]
    BY DEF Sights
<1>3. \A c \in found : c \in Certs /\ Exists(c) /\ OwnerOf[cert[c].company] = t
    OBVIOUS
<1> HIDE DEF found
<1> QED BY <1>1, <1>2, <1>3
-----------------------------------------------------------------------------
LEMMA InitCInv == Init => CInv
<1> SUFFICES ASSUME Init PROVE CInv
    OBVIOUS
<1>1. TypeOK
    BY DEF Init, TypeOK, Answers
<1>2. TablesInv
    BY DEF Init, TablesInv, Exists
<1>3. TakenInv /\ AskedInv /\ HonestAnswer
    BY DEF Init, TakenInv, AskedInv, HonestAnswer
<1> QED BY <1>1, <1>2, <1>3 DEF CInv

(* The part of the step of master-data that all four have in common: calls *)
(* stay where they are and count one more moment.                          *)
LEMMA WitnessStep ==
    ASSUME CInv, Witnessed, UNCHANGED object,
           key' \in [Tenants -> Keys \cup {NoKey}],
           \A c \in Certs : Exists(c) => Exists(c)' /\ cert'[c].company = cert[c].company,
           \A t \in Tenants : key'[t] = NoKey => key[t] = NoKey
    PROVE  /\ phase' \in [Sessions -> {"idle", "cert", "key", "done"}]
           /\ moments' \in [Sessions -> SUBSET Moments]
           /\ TakenInv' /\ AskedInv' /\ HonestAnswer'
<1> USE DEF CInv
<1>0. phase' = phase /\ asked' = asked /\ taken' = taken /\ answer' = answer
    BY DEF Witnessed, reads
<1>1. moments' \in [Sessions -> SUBSET Moments]
    BY SightsAreMomentsNext DEF Witnessed, TypeOK
<1>2. \A s \in Sessions :
         /\ moments[s] \subseteq moments'[s]
         /\ phase[s] \in {"cert", "key"} =>
               Sights(asked[s][1], asked[s][2], TRUE)' \subseteq moments'[s]
    BY DEF Witnessed
<1>3. TakenInv'
    <2> SUFFICES ASSUME NEW s \in Sessions, phase'[s] = "key"
                 PROVE  Holds(s, taken[s], asked[s][1])'
        BY DEF TakenInv
    <2>1. asked[s][1] \in Tenants
        BY DEF TypeOK
    <2>2. Holds(s, taken[s], asked[s][1])
        BY <1>0 DEF TakenInv
    <2>3. key'[asked[s][1]] # NoKey => \E m \in moments'[s] : m.opens
        <3>1. asked[s][1]' = asked[s][1] /\ asked[s][2]' = asked[s][2] /\ phase[s] = "key"
            BY <1>0
        <3>2. \E m \in Sights(asked[s][1], asked[s][2], TRUE)' :
                 m.opens <=> key'[asked[s][1]] # NoKey
            BY <3>1, SightsNext
        <3> QED BY <1>2, <3>1, <3>2
    <2> QED BY <1>0, <1>2, <2>1, <2>2, <2>3 DEF Holds, Exists
<1>4. AskedInv'
    BY <1>0, <1>2 DEF AskedInv
<1>5. HonestAnswer'
    BY <1>0, <1>2 DEF HonestAnswer, Justified, AnswerAt
<1> QED BY <1>0, <1>1, <1>3, <1>4, <1>5 DEF TypeOK

LEMMA IssueStep ==
    ASSUME CInv, NEW c \in Certs, NEW co \in Companies, NEW n \in 1..MaxIssued, Issue(c, co, n)
    PROVE  CInv'
<1> USE DEF CInv
<1> DEFINE t == OwnerOf[co]
           row == [company |-> co, issued |-> n, active |-> TRUE, key |-> sealing[t]]
<1>1. t \in Tenants /\ sealing[t] \in Keys /\ row \in Rows
    BY CompaniesAssumption DEF TypeOK, Rows
<1>2. cert' = [cert EXCEPT ![c] = row] /\ cert[c] = NoRow
    BY DEF Issue, Exists
<1>3. cert' \in [Certs -> Rows \cup {NoRow}]
    BY <1>1, <1>2 DEF TypeOK
<1>4. /\ key' \in [Tenants -> Keys \cup {NoKey}]
      /\ sealing' = sealing /\ object' = object
      /\ \A u \in Tenants : key'[u] = key[u] \/ (u = t /\ key'[u] = sealing[u])
      /\ t \notin Legacy => key'[t] = sealing[t]
    BY <1>1 DEF Issue, TypeOK
<1>5. \A u \in Tenants : key'[u] = NoKey => key[u] = NoKey
    BY <1>1, <1>4, KeysAssumption DEF TypeOK
<1>6. \A d \in Certs : Exists(d) => Exists(d)' /\ cert'[d].company = cert[d].company
    BY <1>2 DEF Exists, TypeOK
<1>7. TablesInv'
    <2>1. \A u \in Tenants : key'[u] # NoKey => key'[u] = sealing'[u]
        BY <1>4 DEF TablesInv
    <2>2. ASSUME NEW d \in Certs, Exists(d)'
          PROVE  LET u == OwnerOf[cert'[d].company] IN
                 cert'[d].key = sealing'[u] /\ (u \notin Legacy => key'[u] # NoKey)
        <3>1. CASE d = c
            <4>1. cert'[d] = row
                BY <1>2, <3>1 DEF TypeOK
            <4>2. cert'[d].company = co /\ cert'[d].key = sealing[t]
                BY <4>1
            <4> QED BY <1>1, <1>4, <4>2, KeysAssumption
        <3>2. CASE d # c
            <4>1. cert'[d] = cert[d] /\ Exists(d) /\ cert[d] \in Rows
                BY <1>2, <2>2, <3>2 DEF TypeOK, Exists
            <4>2. OwnerOf[cert[d].company] \in Tenants
                BY <4>1, CompaniesAssumption DEF Rows
            <4> QED BY <1>4, <1>5, <4>1, <4>2 DEF TablesInv
        <3> QED BY <3>1, <3>2
    <2> QED BY <2>1, <2>2 DEF TablesInv, Exists
<1>8. Witnessed /\ UNCHANGED object
    BY DEF Issue
<1>9. /\ phase' \in [Sessions -> {"idle", "cert", "key", "done"}]
      /\ moments' \in [Sessions -> SUBSET Moments]
      /\ TakenInv' /\ AskedInv' /\ HonestAnswer'
    BY <1>4, <1>5, <1>6, <1>8, WitnessStep
<1>10. TypeOK'
    BY <1>3, <1>4, <1>8, <1>9 DEF TypeOK, Witnessed, reads
<1> QED BY <1>7, <1>9, <1>10

LEMMA SwitchStep ==
    ASSUME CInv, NEW c \in Certs, Switch(c)
    PROVE  CInv'
<1> USE DEF CInv
<1> DEFINE row == [cert[c] EXCEPT !.active = ~cert[c].active]
<1>1. cert[c] \in Rows /\ key' = key /\ sealing' = sealing /\ object' = object
    BY DEF Switch, TypeOK, Exists
<1>2. cert' = [cert EXCEPT ![c] = row]
    BY DEF Switch
<1>3. row \in Rows /\ row.company = cert[c].company /\ row.key = cert[c].key
    BY <1>1 DEF Rows
<1>4. cert' \in [Certs -> Rows \cup {NoRow}]
    BY <1>2, <1>3 DEF TypeOK
<1> HIDE DEF row
<1>5. \A d \in Certs :
         /\ Exists(d)' <=> Exists(d)
         /\ Exists(d) => cert'[d].company = cert[d].company /\ cert'[d].key = cert[d].key
    BY <1>1, <1>2, <1>3, RowsAssumption DEF Exists, TypeOK
<1>6. TablesInv'
    BY <1>1, <1>5 DEF TablesInv, Exists
<1>7. Witnessed /\ UNCHANGED object /\ key' \in [Tenants -> Keys \cup {NoKey}]
    BY <1>1 DEF Switch, TypeOK
<1>8. /\ phase' \in [Sessions -> {"idle", "cert", "key", "done"}]
      /\ moments' \in [Sessions -> SUBSET Moments]
      /\ TakenInv' /\ AskedInv' /\ HonestAnswer'
    BY <1>1, <1>5, <1>7, WitnessStep
<1>9. TypeOK'
    BY <1>1, <1>4, <1>7, <1>8 DEF TypeOK, Witnessed, reads
<1> QED BY <1>6, <1>8, <1>9

LEMMA RelocateStep ==
    ASSUME CInv, NEW t \in Tenants, Relocate(t)
    PROVE  CInv'
<1> USE DEF CInv
<1>1. /\ key' = [key EXCEPT ![t] = sealing[t]] /\ sealing[t] \in Keys
      /\ cert' = cert /\ sealing' = sealing /\ object' = object
    BY DEF Relocate, TypeOK
<1>2. /\ key' \in [Tenants -> Keys \cup {NoKey}]
      /\ \A u \in Tenants : key'[u] = NoKey => key[u] = NoKey
    BY <1>1, KeysAssumption DEF TypeOK
<1>3. TablesInv'
    <2>1. \A u \in Tenants : key'[u] # NoKey => key'[u] = sealing'[u]
        BY <1>1 DEF TablesInv, TypeOK
    <2>2. ASSUME NEW c \in Certs, Exists(c)
          PROVE  OwnerOf[cert[c].company] \in Tenants
        BY <2>2, CompaniesAssumption DEF TypeOK, Exists, Rows
    <2> QED BY <1>1, <1>2, <2>1, <2>2 DEF TablesInv, Exists
<1>4. Witnessed /\ UNCHANGED object
    BY DEF Relocate
<1>5. /\ phase' \in [Sessions -> {"idle", "cert", "key", "done"}]
      /\ moments' \in [Sessions -> SUBSET Moments]
      /\ TakenInv' /\ AskedInv' /\ HonestAnswer'
    <2>1. \A c \in Certs : Exists(c) => Exists(c)' /\ cert'[c].company = cert[c].company
        BY <1>1 DEF Exists
    <2> QED BY <1>2, <1>4, <2>1, WitnessStep
<1>6. TypeOK'
    BY <1>1, <1>2, <1>4, <1>5 DEF TypeOK, Witnessed, reads
<1> QED BY <1>3, <1>5, <1>6

LEMMA RekeyStep ==
    ASSUME CInv, NEW t \in Tenants, NEW k \in Keys, Rekey(t, k)
    PROVE  CInv'
<1> USE DEF CInv
<1>1. /\ sealing' = [sealing EXCEPT ![t] = k] /\ object' = object
      /\ key' = IF key[t] = NoKey THEN key ELSE [key EXCEPT ![t] = k]
    BY DEF Rekey
<1>2. /\ key' \in [Tenants -> Keys \cup {NoKey}]
      /\ sealing' \in [Tenants -> Keys]
      /\ \A u \in Tenants : key'[u] = NoKey <=> key[u] = NoKey
    BY <1>1, KeysAssumption DEF TypeOK
<1>3. ASSUME NEW c \in Certs
      PROVE  /\ cert'[c] \in Rows \cup {NoRow}
             /\ Exists(c)' <=> Exists(c)
             /\ Exists(c) => /\ cert'[c].company = cert[c].company
                             /\ OwnerOf[cert[c].company] \in Tenants
                             /\ cert'[c].key = sealing'[OwnerOf[cert[c].company]]
    <2>1. CASE ~Exists(c)
        BY <2>1 DEF Rekey, Exists
    <2>2. CASE Exists(c)
        <3> DEFINE u == OwnerOf[cert[c].company]
        <3>1. cert[c] \in Rows /\ u \in Tenants /\ cert[c].key = sealing[u]
            BY <2>2, CompaniesAssumption DEF TypeOK, Exists, Rows, TablesInv
        <3>2. CASE u = t
            <4>1. cert'[c] = [cert[c] EXCEPT !.key = k]
                BY <2>2, <3>2 DEF Rekey
            <4>2. /\ cert'[c] \in Rows
                  /\ cert'[c].company = cert[c].company /\ cert'[c].key = k
                BY <3>1, <4>1 DEF Rows
            <4>3. sealing'[t] = k
                BY <1>1 DEF TypeOK
            <4> QED BY <2>2, <3>1, <3>2, <4>2, <4>3, RowsAssumption DEF Exists
        <3>3. CASE u # t
            <4>1. cert'[c] = cert[c] /\ sealing'[u] = sealing[u]
                BY <1>1, <3>1, <3>3 DEF Rekey, TypeOK
            <4> QED BY <2>2, <3>1, <4>1 DEF Exists
        <3> QED BY <3>2, <3>3
    <2> QED BY <2>1, <2>2
<1>4. cert' \in [Certs -> Rows \cup {NoRow}]
    <2>1. cert' = [c \in Certs |->
                     IF Exists(c) /\ OwnerOf[cert[c].company] = t
                     THEN [cert[c] EXCEPT !.key = k] ELSE cert[c]]
        BY DEF Rekey
    <2>2. cert' = [c \in Certs |-> cert'[c]]
        BY <2>1
    <2> QED BY <1>3, <2>2
<1>5. TablesInv'
    <2>1. \A u \in Tenants : key'[u] # NoKey => key'[u] = sealing'[u]
        BY <1>1, <1>2 DEF TablesInv, TypeOK
    <2> QED BY <1>2, <1>3, <2>1 DEF TablesInv, Exists
<1>6. Witnessed /\ UNCHANGED object
    BY DEF Rekey
<1>7. /\ phase' \in [Sessions -> {"idle", "cert", "key", "done"}]
      /\ moments' \in [Sessions -> SUBSET Moments]
      /\ TakenInv' /\ AskedInv' /\ HonestAnswer'
    BY <1>2, <1>3, <1>6, WitnessStep
<1>8. TypeOK'
    BY <1>1, <1>2, <1>4, <1>6, <1>7 DEF TypeOK, Witnessed, reads
<1> QED BY <1>5, <1>7, <1>8
-----------------------------------------------------------------------------
(* A session's step leaves the tables alone, and the calls of others.      *)
LEMMA ReaderStep ==
    ASSUME CInv, NEW s \in Sessions, UNCHANGED tables,
           object' \in [Sessions -> [Certs -> Rows \cup {NoRow}]],
           phase' \in [Sessions -> {"idle", "cert", "key", "done"}],
           asked' \in [Sessions -> Tenants \X Companies],
           taken' \in [Sessions -> Certs \cup {NoRow}],
           answer' \in [Sessions -> Answers],
           moments' \in [Sessions -> SUBSET Moments],
           \A u \in Sessions \ {s} :
              /\ object'[u] = object[u] /\ phase'[u] = phase[u] /\ asked'[u] = asked[u]
              /\ taken'[u] = taken[u] /\ answer'[u] = answer[u] /\ moments'[u] = moments[u],
           phase'[s] = "key" => Holds(s, taken[s], asked[s][1])',
           phase'[s] = "cert" => Sights(asked[s][1], asked[s][2], TRUE)' \subseteq moments'[s],
           phase'[s] = "done" /\ answer'[s] # Undecipherable =>
               Justified(answer'[s], asked'[s][1], moments'[s])
    PROVE  CInv'
<1> USE DEF CInv
<1>0. cert' = cert /\ key' = key /\ sealing' = sealing
    BY DEF tables
<1>1. TypeOK'
    BY <1>0 DEF TypeOK
<1>2. TablesInv'
    BY <1>0 DEF TablesInv, Exists
<1>3. ASSUME NEW u \in Sessions, phase'[u] = "key"
      PROVE  Holds(u, taken[u], asked[u][1])'
    <2>1. CASE u = s
        BY <1>3, <2>1
    <2>2. CASE u # s
        <3>1. Holds(u, taken[u], asked[u][1])
            BY <1>3, <2>2 DEF TakenInv
        <3> QED BY <1>0, <2>2, <3>1 DEF Holds, Exists
    <2> QED BY <2>1, <2>2
<1>4. ASSUME NEW u \in Sessions, phase'[u] = "cert"
      PROVE  Sights(asked[u][1], asked[u][2], TRUE)' \subseteq moments'[u]
    <2>1. CASE u = s
        BY <1>4, <2>1
    <2>2. CASE u # s
        <3>1. Sights(asked[u][1], asked[u][2], TRUE) \subseteq moments[u]
            BY <1>4, <2>2 DEF AskedInv
        <3>2. Sights(asked[u][1], asked[u][2], TRUE)' = Sights(asked[u][1], asked[u][2], TRUE)
            <4> DEFINE t == asked[u][1]  co == asked[u][2]
            <4>1. t' = t /\ co' = co
                BY <2>2
            <4> QED BY <1>0, <4>1 DEF Sights, Exists
        <3> QED BY <2>2, <3>1, <3>2
    <2> QED BY <2>1, <2>2
<1>5. HonestAnswer'
    <2> SUFFICES ASSUME NEW u \in Sessions, phase'[u] = "done", answer'[u] # Undecipherable
                 PROVE  Justified(answer'[u], asked'[u][1], moments'[u])
        BY DEF HonestAnswer, Justified, AnswerAt
    <2> QED BY DEF HonestAnswer
<1>6. TakenInv' /\ AskedInv'
    BY <1>3, <1>4 DEF TakenInv, AskedInv
<1> QED BY <1>1, <1>2, <1>5, <1>6

LEMMA LoadsType ==
    ASSUME CInv, NEW s \in Sessions, NEW ids, Loads(s, ids)
    PROVE  /\ object' \in [Sessions -> [Certs -> Rows \cup {NoRow}]]
           /\ \A u \in Sessions \ {s} : object'[u] = object[u]
           /\ \A c \in Certs : c \in ids /\ Exists(c) => object'[s][c] # NoRow
<1> DEFINE map == [c \in Certs |-> IF c \in ids /\ object[s][c] = NoRow THEN cert[c]
                                  ELSE object[s][c]]
<1>1. object' = [object EXCEPT ![s] = map]
    BY DEF Loads
<1>2. map \in [Certs -> Rows \cup {NoRow}]
    BY DEF CInv, TypeOK
<1>3. \A c \in Certs : c \in ids /\ Exists(c) => map[c] # NoRow
    BY DEF Exists
<1> HIDE DEF map
<1> QED BY <1>1, <1>2, <1>3 DEF CInv, TypeOK

LEMMA GetMetadataStep ==
    ASSUME CInv, NEW s \in Sessions, NEW t \in Tenants, NEW co \in Companies,
           GetMetadata(s, t, co)
    PROVE  CInv'
<1>1. PICK ids : /\ ids \in (IF Latest(t, co) = {} THEN {{}}
                             ELSE {{c} : c \in Latest(t, co)} \cup {Active(t, co)})
                 /\ Loads(s, ids)
                 /\ IF ids = {} THEN answer' = [answer EXCEPT ![s] = Nothing]
                    ELSE \E c \in ids \cap Latest(t, co) : answer' = [answer EXCEPT ![s] = c]
    BY DEF GetMetadata
<1>2. PICK a : /\ answer' = [answer EXCEPT ![s] = a]
               /\ (a = Nothing /\ ids = {}) \/ a \in Latest(t, co)
    BY <1>1
<1>3. ids = {} => Latest(t, co) = {}
    BY <1>1 DEF Latest
<1>4. [newest |-> a, opens |-> TRUE] \in Sights(t, co, FALSE) /\ a \in Answers
    <2>1. [newest |-> a, opens |-> FALSE => key[t] # NoKey] \in Sights(t, co, FALSE)
        BY <1>2, <1>3, LatestIsSeen
    <2>2. a \in Answers
        BY <1>2, LatestIsSeen DEF Answers
    <2> QED BY <2>1, <2>2
<1>5. /\ asked' = [asked EXCEPT ![s] = <<t, co>>]
      /\ moments' = [moments EXCEPT ![s] = Sights(t, co, FALSE)]
      /\ phase' = [phase EXCEPT ![s] = "done"]
      /\ taken' = taken /\ UNCHANGED tables
    BY DEF GetMetadata, Asks
<1>6. /\ object' \in [Sessions -> [Certs -> Rows \cup {NoRow}]]
      /\ \A u \in Sessions \ {s} : object'[u] = object[u]
    BY <1>1, LoadsType
<1>7. Sights(t, co, FALSE) \in SUBSET Moments
    BY SightsAreMoments
<1>8. /\ phase' \in [Sessions -> {"idle", "cert", "key", "done"}]
      /\ asked' \in [Sessions -> Tenants \X Companies]
      /\ taken' \in [Sessions -> Certs \cup {NoRow}]
      /\ answer' \in [Sessions -> Answers]
      /\ moments' \in [Sessions -> SUBSET Moments]
    BY <1>2, <1>4, <1>5, <1>7 DEF CInv, TypeOK
<1>9. /\ phase'[s] = "done" /\ answer'[s] = a /\ moments'[s] = Sights(t, co, FALSE)
      /\ \A u \in Sessions \ {s} :
            /\ object'[u] = object[u] /\ phase'[u] = phase[u] /\ asked'[u] = asked[u]
            /\ taken'[u] = taken[u] /\ answer'[u] = answer[u] /\ moments'[u] = moments[u]
    BY <1>2, <1>5, <1>6 DEF CInv, TypeOK
<1>10. Justified(answer'[s], asked'[s][1], moments'[s])
    <2>1. AnswerAt([newest |-> a, opens |-> TRUE]) = a
        BY DEF AnswerAt
    <2> QED BY <1>4, <1>9, <2>1 DEF Justified
<1> QED BY <1>5, <1>6, <1>8, <1>9, <1>10, ReaderStep

LEMMA GetMaterialStep ==
    ASSUME CInv, NEW s \in Sessions, NEW t \in Tenants, NEW co \in Companies,
           GetMaterial(s, t, co)
    PROVE  CInv'
<1>1. /\ asked' = [asked EXCEPT ![s] = <<t, co>>]
      /\ moments' = [moments EXCEPT ![s] = Sights(t, co, TRUE)]
      /\ phase' = [phase EXCEPT ![s] = "cert"]
      /\ taken' = taken /\ answer' = answer /\ object' = object /\ UNCHANGED tables
    BY DEF GetMaterial, Asks
<1>2. Sights(t, co, TRUE) \in SUBSET Moments
    BY SightsAreMoments
<1>3. /\ object' \in [Sessions -> [Certs -> Rows \cup {NoRow}]]
      /\ phase' \in [Sessions -> {"idle", "cert", "key", "done"}]
      /\ asked' \in [Sessions -> Tenants \X Companies]
      /\ taken' \in [Sessions -> Certs \cup {NoRow}]
      /\ answer' \in [Sessions -> Answers]
      /\ moments' \in [Sessions -> SUBSET Moments]
    BY <1>1, <1>2 DEF CInv, TypeOK
<1>4. /\ phase'[s] = "cert" /\ asked'[s] = <<t, co>> /\ moments'[s] = Sights(t, co, TRUE)
      /\ \A u \in Sessions \ {s} :
            /\ object'[u] = object[u] /\ phase'[u] = phase[u] /\ asked'[u] = asked[u]
            /\ taken'[u] = taken[u] /\ answer'[u] = answer[u] /\ moments'[u] = moments[u]
    BY <1>1 DEF CInv, TypeOK
<1>5. Sights(asked[s][1], asked[s][2], TRUE)' = Sights(t, co, TRUE)
    <2>1. asked[s][1]' = t /\ asked[s][2]' = co /\ cert' = cert /\ key' = key
        BY <1>1, <1>4 DEF tables
    <2> QED BY <2>1 DEF Sights, Exists
<1>6. Sights(asked[s][1], asked[s][2], TRUE)' \subseteq moments'[s]
    BY <1>4, <1>5
<1> QED BY <1>1, <1>3, <1>4, <1>6, ReaderStep

LEMMA SelectCertificateStep ==
    ASSUME CInv, NEW s \in Sessions, SelectCertificate(s)
    PROVE  CInv'
<1> DEFINE t == asked[s][1]  co == asked[s][2]
<1>1. /\ Sights(t, co, TRUE) \subseteq moments[s]
      /\ asked' = asked /\ moments' = moments /\ UNCHANGED tables
    BY DEF SelectCertificate, CInv, AskedInv
<1>2. CASE /\ Latest(t, co) = {}
           /\ answer' = [answer EXCEPT ![s] = Nothing]
           /\ phase' = [phase EXCEPT ![s] = "done"]
           /\ UNCHANGED <<object, taken>>
    <2>1. \E m \in moments[s] : Nothing = AnswerAt(m)
        <3>1. [newest |-> Nothing, opens |-> TRUE => key[t] # NoKey] \in Sights(t, co, TRUE)
            BY <1>2, LatestIsSeen
        <3>2. AnswerAt([newest |-> Nothing, opens |-> TRUE => key[t] # NoKey]) = Nothing
            BY DEF AnswerAt
        <3> QED BY <1>1, <3>1, <3>2
    <2>2. /\ object' \in [Sessions -> [Certs -> Rows \cup {NoRow}]]
          /\ phase' \in [Sessions -> {"idle", "cert", "key", "done"}]
          /\ asked' \in [Sessions -> Tenants \X Companies]
          /\ taken' \in [Sessions -> Certs \cup {NoRow}]
          /\ answer' \in [Sessions -> Answers]
          /\ moments' \in [Sessions -> SUBSET Moments]
        BY <1>1, <1>2 DEF CInv, TypeOK, Answers
    <2>3. /\ phase'[s] = "done" /\ answer'[s] = Nothing
          /\ \A u \in Sessions \ {s} :
                /\ object'[u] = object[u] /\ phase'[u] = phase[u] /\ asked'[u] = asked[u]
                /\ taken'[u] = taken[u] /\ answer'[u] = answer[u] /\ moments'[u] = moments[u]
        BY <1>1, <1>2 DEF CInv, TypeOK
    <2>4. Justified(answer'[s], asked'[s][1], moments'[s])
        BY <1>1, <2>1, <2>3 DEF Justified
    <2> QED BY <1>1, <2>2, <2>3, <2>4, ReaderStep
<1>3. ASSUME NEW c \in Latest(t, co),
             /\ Loads(s, {c})
             /\ taken' = [taken EXCEPT ![s] = c]
             /\ phase' = [phase EXCEPT ![s] = "key"]
             /\ UNCHANGED answer
      PROVE  CInv'
    <2>1. /\ c \in Certs /\ Exists(c) /\ OwnerOf[cert[c].company] = t
          /\ [newest |-> c, opens |-> key[t] # NoKey] \in moments[s]
          /\ t \notin Legacy => key[t] # NoKey
        <3>1. /\ c \in Certs /\ Exists(c) /\ OwnerOf[cert[c].company] = t
              /\ [newest |-> c, opens |-> TRUE => key[t] # NoKey] \in moments[s]
            <4>1. [newest |-> c, opens |-> TRUE => key[t] # NoKey] \in Sights(t, co, TRUE)
                BY LatestIsSeen
            <4>2. c \in Certs /\ Exists(c) /\ OwnerOf[cert[c].company] = t
                BY DEF Latest, Active
            <4> QED BY <1>1, <4>1, <4>2
        <3>2. t \notin Legacy => key[t] # NoKey
            BY <3>1 DEF CInv, TablesInv
        <3> QED BY <3>1, <3>2
    <2>2. /\ object' \in [Sessions -> [Certs -> Rows \cup {NoRow}]]
          /\ \A u \in Sessions \ {s} : object'[u] = object[u]
          /\ object'[s][c] # NoRow
        BY <1>3, <2>1, LoadsType
    <2>3. /\ phase' \in [Sessions -> {"idle", "cert", "key", "done"}]
          /\ asked' \in [Sessions -> Tenants \X Companies]
          /\ taken' \in [Sessions -> Certs \cup {NoRow}]
          /\ answer' \in [Sessions -> Answers]
          /\ moments' \in [Sessions -> SUBSET Moments]
        BY <1>1, <1>3, <2>1 DEF CInv, TypeOK
    <2>4. /\ phase'[s] = "key" /\ taken'[s] = c
          /\ \A u \in Sessions \ {s} :
                /\ object'[u] = object[u] /\ phase'[u] = phase[u] /\ asked'[u] = asked[u]
                /\ taken'[u] = taken[u] /\ answer'[u] = answer[u] /\ moments'[u] = moments[u]
        BY <1>1, <1>3, <2>2 DEF CInv, TypeOK
    <2>5. Holds(s, taken[s], asked[s][1])'
        <3>1. \/ [newest |-> c, opens |-> TRUE] \in moments[s] /\ key[t] # NoKey
              \/ [newest |-> c, opens |-> FALSE] \in moments[s] /\ t \in Legacy
            BY <2>1
        <3>2. key[t] # NoKey => \E m \in moments[s] : m.opens
            BY <2>1
        <3> QED BY <1>1, <2>1, <2>2, <2>4, <3>1, <3>2 DEF Holds, Exists, tables
    <2> QED BY <1>1, <2>2, <2>3, <2>4, <2>5, ReaderStep
<1> QED BY <1>2, <1>3 DEF SelectCertificate

LEMMA SelectKeyStep ==
    ASSUME CInv, NEW s \in Sessions, SelectKey(s)
    PROVE  CInv'
<1> DEFINE t == asked[s][1]  c == taken[s]
           a == IF key[t] = NoKey THEN KeyMissing
                ELSE IF object[s][c].key = key[t] THEN c ELSE Undecipherable
<1>1. Holds(s, c, t)
    BY DEF SelectKey, CInv, TakenInv
<1>2. /\ answer' = [answer EXCEPT ![s] = a]
      /\ phase' = [phase EXCEPT ![s] = "done"]
      /\ taken' = [taken EXCEPT ![s] = NoRow]
      /\ asked' = asked /\ moments' = moments /\ object' = object /\ UNCHANGED tables
    BY DEF SelectKey, TenantKey
<1>3. a \in Answers /\ (a # Undecipherable => Justified(a, t, moments[s]))
    <2>1. c \in Certs /\ c # Nothing
        BY <1>1, AnswersAssumption DEF Holds
    <2>2. CASE key[t] = NoKey
        <3>1. [newest |-> c, opens |-> FALSE] \in moments[s] /\ a = KeyMissing
            BY <1>1, <2>2 DEF Holds
        <3> QED BY <2>1, <3>1 DEF Justified, AnswerAt, Answers
    <2>3. CASE key[t] # NoKey /\ object[s][c].key # key[t]
        BY <2>3 DEF Answers
    <2>4. CASE key[t] # NoKey /\ object[s][c].key = key[t]
        <3>1. a = c /\ \E m \in moments[s] : m.opens
            BY <1>1, <2>4 DEF Holds
        <3>2. CASE [newest |-> c, opens |-> TRUE] \in moments[s]
            BY <2>1, <3>1, <3>2 DEF Justified, AnswerAt, Answers
        <3>3. CASE [newest |-> c, opens |-> FALSE] \in moments[s] /\ t \in Legacy
            BY <2>1, <3>1, <3>3 DEF Justified, Answers
        <3> QED BY <1>1, <3>2, <3>3 DEF Holds
    <2> QED BY <2>2, <2>3, <2>4
<1> HIDE DEF a
<1>4. /\ object' \in [Sessions -> [Certs -> Rows \cup {NoRow}]]
      /\ phase' \in [Sessions -> {"idle", "cert", "key", "done"}]
      /\ asked' \in [Sessions -> Tenants \X Companies]
      /\ taken' \in [Sessions -> Certs \cup {NoRow}]
      /\ answer' \in [Sessions -> Answers]
      /\ moments' \in [Sessions -> SUBSET Moments]
    BY <1>2, <1>3 DEF CInv, TypeOK
<1>5. /\ phase'[s] = "done" /\ answer'[s] = a
      /\ \A u \in Sessions \ {s} :
            /\ object'[u] = object[u] /\ phase'[u] = phase[u] /\ asked'[u] = asked[u]
            /\ taken'[u] = taken[u] /\ answer'[u] = answer[u] /\ moments'[u] = moments[u]
    BY <1>2 DEF CInv, TypeOK
<1> QED BY <1>2, <1>3, <1>4, <1>5, ReaderStep

LEMMA TakeStep ==
    ASSUME CInv, NEW s \in Sessions, Take(s)
    PROVE  CInv'
<1>1. /\ phase' = [phase EXCEPT ![s] = "idle"]
      /\ answer' = [answer EXCEPT ![s] = Nothing]
      /\ moments' = [moments EXCEPT ![s] = {}]
      /\ asked' = asked /\ taken' = taken /\ object' = object /\ UNCHANGED tables
    BY DEF Take
<1>2. /\ object' \in [Sessions -> [Certs -> Rows \cup {NoRow}]]
      /\ phase' \in [Sessions -> {"idle", "cert", "key", "done"}]
      /\ asked' \in [Sessions -> Tenants \X Companies]
      /\ taken' \in [Sessions -> Certs \cup {NoRow}]
      /\ answer' \in [Sessions -> Answers]
      /\ moments' \in [Sessions -> SUBSET Moments]
    BY <1>1 DEF CInv, TypeOK, Answers
<1>3. /\ phase'[s] = "idle"
      /\ \A u \in Sessions \ {s} :
            /\ object'[u] = object[u] /\ phase'[u] = phase[u] /\ asked'[u] = asked[u]
            /\ taken'[u] = taken[u] /\ answer'[u] = answer[u] /\ moments'[u] = moments[u]
    BY <1>1 DEF CInv, TypeOK
<1> QED BY <1>1, <1>2, <1>3, ReaderStep

(* Between calls the identity map of a session may change as it likes.     *)
LEMMA BetweenCalls ==
    ASSUME CInv, NEW s \in Sessions, phase[s] = "idle",
           NEW map \in [Certs -> Rows \cup {NoRow}], object' = [object EXCEPT ![s] = map],
           UNCHANGED <<tables, reads, moments>>
    PROVE  CInv'
<1>1. /\ phase' = phase /\ asked' = asked /\ taken' = taken /\ answer' = answer
      /\ moments' = moments /\ UNCHANGED tables
    BY DEF reads
<1>2. /\ object' \in [Sessions -> [Certs -> Rows \cup {NoRow}]]
      /\ phase' \in [Sessions -> {"idle", "cert", "key", "done"}]
      /\ asked' \in [Sessions -> Tenants \X Companies]
      /\ taken' \in [Sessions -> Certs \cup {NoRow}]
      /\ answer' \in [Sessions -> Answers]
      /\ moments' \in [Sessions -> SUBSET Moments]
    BY <1>1 DEF CInv, TypeOK
<1>3. \A u \in Sessions \ {s} : object'[u] = object[u]
    BY DEF CInv, TypeOK
<1> QED BY <1>1, <1>2, <1>3, ReaderStep

LEMMA SessionEndsStep ==
    ASSUME CInv, NEW s \in Sessions,
           (\E c \in Certs : Release(s, c)) \/ Commit(s) \/ Rollback(s)
    PROVE  CInv'
<1>0. object[s] \in [Certs -> Rows \cup {NoRow}] /\ object = [object EXCEPT ![s] = object[s]]
    BY DEF CInv, TypeOK
<1>1. ASSUME NEW c \in Certs, Release(s, c) PROVE CInv'
    <2>1. [object[s] EXCEPT ![c] = NoRow] \in [Certs -> Rows \cup {NoRow}]
        BY <1>0
    <2>2. object' = [object EXCEPT ![s] = [object[s] EXCEPT ![c] = NoRow]]
        BY <1>1 DEF Release
    <2> QED BY <1>1, <2>1, <2>2, BetweenCalls DEF Release
<1>2. [c \in Certs |-> NoRow] \in [Certs -> Rows \cup {NoRow}]
    OBVIOUS
<1>3. CASE Rollback(s)
    BY <1>2, <1>3, BetweenCalls DEF Rollback
<1>4. CASE Commit(s)
    <2>1. CASE KeepOnCommit
        BY <1>0, <1>4, <2>1, BetweenCalls DEF Commit
    <2>2. CASE ~KeepOnCommit
        BY <1>2, <1>4, <2>2, BetweenCalls DEF Commit
    <2> QED BY <2>1, <2>2
<1> QED BY <1>1, <1>3, <1>4
-----------------------------------------------------------------------------
LEMMA StutterStep ==
    ASSUME CInv, UNCHANGED vars PROVE CInv'
<1>1. /\ cert' = cert /\ key' = key /\ sealing' = sealing /\ object' = object
      /\ phase' = phase /\ asked' = asked /\ taken' = taken /\ answer' = answer
      /\ moments' = moments
    BY DEF vars, tables, reads
<1>2. TypeOK' /\ TablesInv' /\ HonestAnswer'
    BY <1>1 DEF CInv, TypeOK, TablesInv, HonestAnswer, Justified, AnswerAt, Exists
<1>3. TakenInv' /\ AskedInv'
    BY <1>1 DEF CInv, TakenInv, AskedInv, Holds, Sights, Exists
<1> QED BY <1>2, <1>3 DEF CInv

LEMMA NextCInv == CInv /\ [Next]_vars => CInv'
<1> SUFFICES ASSUME CInv, [Next]_vars PROVE CInv'
    OBVIOUS
<1>1. CASE MasterData
    BY <1>1, IssueStep, SwitchStep, RelocateStep, RekeyStep DEF MasterData
<1>2. ASSUME NEW s \in Sessions, Reader(s) PROVE CInv'
    BY <1>2, GetMetadataStep, GetMaterialStep, SelectCertificateStep, SelectKeyStep,
       TakeStep, SessionEndsStep DEF Reader
<1>3. CASE UNCHANGED vars
    BY <1>3, StutterStep
<1> QED BY <1>1, <1>2, <1>3 DEF Next

(* However calls of get_active_certificate_material and transactions of    *)
(* master-data interleave, the invariant CInv holds.                       *)
THEOREM CertificateInvariance == Spec => []CInv
<1> QED BY InitCInv, NextCInv, PTL DEF Spec

(* None, a certificate or CertificateKeyMissing: the answer is what the    *)
(* tables would have answered at some one moment of the call, key and all, *)
(* unless the key of a legacy tenant came in during the call.              *)
THEOREM AnswersAreHonest == Spec => []HonestAnswer
<1>1. CInv => HonestAnswer
    BY DEF CInv
<1> QED BY <1>1, CertificateInvariance, PTL

(* CertificateDecryptError is raised only for a copy of the row that is    *)
(* out of date, never for what the database holds.                         *)
THEOREM OutdatedAreUndecipherable == Spec => OnlyOutdatedIsUndecipherable
<1> DEFINE Outdated == \A s \in Sessions :
         answer'[s] = Undecipherable /\ answer[s] # Undecipherable
            => object[s][taken[s]].key # cert[taken[s]].key
<1>1. CInv /\ [Next]_vars => [Outdated]_vars
    <2> SUFFICES ASSUME CInv, Next, NEW u \in Sessions,
                        answer'[u] = Undecipherable, answer[u] # Undecipherable
                 PROVE  object[u][taken[u]].key # cert[taken[u]].key
        OBVIOUS
    <2>1. ~MasterData
        BY DEF MasterData, Issue, Switch, Relocate, Rekey, Witnessed, reads
    <2>2. PICK s \in Sessions : Reader(s)
        BY <2>1 DEF Next
    <2>3. SelectKey(s) /\ s = u
        <3>1. \A t \in Tenants, co \in Companies : ~GetMetadata(s, t, co)
            <4> SUFFICES ASSUME NEW t \in Tenants, NEW co \in Companies, GetMetadata(s, t, co)
                         PROVE  FALSE
                OBVIOUS
            <4>1. Latest(t, co) \subseteq Certs
                BY LatestIsSeen
            <4>2. PICK a \in Certs \cup {Nothing} : answer' = [answer EXCEPT ![s] = a]
                BY <4>1, Zenon DEF GetMetadata
            <4> QED BY <4>2, AnswersAssumption DEF CInv, TypeOK
        <3>2. ~SelectCertificate(s) /\ ~Take(s)
            BY AnswersAssumption DEF SelectCertificate, Take, CInv, TypeOK
        <3>3. answer' # answer
            OBVIOUS
        <3>4. SelectKey(s)
            BY <2>2, <3>1, <3>2, <3>3
               DEF Reader, GetMaterial, Release, Commit, Rollback, reads
        <3> QED BY <3>4 DEF SelectKey, CInv, TypeOK
    <2> DEFINE t == asked[u][1]  c == taken[u]
    <2>4. Holds(u, c, t) /\ t \in Tenants
        BY <2>3 DEF SelectKey, CInv, TakenInv, TypeOK
    <2>5. key[t] # NoKey /\ object[u][c].key # key[t]
        <3>1. answer'[u] = IF key[t] = NoKey THEN KeyMissing
                           ELSE IF object[u][c].key = key[t] THEN c ELSE Undecipherable
            BY <2>3 DEF SelectKey, TenantKey, CInv, TypeOK
        <3>2. c # Undecipherable /\ KeyMissing # Undecipherable
            BY <2>4, AnswersAssumption DEF Holds
        <3> QED BY <3>1, <3>2
    <2>6. cert[c].key = sealing[t] /\ key[t] = sealing[t]
        BY <2>4, <2>5 DEF CInv, TablesInv, Holds
    <2> QED BY <2>5, <2>6
<1> QED BY <1>1, CertificateInvariance, PTL DEF Spec, OnlyOutdatedIsUndecipherable
=============================================================================
