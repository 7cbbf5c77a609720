---------------------------- MODULE PostureProofs ----------------------------
(***************************************************************************)
(* Proofs about what a tenant is shown (Posture), for any findings,        *)
(* entities and risks and any page sizes: the type invariant, and that the *)
(* views of the same rows agree.  The tables are finite, the two ends of   *)
(* an edge are known, and last_seen_at orders the entities: those three    *)
(* facts are inductive, and every view is a function of the tables, so the *)
(* agreement of the views follows from them.                               *)
(***************************************************************************)
EXTENDS Posture, FunctionTheorems, FiniteSetTheorems, TLAPS

-----------------------------------------------------------------------------
(* Counting.                                                               *)

\* A one-to-one function from all of S onto T shows the two of one size.
LEMMA SameSize ==
    ASSUME NEW S, IsFiniteSet(S), NEW T, NEW f \in [S -> T],
           \A a, b \in S : f[a] = f[b] => a = b,
           \A t \in T : \E s \in S : f[s] = t
    PROVE  IsFiniteSet(T) /\ Cardinality(T) = Cardinality(S)
<1>1. f \in Bijection(S, T)
    BY Fun_IsBij
<1>2. ExistsBijection(S, T)
    BY <1>1, Fun_ExistsBij
<1> QED BY <1>2, FS_Bijection

\* The members of a finite set can be numbered.
LEMMA Numbering ==
    ASSUME NEW S, IsFiniteSet(S)
    PROVE  /\ Cardinality(S) \in Nat
           /\ \E f \in [1..Cardinality(S) -> S] :
                /\ \A i, j \in 1..Cardinality(S) : f[i] = f[j] => i = j
                /\ \A s \in S : \E i \in 1..Cardinality(S) : f[i] = s
<1>1. Cardinality(S) \in Nat /\ ExistsBijection(1..Cardinality(S), S)
    BY FS_CardinalityType
<1>2. PICK f : f \in Bijection(1..Cardinality(S), S)
    BY <1>1, Fun_ExistsBij
<1> QED BY <1>1, <1>2, Fun_BijectionProperties

\* Rows that each fall under one key: the sizes of the groups add up to theirs.
LEMMA GroupsAddUp ==
    ASSUME NEW F, IsFiniteSet(F), NEW S, NEW key \in [F -> S], NEW g \in [S -> Nat],
           \A k \in S : g[k] = Cardinality({x \in F : key[x] = k})
    PROVE  SumOf(g) = Cardinality(F)
<1> DEFINE Group(k) == {x \in F : key[x] = k}
           Numbers(k) == {f \in [1..g[k] -> Group(k)] :
                              /\ \A i, j \in 1..g[k] : f[i] = f[j] => i = j
                              /\ \A s \in Group(k) : \E i \in 1..g[k] : f[i] = s}
           D == UNION {{k} \X (1..g[k]) : k \in S}
           number == [k \in S |-> CHOOSE f \in Numbers(k) : TRUE]
           slot == [x \in F |-> <<key[x], CHOOSE i \in 1..g[key[x]] : number[key[x]][i] = x>>]
<1>1. ASSUME NEW k \in S PROVE number[k] \in Numbers(k)
    <2>1. IsFiniteSet(Group(k)) BY FS_Subset
    <2>2. g[k] = Cardinality(Group(k)) OBVIOUS
    <2>3. \E f \in [1..g[k] -> Group(k)] :
                /\ \A i, j \in 1..g[k] : f[i] = f[j] => i = j
                /\ \A s \in Group(k) : \E i \in 1..g[k] : f[i] = s
        <3> DEFINE G == Group(k)
        <3> HIDE DEF G
        <3>1. \E f \in [1..Cardinality(G) -> G] :
                /\ \A i, j \in 1..Cardinality(G) : f[i] = f[j] => i = j
                /\ \A s \in G : \E i \in 1..Cardinality(G) : f[i] = s
            BY <2>1, Numbering DEF G
        <3>2. g[k] = Cardinality(G) BY <2>2 DEF G
        <3> HIDE DEF Group
        <3> QED BY <3>1, <3>2 DEF G
    <2>4. \E f : f \in Numbers(k) BY <2>3
    <2> HIDE DEF Numbers
    <2> QED BY <2>4
<1>2. ASSUME NEW x \in F
      PROVE  /\ slot[x] = <<key[x], slot[x][2]>> /\ key[x] \in S
             /\ slot[x][2] \in 1..g[key[x]] /\ number[key[x]][slot[x][2]] = x
    <2>1. key[x] \in S /\ x \in Group(key[x]) OBVIOUS
    <2>2. number[key[x]] \in Numbers(key[x]) BY <1>1, <2>1
    <2>3. \E i \in 1..g[key[x]] : number[key[x]][i] = x BY <2>1, <2>2
    <2> HIDE DEF number
    <2> QED BY <2>1, <2>3
<1>3. \A d : d \in D <=> \E k \in S : \E i \in 1..g[k] : d = <<k, i>>
    OBVIOUS
<1>4. slot \in [F -> D]
    <2>1. ASSUME NEW x \in F PROVE slot[x] \in D
        BY <1>2, <1>3
    <2> HIDE DEF number, D
    <2> QED BY <2>1
<1>5. \A x, y \in F : slot[x] = slot[y] => x = y
    <2> HIDE DEF slot, number
    <2> QED BY <1>2
<1>6. \A d \in D : \E x \in F : slot[x] = d
    <2> SUFFICES ASSUME NEW d \in D PROVE \E x \in F : slot[x] = d
        OBVIOUS
    <2>1. PICK k \in S : \E i \in 1..g[k] : d = <<k, i>>
        <3> HIDE DEF D
        <3> QED BY <1>3
    <2> PICK i \in 1..g[k] : d = <<k, i>>
        BY <2>1
    <2> DEFINE x == number[k][i]
    <2>2. number[k] \in Numbers(k) BY <1>1
    <2>3. x \in F /\ key[x] = k
        <3>1. number[k] \in [1..g[k] -> Group(k)] BY <2>2
        <3>2. x \in Group(k) BY <3>1
        <3> QED BY <3>2
    <2>4. slot[x][2] \in 1..g[k] /\ number[k][slot[x][2]] = x /\ slot[x] = <<k, slot[x][2]>>
        BY <2>3, <1>2
    <2>5. slot[x][2] = i
        <3> HIDE DEF slot
        <3> QED BY <2>2, <2>4
    <2> QED BY <2>3, <2>4, <2>5
<1> HIDE DEF D, slot
<1>7. Cardinality(D) = Cardinality(F)
    BY <1>4, <1>5, <1>6, SameSize
<1> QED BY <1>7 DEF SumOf, D

\* A finite set has parts of every size up to its own, around any part of it.
LEMMA PartOfSize ==
    ASSUME NEW B, IsFiniteSet(B), NEW A \in SUBSET B, NEW n \in Nat,
           Cardinality(A) <= n, n <= Cardinality(B)
    PROVE  \E T \in SUBSET B : A \subseteq T /\ Cardinality(T) = n
<1> DEFINE R == B \ A
           m == n - Cardinality(A)
<1>1. IsFiniteSet(A) /\ Cardinality(A) \in Nat /\ Cardinality(B) \in Nat
    BY FS_Subset, FS_CardinalityType
<1>2. IsFiniteSet(R) /\ Cardinality(R) = Cardinality(B) - Cardinality(A)
    <2>1. A \cap B = A /\ B \cap A = A OBVIOUS
    <2> QED BY <2>1, FS_Difference
<1>3. m \in Nat /\ m <= Cardinality(R)
    BY <1>1, <1>2
<1> HIDE DEF R, m
<1>4. PICK f \in [1..Cardinality(R) -> R] :
                \A i, j \in 1..Cardinality(R) : f[i] = f[j] => i = j
    BY <1>2, Numbering
<1> DEFINE T == {f[i] : i \in 1..m}
           h == [i \in 1..m |-> f[i]]
<1>5. \A i \in 1..m : i \in 1..Cardinality(R)
    BY <1>1, <1>2, <1>3
<1>6. IsFiniteSet(T) /\ Cardinality(T) = m
    <2>1. IsFiniteSet(1..m) /\ Cardinality(1..m) = m
        BY <1>3, FS_Interval
    <2>2. h \in [1..m -> T] OBVIOUS
    <2>3. \A i, j \in 1..m : h[i] = h[j] => i = j BY <1>4, <1>5
    <2>4. \A t \in T : \E i \in 1..m : h[i] = t OBVIOUS
    <2> HIDE DEF T, h
    <2>5. IsFiniteSet(T) /\ Cardinality(T) = Cardinality(1..m)
        BY <2>1, <2>2, <2>3, <2>4, SameSize
    <2> QED BY <2>1, <2>5
<1>7. T \subseteq R BY <1>4, <1>5
<1> HIDE DEF T
<1>8. A \cap T = {} /\ A \cup T \subseteq B
    BY <1>7 DEF R
<1>9. Cardinality(A \cup T) = Cardinality(A) + m
    <2>1. Cardinality(A \cup T) = Cardinality(A) + Cardinality(T) - Cardinality(A \cap T)
        BY <1>1, <1>6, FS_Union
    <2>2. Cardinality(A \cap T) = 0 BY <1>8, FS_EmptySet
    <2> QED BY <1>1, <1>3, <1>6, <2>1, <2>2
<1> QED BY <1>1, <1>8, <1>9 DEF m

\* Pages of P rows start P apart, and every row is on one of them.
LEMMA PagesApart ==
    ASSUME NEW P \in Nat \ {0}
    PROVE  /\ \A n \in Nat : n * P \in Nat /\ (n + 1) * P = n * P + P /\ n <= n * P
           /\ \A m, n \in Nat : m < n => m * P + P <= n * P
           /\ \A r \in Nat : \E n \in Nat : n * P <= r /\ r < n * P + P
<1>1. \A n \in Nat : n * P \in Nat /\ (n + 1) * P = n * P + P
    OBVIOUS
<1>2. ASSUME NEW m \in Nat, NEW n \in Nat, m < n PROVE m * P + P <= n * P
    <2>1. n - m - 1 \in Nat BY <1>2
    <2>2. (n - m - 1) * P \in Nat BY <2>1
    <2>3. n * P = m * P + P + (n - m - 1) * P BY <1>2
    <2>4. m * P \in Nat /\ n * P \in Nat OBVIOUS
    <2> QED BY <2>2, <2>3, <2>4
<1>3. ASSUME NEW n \in Nat PROVE n <= n * P
    <2>1. n * (P - 1) \in Nat OBVIOUS
    <2>2. n * P = n + n * (P - 1) OBVIOUS
    <2> QED BY <2>1, <2>2
<1>4. ASSUME NEW r \in Nat PROVE \E n \in Nat : n * P <= r /\ r < n * P + P
    <2>1. P * (r \div P) <= r /\ r < P * (r \div P) + P
        OBVIOUS
    <2>2. r \div P \in Int /\ r \div P >= 0
        OBVIOUS
    <2> DEFINE n == r \div P
    <2> HIDE DEF n
    <2>3. n \in Nat /\ P * n = n * P /\ P * n <= r /\ r < P * n + P
        BY <2>1, <2>2 DEF n
    <2> QED BY <2>3
<1> QED BY <1>1, <1>2, <1>3, <1>4

-----------------------------------------------------------------------------
(* The tables.                                                             *)

\* What is in the tables was put there, and an edge after both its ends.
TablesFilled ==
    /\ IsFiniteSet(Rows) /\ IsFiniteSet(Known)
    /\ \A x \in edges : x[1] \in Known /\ x[2] \in Known

\* Of two entities one was last seen when the other was, or later.
SeenInOrder ==
    /\ \A a, b \in Known : a \in seen[b] \/ b \in seen[a]
    /\ \A a, b, c \in Known : a \in seen[b] /\ b \in seen[c] => a \in seen[c]

PostureInv == PostureTypeOK /\ TablesFilled /\ SeenInOrder

\* Seeing some entities leaves the order of the others as it was.
LEMMA SeenNowOrdered ==
    ASSUME PostureInv, NEW es \in SUBSET Entity, IsFiniteSet(es), seen' = SeenNow(es)
    PROVE  /\ Known' = Known \cup es /\ IsFiniteSet(Known')
           /\ Known' \subseteq Entity /\ seen' \in [Known' -> SUBSET Known']
           /\ SeenInOrder'
<1>1. Known' = Known \cup es
    BY DEF SeenNow, Known
<1>2. IsFiniteSet(Known')
    BY <1>1, FS_Union DEF PostureInv, TablesFilled
<1>3. \A e \in Known' : seen'[e] = IF e \in es THEN es ELSE seen[e] \cup es
    BY <1>1 DEF SeenNow, Known
<1>4. seen \in [Known -> SUBSET Known] /\ Known \subseteq Entity
    BY DEF PostureInv, PostureTypeOK
<1>5. seen' \in [Known' -> SUBSET Known']
    BY <1>1, <1>4 DEF SeenNow
<1>6. SeenInOrder'
    <2>1. \A a, b \in Known' : a \in seen'[b] \/ b \in seen'[a]
        <3> SUFFICES ASSUME NEW a \in Known', NEW b \in Known', a \notin seen'[b]
                     PROVE  b \in seen'[a]
            OBVIOUS
        <3>1. a \notin es BY <1>3
        <3>2. CASE b \in es BY <1>3, <3>1, <3>2
        <3>3. CASE b \notin es
            <4>1. a \in Known /\ b \in Known BY <1>1, <3>1, <3>3
            <4>2. seen'[a] = seen[a] \cup es /\ seen'[b] = seen[b] \cup es
                BY <1>3, <3>1, <3>3
            <4>3. a \in seen[b] \/ b \in seen[a]
                BY <4>1 DEF PostureInv, SeenInOrder
            <4> QED BY <4>2, <4>3
        <3> QED BY <3>2, <3>3
    <2>2. ASSUME NEW a \in Known', NEW b \in Known', NEW c \in Known',
                 a \in seen'[b], b \in seen'[c]
          PROVE  a \in seen'[c]
        <3>1. CASE a \in es BY <1>3, <3>1
        <3>2. CASE a \notin es
            <4>1. b \notin es /\ a \in seen[b] BY <1>3, <2>2, <3>2
            <4>2. c \notin es /\ b \in seen[c] BY <1>3, <2>2, <4>1
            <4> QED BY <1>1, <1>3, <3>2, <4>1, <4>2 DEF PostureInv, SeenInOrder
        <3> QED BY <3>1, <3>2
    <2> QED BY <2>1, <2>2 DEF SeenInOrder
<1> QED BY <1>1, <1>2, <1>4, <1>5, <1>6

\* The empty tables.
LEMMA PostureInitInv == PostureInit => PostureInv
BY FS_EmptySet DEF PostureInit, PostureInv, PostureTypeOK, TablesFilled, SeenInOrder, Rows, Known

\* A committed finding adds a row or changes one.
LEMMA UpsertFindingInv ==
    ASSUME PostureInv, NEW f \in Finding, UpsertFinding(f)
    PROVE  PostureInv'
<1>1. PICK s \in Severity, st \in FindingStatus :
        row' = [g \in Rows \cup {f} |->
                    IF g = f THEN [severity |-> s, status |-> st] ELSE row[g]]
    BY DEF UpsertFinding
<1>2. edges' = edges /\ seen' = seen /\ risk' = risk
    BY DEF UpsertFinding
<1>3. Rows' = Rows \cup {f}
    BY <1>1 DEF Rows
<1>4. IsFiniteSet(Rows')
    BY <1>3, FS_AddElement DEF PostureInv, TablesFilled
<1>5. \A g \in Rows' : row'[g] \in [severity : Severity, status : FindingStatus]
    BY <1>1, <1>3 DEF PostureInv, PostureTypeOK
<1> QED BY <1>2, <1>3, <1>4, <1>5 DEF PostureInv, PostureTypeOK, TablesFilled, SeenInOrder, Known

\* Entities are seen, with or without an edge between two of them.
LEMMA GraphNextInv ==
    ASSUME PostureInv, GraphNext
    PROVE  PostureInv'
<1>1. ASSUME NEW es \in SUBSET Entity, IsFiniteSet(es), UpsertEntities(es)
      PROVE  PostureInv'
    <2>1. seen' = SeenNow(es) /\ row' = row /\ edges' = edges /\ risk' = risk
        BY <1>1 DEF UpsertEntities
    <2>2. /\ Known' = Known \cup es /\ IsFiniteSet(Known')
          /\ Known' \subseteq Entity /\ seen' \in [Known' -> SUBSET Known']
          /\ SeenInOrder'
        BY <1>1, <2>1, SeenNowOrdered
    <2> QED BY <2>1, <2>2 DEF PostureInv, PostureTypeOK, TablesFilled, Rows
<1>2. ASSUME NEW a \in Entity, NEW b \in Entity, UpsertEdge(a, b)
      PROVE  PostureInv'
    <2>1. seen' = SeenNow({a, b}) /\ row' = row /\ edges' = edges \cup {<<a, b>>} /\ risk' = risk
        BY <1>2 DEF UpsertEdge
    <2>2. IsFiniteSet({a, b})
        <3>1. IsFiniteSet({a}) BY FS_Singleton
        <3>2. IsFiniteSet({a} \cup {b}) BY <3>1, FS_AddElement
        <3>3. {a, b} = {a} \cup {b} OBVIOUS
        <3> QED BY <3>2, <3>3
    <2>3. /\ Known' = Known \cup {a, b} /\ IsFiniteSet(Known')
          /\ Known' \subseteq Entity /\ seen' \in [Known' -> SUBSET Known']
          /\ SeenInOrder'
        BY <2>1, <2>2, SeenNowOrdered
    <2>4. TablesFilled'
        BY <2>1, <2>3 DEF PostureInv, TablesFilled, Rows
    <2>5. PostureTypeOK'
        <3>1. edges' \subseteq Entity \X Entity
            BY <2>1 DEF PostureInv, PostureTypeOK
        <3>2. Rows' = Rows /\ row' = row /\ risk' = risk
            BY <2>1 DEF Rows
        <3> QED BY <2>3, <3>1, <3>2 DEF PostureInv, PostureTypeOK
    <2> QED BY <2>3, <2>4, <2>5 DEF PostureInv
<1> QED BY <1>1, <1>2 DEF GraphNext

\* A risk is entered once and then moves between its states.
LEMMA RisksNextInv ==
    ASSUME PostureInv, RisksNext
    PROVE  PostureInv'
<1>1. PICK r \in Risk : CreateRisk(r) \/ UpdateRisk(r)
    BY DEF RisksNext
<1>2. row' = row /\ edges' = edges /\ seen' = seen
    BY <1>1 DEF CreateRisk, UpdateRisk
<1>3. \A q \in DOMAIN risk' : risk'[q] \in [severity : Severity, status : RiskStatus]
    <2>1. CASE CreateRisk(r)
        BY <2>1 DEF CreateRisk, PostureInv, PostureTypeOK, RiskStatus
    <2>2. CASE UpdateRisk(r)
        BY <2>2 DEF UpdateRisk, PostureInv, PostureTypeOK
    <2> QED BY <1>1, <2>1, <2>2
<1> QED BY <1>2, <1>3 DEF PostureInv, PostureTypeOK, TablesFilled, SeenInOrder, Rows, Known

\* The tables are sound whatever is committed, in whatever order.
LEMMA PostureInvAlways == PostureSpec => []PostureInv
<1>1. ASSUME PostureInv, [FindingsNext \/ GraphNext \/ RisksNext]_postureVars
      PROVE  PostureInv'
    <2>1. CASE FindingsNext BY <1>1, <2>1, UpsertFindingInv DEF FindingsNext
    <2>2. CASE GraphNext BY <1>1, <2>2, GraphNextInv
    <2>3. CASE RisksNext BY <1>1, <2>3, RisksNextInv
    <2>4. CASE UNCHANGED postureVars
        BY <1>1, <2>4 DEF postureVars, PostureInv, PostureTypeOK, TablesFilled, SeenInOrder,
              Rows, Known
    <2> QED BY <1>1, <2>1, <2>2, <2>3, <2>4
<1> QED BY <1>1, PostureInitInv, PTL DEF PostureSpec

\* The tables hold rows of known findings, edges between entities and risks.
THEOREM PostureTypeCorrect == PostureSpec => []PostureTypeOK
<1>1. PostureInv => PostureTypeOK BY DEF PostureInv
<1> QED BY <1>1, PostureInvAlways, PTL

-----------------------------------------------------------------------------
(* The views.                                                              *)

\* Severities are told apart by their ranks, and some of them rank first.
LEMMA Ranks ==
    /\ \A s \in Severity : Rank(s) \in Nat
    /\ \A s, t \in Severity : Rank(s) <= Rank(t) /\ Rank(t) <= Rank(s) => s = t
    /\ \A S \in SUBSET Severity : S # {} => \E s \in S : \A t \in S : Rank(s) <= Rank(t)
<1>1. Rank("critical") = 1 /\ Rank("high") = 2 /\ Rank("low") = 4
    BY DEF Rank
<1>2. \A s \in Severity : s = "critical" \/ s = "high" \/ s = "low"
    BY DEF Severity
<1>3. ASSUME NEW S \in SUBSET Severity, S # {}
      PROVE  \E s \in S : \A t \in S : Rank(s) <= Rank(t)
    <2>1. CASE "critical" \in S BY <1>1, <1>2, <2>1
    <2>2. CASE "critical" \notin S /\ "high" \in S BY <1>1, <1>2, <2>2
    <2>3. CASE "critical" \notin S /\ "high" \notin S BY <1>1, <1>2, <1>3, <2>3
    <2> QED BY <2>1, <2>2, <2>3
<1>4. \A s, t \in Severity : Rank(s) <= Rank(t) /\ Rank(t) <= Rank(s) => s = t
    BY <1>1, <1>2
<1> QED BY <1>1, <1>2, <1>3, <1>4

\* The chat lists the risks the register lists, a worst one first.
LEMMA RisksAgreeNow == PostureInv => RisksAgree
<1> SUFFICES ASSUME PostureInv,
                    NEW st \in RiskStatus \cup {"any"}, NEW s \in Severity \cup {"any"}
             PROVE  /\ ChatRisks(st, s) = ListRisks(st, s)
                    /\ \A t \in Severity : (ListRisks(st, t) # {} /\ s = "any") =>
                        \A r \in FirstCards(RiskCards(ChatRisks(st, s))) :
                            Rank(risk[r].severity) <= Rank(t)
    BY DEF RisksAgree
<1>1. ChatRisks(st, s) = ListRisks(st, s)
    BY DEF ChatRisks, ListRisks
<1>2. ASSUME NEW t \in Severity, ListRisks(st, t) # {}, s = "any",
             NEW r \in FirstCards(RiskCards(ChatRisks(st, s)))
      PROVE  Rank(risk[r].severity) <= Rank(t)
    <2>1. PICK q \in ListRisks(st, t) : TRUE BY <1>2
    <2>2. q \in ChatRisks(st, s) /\ risk[q].severity = t
        BY <1>2, <2>1 DEF ListRisks, ChatRisks, Severity
    <2>3. /\ r \in ChatRisks(st, s)
          /\ \A p \in ChatRisks(st, s) : Rank(risk[r].severity) <= Rank(risk[p].severity)
        BY DEF FirstCards, RiskCards
    <2> QED BY <2>2, <2>3
<1> QED BY <1>1, <1>2

\* A score of a framework is computed from the same three sets of controls.
LEMMA ScoresAgreeNow == PostureInv => ScoresAgree
<1> SUFFICES ASSUME PostureInv PROVE ScoresAgree
    OBVIOUS
<1> USE PostureAssumption
<1>1. \A f \in Rows : f.tags \subseteq Framework \X Control
    BY DEF PostureInv, PostureTypeOK
<1> DEFINE tags == UNION {f.tags : f \in Rows}
           Frameworks == {t[1] : t \in tags}
           Controls(fw) == {c \in Control : \E f \in Rows : <<fw, c>> \in f.tags}
           With(fw, st) == {c \in Control : TaggedRows(fw, c, st) # {}}
           Score(fw) == Scores(Controls(fw), With(fw, "fail"), With(fw, "pass"))
<1>2. ComplianceSummary = [fw \in Frameworks |-> Score(fw)]
    BY DEF ComplianceSummary
<1>3. \A t \in tags : t = <<t[1], t[2]>> /\ t[1] \in Framework /\ t[2] \in Control
    BY <1>1
<1>4. ASSUME NEW fw
      PROVE  {t[2] : t \in {u \in tags : u[1] = fw}} = Controls(fw)
    <2>1. ASSUME NEW t \in tags, t[1] = fw PROVE t[2] \in Controls(fw)
        <3>1. PICK f \in Rows : t \in f.tags OBVIOUS
        <3>2. t = <<fw, t[2]>> /\ t[2] \in Control BY <1>3, <2>1
        <3> QED BY <3>1, <3>2
    <2>2. ASSUME NEW c \in Controls(fw)
          PROVE  \E t \in tags : t[1] = fw /\ t[2] = c
        <3>1. PICK f \in Rows : <<fw, c>> \in f.tags OBVIOUS
        <3> QED BY <3>1
    <2> HIDE DEF tags, Controls
    <2> QED BY <2>1, <2>2
<1>5. ASSUME NEW fw
      PROVE  /\ {c \in Control : \E f \in TaggedRows(fw, c, "fail") : TRUE} = With(fw, "fail")
             /\ {c \in Control : \E f \in TaggedRows(fw, c, "pass") : TRUE} = With(fw, "pass")
    OBVIOUS
<1>6. ChatCompliance = [fw \in Frameworks |-> Score(fw)]
    <2> HIDE DEF With, Controls
    <2> QED BY <1>4, <1>5 DEF ChatCompliance
<1>7. {g \in Framework : \E f \in Rows : \E t \in f.tags : t[1] = g} = Frameworks
    <2>1. ASSUME NEW t \in tags PROVE \E f \in Rows : t \in f.tags /\ t[1] \in Framework
        BY <1>3
    <2> QED BY <2>1
<1>8. ASSUME NEW fw, NEW st
      PROVE  {c \in Control : \E f \in Rows : <<fw, c>> \in f.tags /\ row[f].status = st}
                = With(fw, st)
    BY DEF TaggedRows
<1>9. TrustCompliance = [fw \in Frameworks |-> Score(fw)]
    <2> HIDE DEF With, Frameworks
    <2> QED BY <1>7, <1>8 DEF TrustCompliance
<1>10. ASSUME NEW fw \in Frameworks
       PROVE  Score(fw).failing > 0 <=> Total([All({}) EXCEPT !.framework = fw]) > 0
    <2> DEFINE q == [All({}) EXCEPT !.framework = fw]
    <2>1. fw \in Framework /\ fw # AnyFramework
        BY <1>3
    <2>2. Score(fw).failing = Cardinality(With(fw, "fail"))
        BY DEF Scores
    <2>3. IsFiniteSet(With(fw, "fail"))
        BY FS_Subset
    <2>4. ListFindings(q) = {f \in Rows : /\ row[f].status = "fail"
                                          /\ \E c \in Control : <<fw, c>> \in f.tags}
        BY <2>1 DEF All, Normal, ListFindings, PostureInv, PostureTypeOK
    <2>5. IsFiniteSet(ListFindings(q))
        <3>1. ListFindings(q) \in SUBSET Rows BY <2>4
        <3> QED BY <3>1, FS_Subset DEF PostureInv, TablesFilled
    <2>6. With(fw, "fail") # {} <=> ListFindings(q) # {}
        <3> HIDE DEF q
        <3> QED BY <2>4 DEF TaggedRows
    <2> HIDE DEF With, q, Score
    <2>7. \A S : IsFiniteSet(S) => (Cardinality(S) > 0 <=> S # {})
        BY FS_EmptySet, FS_CardinalityType
    <2> QED BY <2>2, <2>3, <2>5, <2>6, <2>7 DEF Total, q
<1> HIDE DEF Score, Frameworks
<1> QED BY <1>2, <1>6, <1>9, <1>10 DEF ScoresAgree

\* What one of the lists holds is finite, and its number a natural one.
LEMMA RowsCounted ==
    ASSUME PostureInv, NEW S \in SUBSET Rows
    PROVE  IsFiniteSet(S) /\ Cardinality(S) \in Nat
BY FS_Subset, FS_CardinalityType DEF PostureInv, TablesFilled

\* Every row has a cloud or is of code, a severity and a status.
LEMMA RowFields ==
    ASSUME PostureInv, NEW f \in Rows
    PROVE  /\ f \in Finding /\ f.conn \in Cloud \cup {NoConn}
           /\ row[f].severity \in Severity /\ row[f].status \in FindingStatus
BY PostureAssumption DEF PostureInv, PostureTypeOK

\* The rows behind a query: what is left empty filters nothing but "fail".
LEMMA RowsAsked ==
    ASSUME PostureInv, NEW ss \in SUBSET Severity, NEW st \in SUBSET FindingStatus,
           NEW c, NEW fw, NEW q,
           q = [severities |-> ss, statuses |-> st, cloud |-> c, framework |-> fw]
    PROVE  /\ RollupRows(q) =
                {f \in Rows : /\ ss # {} => row[f].severity \in ss
                              /\ row[f].status \in IF st = {} THEN {"fail"} ELSE st
                              /\ c # AnyCloud => f.conn = c}
           /\ ListFindings(q) =
                {f \in RollupRows(q) :
                    fw # AnyFramework => \E k \in Control : <<fw, k>> \in f.tags}
<1> DEFINE n == Normal(q)
<1>1. /\ n.severities = IF ss = {} THEN Severity ELSE ss
      /\ n.statuses = IF st = {} THEN {"fail"} ELSE st
      /\ n.cloud = c /\ n.framework = fw
    BY DEF Normal
<1> HIDE DEF n
<1>2. \A f \in Rows : row[f].severity \in Severity
    BY RowFields
<1>3. RollupRows(q) =
                {f \in Rows : /\ ss # {} => row[f].severity \in ss
                              /\ row[f].status \in IF st = {} THEN {"fail"} ELSE st
                              /\ c # AnyCloud => f.conn = c}
    BY <1>1, <1>2 DEF RollupRows, n
<1>4. ListFindings(q) = {f \in RollupRows(q) :
                    fw # AnyFramework => \E k \in Control : <<fw, k>> \in f.tags}
    BY <1>1 DEF ListFindings, RollupRows, n
<1> QED BY <1>3, <1>4

\* The AI page counts, per framework, what the findings page lists under it; a
\* source or a person has no more than there is.
LEMMA AiAgreesNow == PostureInv => AiAgrees
<1> SUFFICES ASSUME PostureInv PROVE AiAgrees
    OBVIOUS
<1> DEFINE Ai == {f \in Rows : AiTouching(f)}
           AiWith(st) == {f \in Rows : AiTouching(f) /\ row[f].status = st}
<1>1. ASSUME NEW fw \in AiFramework, NEW st \in FindingStatus
      PROVE  /\ AiByFramework(fw, st) = Total([All({st}) EXCEPT !.framework = fw])
             /\ AiByFramework(fw, st) <= AiScore(st)
    <2> DEFINE q == [All({st}) EXCEPT !.framework = fw]
               listed == {f \in Rows : /\ \E c \in Control : <<fw, c>> \in f.tags
                                       /\ row[f].status = st /\ AiTouching(f)}
    <2>1. fw # AnyFramework BY PostureAssumption
    <2>2. q = [severities |-> {}, statuses |-> {st}, cloud |-> AnyCloud, framework |-> fw]
        BY DEF All
    <2>3. ListFindings(q) = {f \in Rows : /\ row[f].status = st
                                          /\ \E c \in Control : <<fw, c>> \in f.tags}
        <3> HIDE DEF q
        <3> QED BY <2>1, <2>2, RowsAsked
    <2>4. \A f \in Rows : (\E c \in Control : <<fw, c>> \in f.tags) => AiTouching(f)
        BY DEF AiTouching
    <2>5. ListFindings(q) = listed
        <3> HIDE DEF q
        <3> QED BY <2>3, <2>4
    <2>6. listed \in SUBSET AiWith(st) /\ IsFiniteSet(AiWith(st))
        BY RowsCounted
    <2> HIDE DEF listed, q, AiWith
    <2>7. Cardinality(listed) <= Cardinality(AiWith(st))
        BY <2>6, FS_Subset
    <2> QED BY <2>5, <2>7 DEF AiByFramework, AiScore, Total, listed, q, AiWith
<1>2. IsFiniteSet(Ai)
    BY RowsCounted
<1>3. SumOf([src \in Cloud \cup {"code"} |-> AiBySource(src)]) = Cardinality(Ai)
    <2> DEFINE source == [f \in Ai |-> IF f.conn = NoConn THEN "code" ELSE f.conn]
               count == [src \in Cloud \cup {"code"} |-> AiBySource(src)]
    <2>1. source \in [Ai -> Cloud \cup {"code"}]
        BY RowFields
    <2>2. ASSUME NEW src \in Cloud \cup {"code"}
          PROVE  /\ count[src] = Cardinality({f \in Ai : source[f] = src})
                 /\ count[src] \in Nat
        <3>1. {f \in Ai : source[f] = src}
                = {f \in Rows : /\ AiTouching(f)
                                /\ src = IF f.conn = NoConn THEN "code" ELSE f.conn}
            OBVIOUS
        <3>2. Cardinality({f \in Ai : source[f] = src}) \in Nat
            BY RowsCounted
        <3> QED BY <3>1, <3>2 DEF AiBySource
    <2>3. count \in [Cloud \cup {"code"} -> Nat]
        BY <2>2
    <2> HIDE DEF source, count, Ai
    <2>4. SumOf(count) = Cardinality(Ai)
        BY <1>2, <2>1, <2>2, <2>3, GroupsAddUp
    <2> QED BY <2>4 DEF count
<1>4. SumOf([st \in FindingStatus |-> AiScore(st)]) = Cardinality(Ai)
    <2> DEFINE status == [f \in Ai |-> row[f].status]
               count == [st \in FindingStatus |-> AiScore(st)]
    <2>1. status \in [Ai -> FindingStatus]
        BY RowFields
    <2>2. ASSUME NEW st \in FindingStatus
          PROVE  /\ count[st] = Cardinality({f \in Ai : status[f] = st})
                 /\ count[st] \in Nat
        <3>1. {f \in Ai : status[f] = st} = {f \in Rows : AiTouching(f) /\ row[f].status = st}
            OBVIOUS
        <3>2. Cardinality({f \in Ai : status[f] = st}) \in Nat
            BY RowsCounted
        <3> QED BY <3>1, <3>2 DEF AiScore
    <2>3. count \in [FindingStatus -> Nat]
        BY <2>2
    <2> HIDE DEF status, count, Ai
    <2>4. SumOf(count) = Cardinality(Ai)
        BY <1>2, <2>1, <2>2, <2>3, GroupsAddUp
    <2> QED BY <2>4 DEF count
<1>5. ASSUME NEW st \in Actionable
      PROVE  SumOf([p \in DOMAIN AiPeople |-> AiPeople[p][st]]) <= AiScore(st)
    <2> DEFINE P == DOMAIN AiPeople
               Theirs == {f \in Rows : f.person \in P /\ AiTouching(f) /\ row[f].status = st}
               person == [f \in Theirs |-> f.person]
               count == [p \in P |-> AiPeople[p][st]]
    <2>1. person \in [Theirs -> P]
        <3> HIDE DEF P
        <3> QED OBVIOUS
    <2>2. ASSUME NEW p \in P
          PROVE  /\ count[p] = Cardinality({f \in Theirs : person[f] = p})
                 /\ count[p] \in Nat
        <3>1. count[p] = Cardinality({f \in Rows : f.person = p /\ AiTouching(f)
                                                   /\ row[f].status = st})
            BY DEF AiPeople
        <3>2. {f \in Theirs : person[f] = p}
                = {f \in Rows : f.person = p /\ AiTouching(f) /\ row[f].status = st}
            <4> HIDE DEF P
            <4> QED OBVIOUS
        <3>3. Cardinality({f \in Rows : f.person = p /\ AiTouching(f) /\ row[f].status = st})
                \in Nat
            BY RowsCounted
        <3> QED BY <3>1, <3>2, <3>3
    <2>3. count \in [P -> Nat]
        <3> HIDE DEF P
        <3> QED BY <2>2
    <2>4. Theirs \in SUBSET AiWith(st) /\ IsFiniteSet(Theirs) /\ IsFiniteSet(AiWith(st))
        <3> HIDE DEF P
        <3> QED BY RowsCounted
    <2> HIDE DEF person, count, Theirs, P, AiWith
    <2>5. SumOf(count) = Cardinality(Theirs)
        BY <2>1, <2>2, <2>3, <2>4, GroupsAddUp
    <2>6. Cardinality(Theirs) <= Cardinality(AiWith(st))
        BY <2>4, FS_Subset
    <2> QED BY <2>5, <2>6 DEF AiScore, count, P, AiWith
<1> QED BY <1>1, <1>3, <1>4, <1>5 DEF AiAgrees

\* However many rows are found, there is a page of the worst of them; when they
\* are few enough it holds them all.
LEMMA PagesOfRows ==
    ASSUME PostureInv, NEW found \in SUBSET Rows, NEW limit \in Nat
    PROVE  /\ \E p : p \in Pages(found, limit)
           /\ Cardinality(found) <= limit => \A p \in Pages(found, limit) : p = found
<1> DEFINE n == IF Cardinality(found) < limit THEN Cardinality(found) ELSE limit
           UpTo(r) == {f \in found : Rank(row[f].severity) <= r}
<1>1. IsFiniteSet(found) /\ Cardinality(found) \in Nat /\ n \in Nat /\ n <= Cardinality(found)
    BY RowsCounted
<1>2. \A f \in found : Rank(row[f].severity) \in {1, 2, 4}
    <2>1. \A s \in Severity : Rank(s) \in {1, 2, 4} BY DEF Severity, Rank
    <2> QED BY <2>1, RowFields
<1>3. ASSUME NEW a \in {0, 1, 2}, NEW b \in {1, 2, 4},
             \A r \in {1, 2, 4} : r > a => r >= b, a <= b,
             Cardinality(UpTo(a)) <= n, n <= Cardinality(UpTo(b))
      PROVE  \E p : p \in Pages(found, limit)
    <2> DEFINE A == UpTo(a)  B == UpTo(b)
    <2>1. A \in SUBSET B
        <3>1. ASSUME NEW f \in A PROVE f \in B
            <4>1. f \in found /\ Rank(row[f].severity) <= a /\ Rank(row[f].severity) \in Nat
                BY <1>2
            <4> QED BY <1>3, <4>1
        <3> QED BY <3>1
    <2>2. IsFiniteSet(B) BY <1>1, FS_Subset
    <2>3. /\ B \in SUBSET found
          /\ \A f \in B : Rank(row[f].severity) <= b
          /\ \A f \in found \ A : Rank(row[f].severity) >= b
        <3>1. ASSUME NEW f \in found \ A PROVE Rank(row[f].severity) >= b
            <4>1. Rank(row[f].severity) \in {1, 2, 4} /\ ~(Rank(row[f].severity) <= a)
                BY <1>2
            <4> QED BY <1>3, <4>1
        <3> QED BY <3>1
    <2>4. Cardinality(A) <= n /\ n <= Cardinality(B) BY <1>3
    <2> HIDE DEF A, B, n
    <2>5. PICK p \in SUBSET B : A \subseteq p /\ Cardinality(p) = n
        BY <1>1, <2>1, <2>2, <2>4, PartOfSize
    <2>6. ASSUME NEW f \in p, NEW g \in found \ p
          PROVE  Rank(row[f].severity) <= Rank(row[g].severity)
        <3>1. Rank(row[f].severity) <= b /\ Rank(row[g].severity) >= b
            BY <2>3, <2>5
        <3>2. Rank(row[f].severity) \in Nat /\ Rank(row[g].severity) \in Nat
            BY <1>2, <2>3
        <3> QED BY <3>1, <3>2
    <2>7. p \in SUBSET found BY <2>3
    <2> QED BY <2>5, <2>6, <2>7 DEF Pages, n
<1>4. Cardinality(UpTo(0)) = 0
    <2>1. UpTo(0) = {} BY <1>2
    <2> QED BY <2>1, FS_EmptySet
<1>5. UpTo(4) = found
    BY <1>2
<1>6. Cardinality(UpTo(1)) \in Nat /\ Cardinality(UpTo(2)) \in Nat
    BY RowsCounted
<1>7. \E p : p \in Pages(found, limit)
    <2> HIDE DEF UpTo, n
    <2>1. CASE n <= Cardinality(UpTo(1)) BY <1>1, <1>3, <1>4, <2>1
    <2>2. CASE Cardinality(UpTo(1)) <= n /\ n <= Cardinality(UpTo(2)) BY <1>3, <2>2
    <2>3. CASE Cardinality(UpTo(2)) <= n
        BY <1>1, <1>3, <1>5, <2>3
    <2> QED BY <1>1, <1>6, <2>1, <2>2, <2>3
<1>8. ASSUME Cardinality(found) <= limit, NEW p \in Pages(found, limit) PROVE p = found
    <2>1. p \in SUBSET found /\ Cardinality(p) = Cardinality(found)
        BY <1>1, <1>8 DEF Pages
    <2> QED BY <1>1, <2>1, FS_Subset
<1> QED BY <1>7, <1>8

\* Asked for an open finding, the agent shows that one.
LEMMA AskedIsShownNow == PostureInv => AskedIsShown
<1> DEFINE open == QueryFindings("", "", "")
<1> SUFFICES ASSUME PostureInv, Cardinality(open) <= BROAD_PAGE, NEW f \in open
             PROVE  GetFinding(f) = {f}
    BY DEF AskedIsShown
<1>1. open \in SUBSET Rows /\ BROAD_PAGE \in Nat
    BY PostureAssumption DEF QueryFindings
<1>2. \A broad \in Pages(open, BROAD_PAGE) : f \in broad
    BY <1>1, PagesOfRows
<1>3. PICK broad : broad \in Pages(open, BROAD_PAGE)
    BY <1>1, PagesOfRows
<1> QED BY <1>2, <1>3 DEF GetFinding

\* The groups of the risks page hold each row once, under its worst severity.
LEMMA GroupsHoldTheRows ==
    ASSUME PostureInv, NEW ss \in SUBSET Severity, NEW st \in SUBSET FindingStatus,
           NEW c \in Cloud \cup {AnyCloud}, NEW q,
           q = [severities |-> ss, statuses |-> st, cloud |-> c, framework |-> AnyFramework]
    PROVE  /\ SumOf([k \in DOMAIN Rollup(q) |-> Rollup(q)[k].count]) = Total(q)
           /\ \A f \in ListFindings(q) :
                Rank(Rollup(q)[<<f.domain, f.check>>].severity) <= Rank(row[f].severity)
<1> DEFINE F == RollupRows(q)
           K == GroupKeys(q)
           Members(k) == {f \in F : <<f.domain, f.check>> = k}
           Severities(k) == {row[f].severity : f \in Members(k)}
           key == [f \in F |-> <<f.domain, f.check>>]
           count == [k \in DOMAIN Rollup(q) |-> Rollup(q)[k].count]
<1>1. F \in SUBSET Rows /\ ListFindings(q) = F
    <2>1. F = {f \in Rows : /\ ss # {} => row[f].severity \in ss
                            /\ row[f].status \in IF st = {} THEN {"fail"} ELSE st
                            /\ c # AnyCloud => f.conn = c}
        BY RowsAsked
    <2>2. ListFindings(q) = {f \in F : AnyFramework # AnyFramework =>
                                \E k \in Control : <<AnyFramework, k>> \in f.tags}
        BY RowsAsked
    <2> HIDE DEF F
    <2> QED BY <2>1, <2>2
<1>2. key \in [F -> K]
    BY DEF GroupKeys
<1>3. DOMAIN Rollup(q) = K
    BY DEF Rollup
<1>4. ASSUME NEW k \in K
      PROVE  /\ Rollup(q)[k].count = Cardinality(Members(k))
             /\ Rollup(q)[k].severity = CHOOSE s \in Severities(k) :
                                            \A f \in Members(k) : Rank(s) <= Rank(row[f].severity)
    BY DEF Rollup
<1>5. ASSUME NEW k \in K
      PROVE  /\ count[k] = Cardinality({f \in F : key[f] = k})
             /\ count[k] \in Nat
    <2>1. {f \in F : key[f] = k} = Members(k) OBVIOUS
    <2>2. Cardinality(Members(k)) \in Nat BY <1>1, RowsCounted
    <2> QED BY <1>3, <1>4, <2>1, <2>2
<1>6. count \in [K -> Nat]
    <2> HIDE DEF K
    <2> QED BY <1>3, <1>5
<1>7. SumOf(count) = Cardinality(F)
    <2>1. IsFiniteSet(F) BY <1>1, RowsCounted
    <2> HIDE DEF F, K, key, count
    <2> QED BY <1>2, <1>5, <1>6, <2>1, GroupsAddUp
<1>8. ASSUME NEW f \in F
      PROVE  Rank(Rollup(q)[<<f.domain, f.check>>].severity) <= Rank(row[f].severity)
    <2> DEFINE k == <<f.domain, f.check>>
    <2>1. k \in K /\ f \in Members(k) BY DEF GroupKeys
    <2>2. Severities(k) \in SUBSET Severity /\ Severities(k) # {}
        <3>1. \A g \in Members(k) : row[g].severity \in Severity BY <1>1, RowFields
        <3> QED BY <2>1, <3>1
    <2>3. \E s \in Severities(k) : \A t \in Severities(k) : Rank(s) <= Rank(t)
        <3> HIDE DEF Severities
        <3> QED BY <2>2, Ranks
    <2>4. \E s \in Severities(k) : \A g \in Members(k) : Rank(s) <= Rank(row[g].severity)
        <3> HIDE DEF Members, k
        <3> QED BY <2>3
    <2>5. \A g \in Members(k) : Rank(Rollup(q)[k].severity) <= Rank(row[g].severity)
        <3> HIDE DEF Members, Severities, k, K
        <3> QED BY <1>4, <2>1, <2>4
    <2> QED BY <2>1, <2>5
<1> QED BY <1>1, <1>7, <1>8 DEF Total

\* The open findings of the severities add up to the open findings; the briefing
\* names the worst severity that has one.
LEMMA BriefingCounts ==
    ASSUME PostureInv
    PROVE  /\ Briefing.total = Cardinality({f \in Rows : row[f].status = "fail"})
           /\ \A f \in Rows : row[f].status = "fail" =>
                /\ Rank(Briefing.top) <= Rank(row[f].severity)
                /\ \E g \in Rows : row[g].status = "fail" /\ row[g].severity = Briefing.top
<1> DEFINE Open == {f \in Rows : row[f].status = "fail"}
           severity == [f \in Open |-> row[f].severity]
           count == [s \in Severity |-> SeverityBreakdown(s)]
           open == {s \in Severity : SeverityBreakdown(s) > 0}
<1>1. severity \in [Open -> Severity]
    BY RowFields
<1>2. ASSUME NEW s \in Severity
      PROVE  /\ count[s] = Cardinality({f \in Open : severity[f] = s})
             /\ count[s] \in Nat
             /\ count[s] > 0 <=> \E f \in Open : row[f].severity = s
    <2>1. {f \in Open : severity[f] = s}
            = {f \in Rows : row[f].status = "fail" /\ row[f].severity = s}
        OBVIOUS
    <2>2. {f \in Open : severity[f] = s} \in SUBSET Rows OBVIOUS
    <2>3. /\ IsFiniteSet({f \in Open : severity[f] = s})
          /\ Cardinality({f \in Open : severity[f] = s}) \in Nat
        BY <2>2, RowsCounted
    <2>4. count[s] = Cardinality({f \in Open : severity[f] = s})
        BY <2>1 DEF SeverityBreakdown
    <2>5. Cardinality({f \in Open : severity[f] = s}) = 0 <=> {f \in Open : severity[f] = s} = {}
        BY <2>3, FS_EmptySet
    <2>6. {f \in Open : severity[f] = s} = {} <=> ~\E f \in Open : row[f].severity = s
        OBVIOUS
    <2> DEFINE n == Cardinality({f \in Open : severity[f] = s})
    <2>7. n > 0 <=> n # 0
        <3> HIDE DEF n
        <3>1. n \in Nat BY <2>3 DEF n
        <3> QED BY <3>1
    <2> HIDE DEF count
    <2> QED BY <2>3, <2>4, <2>5, <2>6, <2>7
<1>3. SumOf(count) = Cardinality(Open)
    <2>1. IsFiniteSet(Open) BY RowsCounted
    <2>2. count \in [Severity -> Nat] BY <1>2
    <2>3. \A s \in Severity : count[s] = Cardinality({f \in Open : severity[f] = s})
        BY <1>2
    <2> HIDE DEF Open, severity, count
    <2> QED BY <1>1, <2>1, <2>2, <2>3, GroupsAddUp
<1>4. Briefing.total = SumOf(count)
    BY DEF Briefing
<1>5. ASSUME NEW f \in Open
      PROVE  /\ Rank(Briefing.top) <= Rank(row[f].severity)
             /\ \E g \in Open : row[g].severity = Briefing.top
    <2>1. row[f].severity \in open BY <1>2, RowFields
    <2>2. Briefing.top = CHOOSE s \in open : \A r \in open : Rank(s) <= Rank(r)
        BY <2>1 DEF Briefing
    <2>3. \E s \in open : \A r \in open : Rank(s) <= Rank(r)
        BY <2>1, Ranks
    <2>4. Briefing.top \in open /\ \A r \in open : Rank(Briefing.top) <= Rank(r)
        <3> HIDE DEF open
        <3> QED BY <2>2, <2>3
    <2> QED BY <1>2, <2>1, <2>4
<1> QED BY <1>3, <1>4, <1>5

\* The dashboard's tiles and bars, and the chat's list, count what the findings
\* page lists for the same statuses, severity and cloud.
LEMMA TilesCountTheList ==
    ASSUME PostureInv
    PROVE  /\ \A st \in FindingStatus : ByStatus(st) = Total(All({st}))
           /\ \A s \in Severity : BySeverity(s) = Total([All(Actionable) EXCEPT !.severities = {s}])
           /\ \A c \in Cloud : ByCloud(c) = Total([All(Actionable) EXCEPT !.cloud = c])
           /\ \A s \in Severity :
                QueryFindings(s, "", "") = ListFindings([All({}) EXCEPT !.severities = {s}])
           /\ ListFindings(All({})) = {f \in Rows : row[f].status = "fail"}
<1> DEFINE Asked(ss, st, c) == [severities |-> ss, statuses |-> st, cloud |-> c,
                                framework |-> AnyFramework]
<1>1. ASSUME NEW ss \in SUBSET Severity, NEW st \in SUBSET FindingStatus, NEW c
      PROVE  ListFindings(Asked(ss, st, c)) =
                {f \in Rows : /\ ss # {} => row[f].severity \in ss
                              /\ row[f].status \in IF st = {} THEN {"fail"} ELSE st
                              /\ c # AnyCloud => f.conn = c}
    <2> DEFINE q == Asked(ss, st, c)
               F == RollupRows(q)
    <2>1. F = {f \in Rows : /\ ss # {} => row[f].severity \in ss
                            /\ row[f].status \in IF st = {} THEN {"fail"} ELSE st
                            /\ c # AnyCloud => f.conn = c}
        BY RowsAsked
    <2>2. ListFindings(q) = {f \in F : AnyFramework # AnyFramework =>
                                \E k \in Control : <<AnyFramework, k>> \in f.tags}
        BY RowsAsked
    <2> HIDE DEF F
    <2> QED BY <2>1, <2>2
<1>2. ASSUME NEW st \in FindingStatus
      PROVE  ByStatus(st) = Total(All({st}))
    <2>1. All({st}) = Asked({}, {st}, AnyCloud) BY DEF All
    <2>2. ListFindings(All({st})) = {f \in Rows : row[f].status = st}
        <3> HIDE DEF Asked
        <3> QED BY <1>1, <2>1
    <2> QED BY <2>2 DEF ByStatus, Total
<1>3. ASSUME NEW s \in Severity
      PROVE  BySeverity(s) = Total([All(Actionable) EXCEPT !.severities = {s}])
    <2> DEFINE q == [All(Actionable) EXCEPT !.severities = {s}]
    <2>1. q = Asked({s}, Actionable, AnyCloud) BY DEF All
    <2>2. Actionable \in SUBSET FindingStatus /\ Actionable # {}
        BY DEF Actionable, FindingStatus
    <2>3. ListFindings(q) = {f \in Rows : row[f].status \in Actionable /\ row[f].severity = s}
        <3> HIDE DEF Asked, q
        <3> QED BY <1>1, <2>1, <2>2
    <2> QED BY <2>3 DEF BySeverity, Total
<1>4. ASSUME NEW c \in Cloud
      PROVE  ByCloud(c) = Total([All(Actionable) EXCEPT !.cloud = c])
    <2> DEFINE q == [All(Actionable) EXCEPT !.cloud = c]
    <2>1. q = Asked({}, Actionable, c) BY DEF All
    <2>2. Actionable \in SUBSET FindingStatus /\ Actionable # {} /\ c # AnyCloud
        BY PostureAssumption DEF Actionable, FindingStatus
    <2>3. ListFindings(q) = {f \in Rows : row[f].status \in Actionable /\ f.conn = c}
        <3> HIDE DEF Asked, q
        <3> QED BY <1>1, <2>1, <2>2
    <2> QED BY <2>3 DEF ByCloud, Total
<1>5. ASSUME NEW s \in Severity
      PROVE  QueryFindings(s, "", "") = ListFindings([All({}) EXCEPT !.severities = {s}])
    <2> DEFINE q == [All({}) EXCEPT !.severities = {s}]
    <2>1. q = Asked({s}, {}, AnyCloud) BY DEF All
    <2>2. ListFindings(q) = {f \in Rows : row[f].status = "fail" /\ row[f].severity = s}
        <3> HIDE DEF Asked, q
        <3> QED BY <1>1, <2>1
    <2> QED BY <2>2 DEF QueryFindings, Cloud
<1>6. ListFindings(All({})) = {f \in Rows : row[f].status = "fail"}
    <2>1. All({}) = Asked({}, {}, AnyCloud) BY DEF All
    <2> HIDE DEF Asked
    <2> QED BY <1>1, <2>1
<1> QED BY <1>2, <1>3, <1>4, <1>5, <1>6

\* What the chat draws of a page is the page, and a finding it names as its
\* source has the severity the briefing leads with.
LEMMA AnswersShowThePage ==
    ASSUME PostureInv, NEW p \in Pages(QueryFindings("", "", ""), BROAD_PAGE)
    PROVE  /\ FindingsAnswer(p).cards \cup FindingsAnswer(p).entries = p
           /\ \A f \in FindingsAnswer(p).sources : row[f].severity = Briefing.top
<1> DEFINE open == QueryFindings("", "", "")
<1>1. open = {f \in Rows : row[f].status = "fail"}
    BY DEF QueryFindings, Severity, Cloud
<1>2. /\ p \in SUBSET open
      /\ \A f \in p, g \in open \ p : Rank(row[f].severity) <= Rank(row[g].severity)
    BY DEF Pages
<1>3. FindingsAnswer(p).cards \cup FindingsAnswer(p).entries = p
    BY DEF FindingsAnswer
<1>4. ASSUME NEW f \in FindingsAnswer(p).sources
      PROVE  row[f].severity = Briefing.top
    <2>1. f \in p /\ \A g \in p : Rank(row[f].severity) <= Rank(row[g].severity)
        BY DEF FindingsAnswer, Leading
    <2>2. \A g \in open : Rank(row[f].severity) <= Rank(row[g].severity)
        <3> HIDE DEF open
        <3> QED BY <1>2, <2>1
    <2>3. Rank(Briefing.top) <= Rank(row[f].severity)
        BY <1>1, <1>2, <2>1, BriefingCounts
    <2>4. PICK g \in Rows : row[g].status = "fail" /\ row[g].severity = Briefing.top
        BY <1>1, <1>2, <2>1, BriefingCounts
    <2>5. Rank(row[f].severity) <= Rank(Briefing.top)
        BY <1>1, <2>2, <2>4
    <2>6. row[f].severity \in Severity /\ Briefing.top \in Severity
        BY <1>1, <1>2, <2>1, <2>4, RowFields
    <2> DEFINE s == row[f].severity  top == Briefing.top
    <2> HIDE DEF s, top
    <2>7. s \in Severity /\ top \in Severity /\ Rank(s) <= Rank(top) /\ Rank(top) <= Rank(s)
            => s = top
        BY Ranks
    <2> QED BY <2>3, <2>5, <2>6, <2>7 DEF s, top
<1> QED BY <1>3, <1>4

\* The findings page, the risks page and the dashboard count the same rows.
LEMMA TotalsAgreeNow == PostureInv => TotalsAgree
<1> SUFFICES ASSUME PostureInv PROVE TotalsAgree
    OBVIOUS
<1>1. ASSUME NEW ss \in SUBSET Severity, NEW st \in SUBSET FindingStatus,
             NEW c \in Cloud \cup {AnyCloud}
      PROVE  LET q      == [All(st) EXCEPT !.severities = ss, !.cloud = c]
                 groups == Rollup(q)
             IN
             /\ SumOf([k \in DOMAIN groups |-> groups[k].count]) = Total(q)
             /\ \A f \in ListFindings(q) :
                 Rank(groups[<<f.domain, f.check>>].severity) <= Rank(row[f].severity)
    <2> DEFINE q == [All(st) EXCEPT !.severities = ss, !.cloud = c]
    <2>1. q = [severities |-> ss, statuses |-> st, cloud |-> c, framework |-> AnyFramework]
        <3> DEFINE r == [All(st) EXCEPT !.severities = ss]
        <3>1. r = [severities |-> ss, statuses |-> st, cloud |-> AnyCloud,
                   framework |-> AnyFramework]
            BY DEF All
        <3>2. q = [r EXCEPT !.cloud = c] OBVIOUS
        <3> HIDE DEF r
        <3> QED BY <3>1, <3>2
    <2> HIDE DEF q
    <2>2. /\ SumOf([k \in DOMAIN Rollup(q) |-> Rollup(q)[k].count]) = Total(q)
          /\ \A f \in ListFindings(q) :
                Rank(Rollup(q)[<<f.domain, f.check>>].severity) <= Rank(row[f].severity)
        BY <2>1, GroupsHoldTheRows
    <2> QED BY <2>2 DEF q
<1>2. \A s \in Severity : SeverityBreakdown(s) = TrustFindings(s)
    BY DEF SeverityBreakdown, TrustFindings
<1>3. \A p \in Pages(QueryFindings("", "", ""), BROAD_PAGE) :
        LET a == FindingsAnswer(p) IN
        /\ a.cards \cup a.entries = p
        /\ \A f \in a.sources : row[f].severity = Briefing.top
    BY AnswersShowThePage
<1>4. Total(All({})) = Cardinality({f \in Rows : row[f].status = "fail"})
    BY TilesCountTheList DEF Total
<1>5. Briefing.total = Total(All({}))
    BY <1>4, BriefingCounts
<1>6. Total(All({})) > 0 => Total([All({}) EXCEPT !.severities = {Briefing.top}]) > 0
    <2> SUFFICES ASSUME Total(All({})) > 0
                 PROVE  Total([All({}) EXCEPT !.severities = {Briefing.top}]) > 0
        OBVIOUS
    <2> DEFINE Open == {f \in Rows : row[f].status = "fail"}
               top == QueryFindings(Briefing.top, "", "")
    <2>1. Open # {}
        BY <1>4, FS_EmptySet
    <2>2. PICK g \in Rows : row[g].status = "fail" /\ row[g].severity = Briefing.top
        BY <2>1, BriefingCounts
    <2>3. Briefing.top \in Severity BY <2>2, RowFields
    <2>4. Total([All({}) EXCEPT !.severities = {Briefing.top}]) = Cardinality(top)
        BY <2>3, TilesCountTheList DEF Total
    <2>5. top \in SUBSET Rows /\ g \in top
        BY <2>2 DEF QueryFindings, Cloud
    <2>6. Cardinality(top) \in Nat /\ Cardinality(top) # 0
        <3> HIDE DEF top
        <3>1. IsFiniteSet(top) /\ Cardinality(top) \in Nat BY <2>5, RowsCounted
        <3>2. top # {} BY <2>5
        <3> QED BY <3>1, <3>2, FS_EmptySet
    <2> HIDE DEF top
    <2> QED BY <2>4, <2>6
<1> QED BY <1>1, <1>2, <1>3, <1>5, <1>6, TilesCountTheList DEF TotalsAgree

\* A walk of the graph holds its root, the root's neighbours and only entities
\* there are.
LEMMA WalkedEntities ==
    ASSUME PostureInv, NEW root \in Known
    PROVE  /\ root \in Walked(root) /\ Neighbours(root) \subseteq Walked(root)
           /\ Walked(root) \subseteq Known
<1> USE PostureAssumption
<1>1. Known \subseteq Entity /\ edges \subseteq Entity \X Entity
    BY DEF PostureInv, PostureTypeOK
<1>2. GRAPH_DEPTH \in Nat /\ 0 \in 0..GRAPH_DEPTH /\ 1 \in 0..GRAPH_DEPTH
    OBVIOUS
<1>3. \A d \in 0..GRAPH_DEPTH : \A w \in Walks(root, d) : w[d] \in Walked(root)
    BY DEF Walked
<1>4. root \in Walked(root)
    <2> DEFINE w == [i \in 0..0 |-> root]
    <2>1. w \in Walks(root, 0) BY <1>1 DEF Walks
    <2>2. w[0] = root OBVIOUS
    <2> HIDE DEF w
    <2> QED BY <1>2, <1>3, <2>1, <2>2
<1>5. ASSUME NEW x \in Neighbours(root) PROVE x \in Walked(root)
    <2> DEFINE w == [i \in 0..1 |-> IF i = 0 THEN root ELSE x]
    <2>1. w \in [0..1 -> Entity] BY <1>1 DEF Neighbours
    <2>2. w[0] = root /\ w[1] = x OBVIOUS
    <2>3. \A i \in 1..1 : i = 1 /\ i - 1 = 0 OBVIOUS
    <2> HIDE DEF w
    <2>4. w \in Walks(root, 1) BY <2>1, <2>2, <2>3 DEF Walks
    <2> QED BY <1>2, <1>3, <2>2, <2>4
<1>6. ASSUME NEW x \in Walked(root) PROVE x \in Known
    <2>1. PICK d \in 0..GRAPH_DEPTH : \E w \in Walks(root, d) : x = w[d]
        BY DEF Walked
    <2>2. PICK w \in Walks(root, d) : x = w[d] BY <2>1
    <2>3. CASE d = 0 BY <2>2, <2>3 DEF Walks
    <2>4. CASE d # 0
        <3>1. d \in 1..d BY <1>2, <2>4
        <3>2. w[d] \in Neighbours(w[d - 1]) BY <3>1 DEF Walks
        <3>3. <<w[d - 1], x>> \in edges \/ <<x, w[d - 1]>> \in edges
            BY <2>2, <3>2 DEF Neighbours
        <3> QED BY <3>3 DEF PostureInv, TablesFilled
    <2> QED BY <2>3, <2>4
<1> QED BY <1>4, <1>5, <1>6

\* A graph that is not cut off shows an entity's every relationship, none
\* without both its ends, and the repository's entities; each of its nodes opens.
LEMMA GraphAgreesNow == PostureInv => GraphAgrees
<1> SUFFICES ASSUME PostureInv, NEW root \in Known, NEW g \in Graphs(root)
             PROVE  /\ \A e \in g.edges : {e[1], e[2]} \subseteq g.nodes
                    /\ \A x \in g.nodes : GetEntity(x) = {x} /\ ChatEntity(x) = {x}
                    /\ ~g.truncated =>
                        /\ Relationships(root) \subseteq g.edges
                        /\ ListEntities("", "", root) \subseteq g.nodes
    BY DEF GraphAgrees
<1> DEFINE walked == Walked(root)
<1>1. /\ g.edges = {e \in edges : e[1] \in g.nodes /\ e[2] \in g.nodes}
      /\ g.truncated = (Cardinality(walked) > GRAPH_MAX_NODES)
      /\ g.nodes \subseteq walked
      /\ ~(Cardinality(walked) > GRAPH_MAX_NODES) => g.nodes = walked
    <2> DEFINE Choices == IF Cardinality(walked) > GRAPH_MAX_NODES
                          THEN {s \in SUBSET walked : Cardinality(s) = GRAPH_MAX_NODES}
                          ELSE {walked}
    <2>1. PICK nodes \in Choices :
            g = [nodes |-> nodes, edges |-> {e \in edges : e[1] \in nodes /\ e[2] \in nodes},
                 truncated |-> Cardinality(walked) > GRAPH_MAX_NODES]
        BY DEF Graphs
    <2> QED BY <2>1
<1>2. root \in walked /\ Neighbours(root) \subseteq walked /\ walked \subseteq Known
    BY WalkedEntities
<1>3. \A x \in g.nodes : GetEntity(x) = {x} /\ ChatEntity(x) = {x}
    <2>1. \A x \in g.nodes : x \in Known BY <1>1, <1>2
    <2> QED BY <2>1 DEF GetEntity, ChatEntity, EntityRow
<1>4. ASSUME ~g.truncated
      PROVE  Relationships(root) \subseteq g.edges /\ ListEntities("", "", root) \subseteq g.nodes
    <2>1. g.nodes = walked BY <1>1, <1>4
    <2>2. edges \subseteq Entity \X Entity /\ Known \subseteq Entity
        BY DEF PostureInv, PostureTypeOK
    <2>3. ASSUME NEW x \in Relationships(root) PROVE x \in g.edges
        <3>1. x \in edges /\ x = <<x[1], x[2]>> /\ x[1] \in Entity /\ x[2] \in Entity
              /\ (x[1] = root \/ x[2] = root)
            BY <2>2 DEF Relationships
        <3>2. x[1] \in Neighbours(root) \/ x[2] \in Neighbours(root)
            BY <3>1 DEF Neighbours
        <3> QED BY <1>1, <1>2, <2>1, <3>1, <3>2 DEF Neighbours
    <2>4. ASSUME NEW x \in ListEntities("", "", root) PROVE x \in g.nodes
        <3>1. root # NoRepo BY <2>2, PostureAssumption
        <3>2. x \in EntitiesOfRepo(root) BY <3>1 DEF ListEntities
        <3>3. x \in Neighbours(root) BY <2>2, <3>2 DEF EntitiesOfRepo, Neighbours
        <3> QED BY <1>2, <2>1, <3>3
    <2> QED BY <2>3, <2>4
<1>5. \A e \in g.edges : {e[1], e[2]} \subseteq g.nodes
    BY <1>1
<1> QED BY <1>3, <1>4, <1>5

\* Where no two entities were last seen together, how many of those found come
\* before one of them.
Untied == \A a, b \in Known : Together(a, b) => a = b
Ahead(found, e) == {x \in found : x # e /\ x \in seen[e]}
Place(found, e) == Cardinality(Ahead(found, e))

\* Their places number the entities found from 0 on, in the order of the pages.
LEMMA Places ==
    ASSUME PostureInv, Untied, NEW found \in SUBSET Known
    PROVE  /\ IsFiniteSet(found) /\ Cardinality(found) \in Nat
           /\ \A e \in found : Place(found, e) \in 0..(Cardinality(found) - 1)
           /\ \A a, b \in found : Place(found, a) = Place(found, b) => a = b
           /\ \A a, b \in found : Place(found, a) < Place(found, b) => a \in seen[b]
           /\ \A i \in 0..(Cardinality(found) - 1) : \E e \in found : Place(found, e) = i
<1>1. IsFiniteSet(found) /\ Cardinality(found) \in Nat
    BY FS_Subset, FS_CardinalityType DEF PostureInv, TablesFilled
<1>2. ASSUME NEW e \in found
      PROVE  IsFiniteSet(Ahead(found, e)) /\ Place(found, e) \in Nat
    <2>1. Ahead(found, e) \in SUBSET found BY DEF Ahead
    <2> QED BY <1>1, <2>1, FS_Subset, FS_CardinalityType DEF Place
<1>3. ASSUME NEW A \in SUBSET found, NEW B \in SUBSET found, A \subseteq B, NEW x \in B \ A
      PROVE  Cardinality(A) < Cardinality(B)
    <2>1. IsFiniteSet(B) /\ A \in SUBSET B /\ A # B BY <1>1, <1>3, FS_Subset
    <2>2. Cardinality(A) <= Cardinality(B) /\ Cardinality(B) # Cardinality(A)
        BY <2>1, FS_Subset
    <2>3. Cardinality(A) \in Nat /\ Cardinality(B) \in Nat
        BY <2>1, FS_Subset, FS_CardinalityType
    <2> QED BY <2>2, <2>3
<1>4. ASSUME NEW e \in found
      PROVE  Place(found, e) \in 0..(Cardinality(found) - 1)
    <2>1. Ahead(found, e) \in SUBSET found /\ e \in found \ Ahead(found, e) BY DEF Ahead
    <2>2. Place(found, e) < Cardinality(found) BY <1>3, <2>1 DEF Place
    <2> QED BY <1>1, <1>2, <2>2
<1>5. ASSUME NEW a \in found, NEW b \in found, a # b, a \in seen[b]
      PROVE  Place(found, a) < Place(found, b)
    <2>1. b \notin seen[a] BY <1>5 DEF Untied, Together
    <2>2. ASSUME NEW x \in Ahead(found, a) PROVE x \in Ahead(found, b)
        <3>1. x \in found /\ x \in seen[a] BY DEF Ahead
        <3>2. x \in seen[b] BY <1>5, <3>1 DEF PostureInv, SeenInOrder
        <3> QED BY <2>1, <3>1, <3>2 DEF Ahead
    <2>3. a \in Ahead(found, b) \ Ahead(found, a) BY <1>5 DEF Ahead
    <2>4. Ahead(found, a) \in SUBSET found /\ Ahead(found, b) \in SUBSET found BY DEF Ahead
    <2> QED BY <1>3, <2>2, <2>3, <2>4 DEF Place
<1>6. ASSUME NEW a \in found, NEW b \in found, a # b
      PROVE  Place(found, a) < Place(found, b) \/ Place(found, b) < Place(found, a)
    <2>1. a \in seen[b] \/ b \in seen[a] BY DEF PostureInv, SeenInOrder
    <2> QED BY <1>5, <1>6, <2>1
<1>7. ASSUME NEW a \in found, NEW b \in found, Place(found, a) = Place(found, b)
      PROVE  a = b
    BY <1>2, <1>6, <1>7
<1>8. ASSUME NEW a \in found, NEW b \in found, Place(found, a) < Place(found, b)
      PROVE  a \in seen[b]
    <2>1. a # b BY <1>2, <1>8
    <2>2. ~(Place(found, b) < Place(found, a)) BY <1>2, <1>8
    <2>3. b \notin seen[a] BY <1>5, <2>1, <2>2
    <2> QED BY <2>3 DEF PostureInv, SeenInOrder
<1>9. ASSUME NEW i \in 0..(Cardinality(found) - 1)
      PROVE  \E e \in found : Place(found, e) = i
    <2> DEFINE T == 0..(Cardinality(found) - 1)
               place == [e \in found |-> Place(found, e)]
    <2>1. IsFiniteSet(T) /\ Cardinality(T) = Cardinality(found)
        <3> DEFINE n == Cardinality(found)
        <3>1. n \in Nat BY <1>1
        <3> HIDE DEF n
        <3>2. IsFiniteSet(0..(n - 1)) /\ Cardinality(0..(n - 1)) = IF 0 > n - 1 THEN 0 ELSE n - 1 - 0 + 1
            BY <3>1, FS_Interval
        <3>3. Cardinality(0..(n - 1)) = n BY <3>1, <3>2
        <3> QED BY <3>2, <3>3 DEF n
    <2>2. place \in [found -> T] BY <1>4
    <2>3. \A a, b \in found : place[a] = place[b] => a = b BY <1>7
    <2> HIDE DEF place, T
    <2>4. place \in Injection(found, T) BY <2>2, <2>3, Fun_IsInj
    <2>5. place \in Surjection(found, T) BY <2>1, <2>4, FS_Injection
    <2>6. \A t \in T : \E e \in found : place[e] = t BY <2>5, Fun_SurjectionProperties
    <2>7. i \in T BY DEF T
    <2> QED BY <2>6, <2>7 DEF place
<1> QED BY <1>1, <1>4, <1>7, <1>8, <1>9

\* As many entities are found from one place up to another as there are places.
LEMMA Stretch ==
    ASSUME PostureInv, Untied, NEW found \in SUBSET Known,
           NEW i \in Nat, NEW j \in Nat, i <= j, j <= Cardinality(found)
    PROVE  Cardinality({e \in found : i <= Place(found, e) /\ Place(found, e) < j}) = j - i
<1> DEFINE S == {e \in found : i <= Place(found, e) /\ Place(found, e) < j}
           place == [e \in S |-> Place(found, e)]
<1>1. IsFiniteSet(S) BY Places, FS_Subset
<1>2. \A e \in found : Place(found, e) \in Nat BY Places
<1>3. place \in [S -> i..(j - 1)] BY <1>2
<1>4. \A a, b \in S : place[a] = place[b] => a = b BY Places
<1>5. ASSUME NEW k \in i..(j - 1) PROVE \E e \in S : place[e] = k
    <2>1. k \in 0..(Cardinality(found) - 1) BY Places
    <2>2. PICK e \in found : Place(found, e) = k BY <2>1, Places
    <2> QED BY <2>2
<1> HIDE DEF S, place
<1>6. Cardinality(i..(j - 1)) = Cardinality(S)
    BY <1>1, <1>3, <1>4, <1>5, SameSize
<1>7. Cardinality(i..(j - 1)) = IF i > j - 1 THEN 0 ELSE j - 1 - i + 1
    BY FS_Interval
<1>8. Cardinality(i..(j - 1)) = j - i
    BY <1>7
<1> QED BY <1>6, <1>8 DEF S

\* Where nothing is tied, the n-th page shows the entities of n's places.
LEMMA OnPage ==
    ASSUME PostureInv, Untied, NEW found \in SUBSET Known, NEW m \in Nat, NEW e \in found
    PROVE  (\E p \in EntityPages(found, m + 1) : e \in p)
            <=> m * ENTITY_PAGE <= Place(found, e) /\ Place(found, e) < m * ENTITY_PAGE + ENTITY_PAGE
<1> DEFINE P == ENTITY_PAGE
           N == Cardinality(found)
           M == m * P
<1>1. P \in Nat \ {0} /\ M \in Nat
    BY PostureAssumption, PagesApart
<1>2. IsFiniteSet(found) /\ N \in Nat BY Places
<1>3. Place(found, e) \in 0..(N - 1) BY Places
<1>4. EntityPages(found, m + 1) = PagesAfter(M, found)
    <2>1. m + 1 - 1 = m OBVIOUS
    <2> QED BY <2>1 DEF EntityPages
<1> HIDE DEF M, P, N
<1>5. ASSUME NEW p \in EntityPages(found, m + 1), e \in p
      PROVE  M <= Place(found, e) /\ Place(found, e) < M + P
    <2>1. PICK before \in SUBSET (found \ p) :
            /\ Cardinality(before) = Lesser(M, N)
            /\ Cardinality(p) = Lesser(P, Cardinality(found \ before))
            /\ NotAfter(before, p) /\ NotAfter(p, found \ (p \cup before))
        BY <1>4, <1>5 DEF PagesAfter, P, N
    <2>2. p \in SUBSET found BY <1>4, <1>5 DEF PagesAfter
    <2>3. /\ IsFiniteSet(p) /\ Cardinality(p) \in Nat
          /\ IsFiniteSet(before) /\ Cardinality(before) \in Nat
        BY <1>2, <2>1, <2>2, FS_Subset, FS_CardinalityType
    <2>4. before \in SUBSET Ahead(found, e)
        BY <1>5, <2>1 DEF NotAfter, Ahead
    <2>5. Ahead(found, e) \in SUBSET (before \cup (p \ {e}))
        <3> SUFFICES ASSUME NEW x \in Ahead(found, e), x \notin before, x \notin p
                     PROVE  FALSE
            BY DEF Ahead
        <3>1. x \in found \ (p \cup before) /\ x \in seen[e] /\ x # e BY DEF Ahead
        <3>2. e \in seen[x] BY <1>5, <2>1, <3>1 DEF NotAfter
        <3> QED BY <2>2, <3>1, <3>2 DEF Untied, Together
    <2>6. IsFiniteSet(p \ {e}) /\ Cardinality(p \ {e}) = Cardinality(p) - 1
        BY <1>5, <2>3, FS_RemoveElement
    <2>7. /\ IsFiniteSet(before \cup (p \ {e}))
          /\ Cardinality(before \cup (p \ {e})) = Cardinality(before) + Cardinality(p) - 1
        <3>1. before \cap (p \ {e}) = {} BY <2>1
        <3>2. Cardinality(before \cap (p \ {e})) = 0 BY <3>1, FS_EmptySet
        <3>3. /\ IsFiniteSet(before \cup (p \ {e}))
              /\ Cardinality(before \cup (p \ {e}))
                    = Cardinality(before) + Cardinality(p \ {e}) - Cardinality(before \cap (p \ {e}))
            BY <2>3, <2>6, FS_Union
        <3> QED BY <2>3, <2>6, <3>2, <3>3
    <2>8. Place(found, e) <= Cardinality(before) + Cardinality(p) - 1
        BY <2>5, <2>7, FS_Subset DEF Place
    <2>9. Cardinality(before) <= Place(found, e)
        <3>1. IsFiniteSet(Ahead(found, e)) BY <2>5, <2>7, FS_Subset
        <3> QED BY <2>4, <3>1, FS_Subset DEF Place
    <2>10. Cardinality(before) = M
        BY <1>1, <1>2, <1>3, <2>1, <2>9 DEF Lesser
    <2>11. Cardinality(p) <= P
        <3>1. Cardinality(found \ before) \in Nat
            BY <1>2, FS_Difference, FS_CardinalityType
        <3> QED BY <1>1, <2>1, <3>1 DEF Lesser
    <2> QED BY <1>1, <1>3, <2>3, <2>8, <2>9, <2>10, <2>11
<1>6. ASSUME M <= Place(found, e), Place(found, e) < M + P
      PROVE  \E p \in EntityPages(found, m + 1) : e \in p
    <2> DEFINE K == IF M + P < N THEN M + P ELSE N
               p == {x \in found : M <= Place(found, x) /\ Place(found, x) < K}
               before == {x \in found : 0 <= Place(found, x) /\ Place(found, x) < M}
               after == found \ (p \cup before)
    <2>1. M < N /\ K \in Nat /\ M <= K /\ K <= N /\ Place(found, e) < K
        BY <1>1, <1>2, <1>3, <1>6
    <2>2. e \in p BY <1>6, <2>1
    <2>3. Cardinality(p) = K - M
        <3> HIDE DEF K
        <3> QED BY <1>1, <2>1, Stretch DEF N
    <2>4. Cardinality(before) = M
        <3>1. Cardinality(before) = M - 0
            <4> HIDE DEF K
            <4> QED BY <1>1, <1>2, <2>1, Stretch DEF N
        <3> QED BY <1>1, <3>1
    <2>5. Cardinality(found \ before) = N - M
        <3>1. found \cap before = before OBVIOUS
        <3>2. Cardinality(found \ before) = Cardinality(found) - Cardinality(found \cap before)
            <4> HIDE DEF before
            <4> QED BY <1>2, FS_Difference
        <3> QED BY <2>4, <3>1, <3>2 DEF N
    <2>6. K - M = Lesser(P, N - M)
        BY <1>1, <1>2, <2>1 DEF Lesser
    <2>7. \A x \in found : Place(found, x) \in Nat /\ Place(found, x) < N
        BY <1>2, Places DEF N
    <2>8. NotAfter(before, p) /\ NotAfter(before, after) /\ NotAfter(p, after)
        <3>1. ASSUME NEW x \in before, NEW y \in p \cup after PROVE x \in seen[y]
            <4>1. x \in found /\ y \in found /\ Place(found, x) < Place(found, y)
                BY <1>1, <2>7
            <4> QED BY <4>1, Places
        <3>2. ASSUME NEW x \in p, NEW y \in after PROVE x \in seen[y]
            <4>1. x \in found /\ y \in found /\ Place(found, x) < K
                OBVIOUS
            <4>2. ~(Place(found, y) < K)
                <5> HIDE DEF K
                <5> QED BY <1>1, <2>7
            <4>3. Place(found, x) < Place(found, y)
                <5> HIDE DEF K
                <5> QED BY <2>1, <2>7, <4>1, <4>2
            <4> QED BY <4>1, <4>3, Places
        <3> QED BY <3>1, <3>2 DEF NotAfter
    <2>9. before \in SUBSET (found \ p) /\ p \in SUBSET found
        <3> HIDE DEF K
        <3> QED BY <1>1, <2>7
    <2>10. Cardinality(before) = Lesser(M, N)
        BY <2>1, <2>4 DEF Lesser
    <2>11. Cardinality(p) = Lesser(P, Cardinality(found \ before))
        BY <2>3, <2>5, <2>6
    <2>12. p \in EntityPages(found, m + 1)
        <3> HIDE DEF p, before
        <3> QED BY <1>4, <2>8, <2>9, <2>10, <2>11 DEF PagesAfter, N, P
    <2> QED BY <2>2, <2>12
<1> QED BY <1>5, <1>6 DEF M, P

\* The first page of what is found, as the chat's answer asks for it.
LEMMA FirstPage ==
    ASSUME NEW found, IsFiniteSet(found)
    PROVE  EntityPages(found, 1) =
                {p \in SUBSET found : /\ Cardinality(p) = Lesser(ENTITY_PAGE, Cardinality(found))
                                      /\ NotAfter(p, found \ p)}
<1> DEFINE N == Cardinality(found)
           P == ENTITY_PAGE
<1>1. N \in Nat /\ P \in Nat
    BY PostureAssumption, FS_CardinalityType
<1> HIDE DEF N, P
<1>2. Lesser(0, N) = 0 /\ (1 - 1) * P = 0
    BY <1>1 DEF Lesser
<1>3. EntityPages(found, 1) = PagesAfter((1 - 1) * P, found)
    BY DEF EntityPages, P
<1>4. \A p \in SUBSET found : \A before \in SUBSET (found \ p) :
            Cardinality(before) = 0 <=> before = {}
    BY FS_Subset, FS_EmptySet
<1>5. ASSUME NEW p \in SUBSET found
      PROVE  p \in EntityPages(found, 1)
                <=> Cardinality(p) = Lesser(P, N) /\ NotAfter(p, found \ p)
    <2>1. p \in EntityPages(found, 1) <=>
            \E before \in SUBSET (found \ p) :
                /\ Cardinality(before) = 0
                /\ Cardinality(p) = Lesser(P, Cardinality(found \ before))
                /\ NotAfter(before, p) /\ NotAfter(before, found \ (p \cup before))
                /\ NotAfter(p, found \ (p \cup before))
        BY <1>2, <1>3 DEF PagesAfter, N, P
    <2>2. found \ {} = found /\ p \cup {} = p /\ {} \in SUBSET (found \ p)
        OBVIOUS
    <2>3. \A S : NotAfter({}, S) BY DEF NotAfter
    <2>4. Cardinality({}) = 0 BY FS_EmptySet
    <2> QED BY <1>4, <2>1, <2>2, <2>3, <2>4 DEF N
<1>6. \A p \in EntityPages(found, 1) : p \in SUBSET found
    BY <1>3 DEF PagesAfter
<1> QED BY <1>5, <1>6 DEF N, P

\* Where nothing is tied, whoever follows next_page sees each entity once.
LEMMA SeenOnce ==
    ASSUME PostureInv, Untied, NEW found \in SUBSET Known, NEW e \in found
    PROVE  Cardinality({n \in PageNumbers(found) : \E p \in EntityPages(found, n) : e \in p}) = 1
<1> DEFINE N == Cardinality(found)
           P == ENTITY_PAGE
           r == Place(found, e)
           Shows(n) == \E p \in EntityPages(found, n) : e \in p
<1>1. IsFiniteSet(found) /\ N \in Nat BY Places
<1>2. P \in Nat \ {0} BY PostureAssumption
<1>3. r \in 0..(N - 1) BY Places
<1>4. \A m \in Nat : Shows(m + 1) <=> m * P <= r /\ r < m * P + P
    BY OnPage
<1> HIDE DEF r, Shows, N, P
<1>5. PICK m \in Nat : m * P <= r /\ r < m * P + P
    <2>1. r \in Nat BY <1>1, <1>3
    <2>2. \A i \in Nat : \E n \in Nat : n * P <= i /\ i < n * P + P BY <1>2, PagesApart
    <2> QED BY <2>1, <2>2
<1>6. m + 1 \in PageNumbers(found)
    <2>1. CASE m = 0 BY <2>1 DEF PageNumbers
    <2>2. CASE m # 0
        <3>1. m <= m * P /\ m * P \in Nat BY <1>2, PagesApart
        <3> DEFINE y == m * P
        <3>2. y <= r /\ y \in Nat /\ m <= y BY <1>5, <3>1
        <3> HIDE DEF y
        <3>3. N > y /\ m \in 1..N BY <1>1, <1>3, <2>2, <3>2
        <3>4. HasNext(found, m) BY <3>3 DEF y, HasNext, N, P
        <3>5. m \in {n \in 1..Cardinality(found) : HasNext(found, n)} BY <3>3, <3>4 DEF N
        <3> QED BY <3>5 DEF PageNumbers
    <2> QED BY <2>1, <2>2
<1>7. \A n \in PageNumbers(found) : n - 1 \in Nat /\ n = (n - 1) + 1
    <2>1. \A n \in PageNumbers(found) : n = 1 \/ \E l \in 1..N : n = l + 1
        BY DEF PageNumbers, N
    <2>2. \A l \in 1..N : l + 1 - 1 \in Nat /\ l + 1 = (l + 1 - 1) + 1 BY <1>1
    <2>3. 1 - 1 \in Nat /\ 1 = (1 - 1) + 1 OBVIOUS
    <2> QED BY <2>1, <2>2, <2>3
<1>8. ASSUME NEW n \in PageNumbers(found), Shows(n) PROVE n = m + 1
    <2> DEFINE l == n - 1
    <2>1. l \in Nat /\ n = l + 1 BY <1>7
    <2> HIDE DEF l
    <2>2. l * P <= r /\ r < l * P + P BY <1>4, <1>8, <2>1
    <2>3. l * P \in Nat /\ m * P \in Nat BY <1>2, <2>1, PagesApart
    <2>4. l < m => l * P + P <= m * P BY <1>2, <2>1, PagesApart
    <2>5. m < l => m * P + P <= l * P BY <1>2, <2>1, PagesApart
    <2> DEFINE x == l * P  y == m * P
    <2>6. /\ x \in Nat /\ y \in Nat /\ r \in Nat
          /\ x <= r /\ r < x + P /\ y <= r /\ r < y + P
          /\ l < m => x + P <= y
          /\ m < l => y + P <= x
        BY <1>1, <1>3, <1>5, <2>2, <2>3, <2>4, <2>5
    <2> HIDE DEF x, y
    <2>7. ~(l < m) /\ ~(m < l) BY <1>2, <2>6
    <2>8. l = m BY <2>1, <2>7
    <2> QED BY <2>1, <2>8
<1>9. {n \in PageNumbers(found) : Shows(n)} = {m + 1}
    BY <1>4, <1>5, <1>6, <1>8
<1>10. Cardinality({m + 1}) = 1 BY FS_Singleton
<1> QED BY <1>9, <1>10 DEF Shows

\* The chat's answer is the page's first one; and where no two entities were
\* last seen together, whoever follows next_page sees each of them once.
LEMMA EntitiesAgreeNow == PostureInv => EntitiesAgree
<1> SUFFICES ASSUME PostureInv,
                    NEW d \in {e.domain : e \in Entity} \cup {""},
                    NEW k \in {e.kind : e \in Entity} \cup {""}
             PROVE  /\ QueryEntities(d, k) = EntityPages(ListEntities(d, k, NoRepo), 1)
                    /\ Untied => \A e \in ListEntities(d, k, NoRepo) :
                        Cardinality({n \in PageNumbers(ListEntities(d, k, NoRepo)) :
                            \E p \in EntityPages(ListEntities(d, k, NoRepo), n) : e \in p}) = 1
    BY DEF EntitiesAgree, Untied
<1> DEFINE found == ListEntities(d, k, NoRepo)
<1>1. MatchingEntities(d, k) = found /\ found \in SUBSET Known
    BY DEF MatchingEntities, ListEntities
<1>2. IsFiniteSet(found)
    BY <1>1, FS_Subset DEF PostureInv, TablesFilled
<1> HIDE DEF found
<1>3. QueryEntities(d, k) = EntityPages(found, 1)
    BY <1>1, <1>2, FirstPage DEF QueryEntities
<1> QED BY <1>1, <1>3, SeenOnce DEF found

-----------------------------------------------------------------------------

\* Whoever compares two views of the same rows finds them agree.
LEMMA ViewsAgreeNow == PostureInv => ViewsAgree
BY TotalsAgreeNow, ScoresAgreeNow, AiAgreesNow, AskedIsShownNow, GraphAgreesNow,
   EntitiesAgreeNow, RisksAgreeNow DEF ViewsAgree

\* The findings page, the risks page, the dashboard, the AI page, the graph, the
\* chat's tools and the trust page agree in every state (findings_list,
\* findings_rollup, findings_summary, compliance_summary, ai_summary,
\* entities_api, tools_dispatch, trust).
THEOREM ViewsAgreeAlways == PostureSpec => []ViewsAgree
BY ViewsAgreeNow, PostureInvAlways, PTL
=============================================================================
