---------------------------- MODULE DifferProofs ----------------------------
(***************************************************************************)
(* Theorems about the comparison of two databases, for any rows, in any    *)
(* number and order of inserts.  What the rows say is not assumed, except  *)
(* what DifferAssumption says of their fields.                             *)
(***************************************************************************)
EXTENDS Differ, FiniteSetTheorems, SequenceTheorems, WellFoundedInduction, TLAPS

-----------------------------------------------------------------------------
(* Running sums.                                                           *)

LEMMA LeastExists ==
    ASSUME NEW S, S \subseteq Nat, S # {}
    PROVE  \E x \in S : \A y \in S : x <= y
<1>1. PICK x \in S : \A y \in S : ~(<<y, x>> \in OpToRel(<, Nat))
  BY NatLessThanWellFounded, WFMin
<1>2. \A y \in S : ~(y < x)
  BY <1>1 DEF OpToRel
<1>3. QED
  BY <1>2

LEMMA MinIsLeast ==
    ASSUME NEW S, S \subseteq Nat, S # {}
    PROVE  Min(S) \in S /\ \A y \in S : Min(S) <= y
BY LeastExists DEF Min

\* The sums of a function's values exist, as the recursion defines them.
LEMMA SumsExist ==
    ASSUME NEW n \in Nat, NEW g \in [1..n -> Nat]
    PROVE  \E f \in [0..n -> Nat] : f[0] = 0 /\ \A c \in 1..n : f[c] = f[c - 1] + g[c]
<1> DEFINE Sums(f, m) == f[0] = 0 /\ \A c \in 1..m : f[c] = f[c - 1] + g[c]
           Exist(m) == \E f \in [0..m -> Nat] : Sums(f, m)
           Bad == {m \in 0..n : ~Exist(m)}
<1>1. Exist(0)
  <2>1. [c \in 0..0 |-> 0] \in [0..0 -> Nat] /\ Sums([c \in 0..0 |-> 0], 0)
    OBVIOUS
  <2>2. QED
    BY <2>1
<1>2. ASSUME NEW m \in 1..n, Exist(m - 1) PROVE Exist(m)
  <2>1. PICK f \in [0..(m - 1) -> Nat] : Sums(f, m - 1)
    BY <1>2
  <2> DEFINE h == [c \in 0..m |-> IF c = m THEN f[m - 1] + g[m] ELSE f[c]]
  <2>2. f[m - 1] \in Nat /\ g[m] \in Nat
    BY <2>1
  <2>3. h \in [0..m -> Nat]
    BY <2>1, <2>2
  <2>4. h[0] = 0
    BY <2>1
  <2>5. ASSUME NEW c \in 1..m PROVE h[c] = h[c - 1] + g[c]
    <3>1. CASE c = m
      BY <2>1, <3>1
    <3>2. CASE c # m
      <4>1. c \in 1..(m - 1) /\ c \in 0..m /\ c - 1 \in 0..m /\ c - 1 # m
        BY <3>2
      <4>2. h[c] = f[c] /\ h[c - 1] = f[c - 1]
        BY <3>2, <4>1
      <4>3. f[c] = f[c - 1] + g[c]
        BY <2>1, <4>1
      <4>4. QED
        BY <4>2, <4>3
    <3>3. QED
      BY <3>1, <3>2
  <2>6. Sums(h, m)
    BY <2>4, <2>5
  <2>7. QED
    BY <2>3, <2>6
<1> HIDE DEF Exist
<1>3. Bad = {}
  <2>1. SUFFICES ASSUME Bad # {} PROVE FALSE
    OBVIOUS
  <2>2. Bad \subseteq Nat
    OBVIOUS
  <2>3. PICK m \in Bad : \A k \in Bad : m <= k
    BY <2>1, <2>2, LeastExists
  <2>4. m # 0 /\ m \in 1..n /\ m - 1 \in 0..n
    BY <1>1, <2>3
  <2>5. m - 1 \notin Bad
    BY <2>2, <2>3, <2>4
  <2>6. QED
    BY <1>2, <2>3, <2>4, <2>5
<1>4. Exist(n)
  BY <1>3
<1>5. QED
  BY <1>4 DEF Exist

\* No sum up to a place is larger than the last one.
LEMMA LastIsLargest ==
    ASSUME NEW n \in Nat, NEW f \in [0..n -> Nat], \A c \in 1..n : f[c - 1] <= f[c]
    PROVE  \A c \in 0..n : f[c] <= f[n]
<1> DEFINE Bad == {k \in 0..n : ~(f[n - k] <= f[n])}
<1>1. Bad = {}
  <2>1. SUFFICES ASSUME Bad # {} PROVE FALSE
    OBVIOUS
  <2> HIDE DEF Bad
  <2>a. Bad \subseteq Nat
    BY DEF Bad
  <2>b. PICK k \in Bad : \A j \in Bad : k <= j
    BY <2>1, <2>a, LeastExists
  <2>2. k \in 0..n /\ ~(f[n - k] <= f[n])
    BY <2>b DEF Bad
  <2>c. k # 0
    <3>1. f[n] \in Nat /\ n - 0 = n
      OBVIOUS
    <3>2. QED
      BY <2>2, <3>1
  <2>3. k \in 1..n /\ k - 1 \in 0..n /\ k - 1 \notin Bad
    BY <2>a, <2>b, <2>2, <2>c
  <2>4. f[n - (k - 1)] <= f[n] /\ n - (k - 1) \in 1..n
    BY <2>3 DEF Bad
  <2>5. f[n - k] <= f[n - (k - 1)]
    <3>1. (n - (k - 1)) - 1 = n - k
      BY <2>3
    <3>2. QED
      BY <2>4, <3>1
  <2>6. f[n - k] \in Nat /\ f[n - (k - 1)] \in Nat /\ f[n] \in Nat
    BY <2>3
  <2>7. QED
    BY <2>2, <2>4, <2>5, <2>6
<1>2. ASSUME NEW c \in 0..n PROVE f[c] <= f[n]
  <2>1. n - c \in 0..n /\ n - (n - c) = c
    OBVIOUS
  <2>2. f[n - (n - c)] <= f[n]
    BY <1>1, <2>1
  <2>3. QED
    BY <2>1, <2>2
<1>3. QED
  BY <1>2

-----------------------------------------------------------------------------
(* Databases, and the multisets of their observations.                     *)

\* The rows of a database are those of the topic; a path is of one file, a file of one
\* binary, and what a row refers to is there.
Linked(d, p) ==
    /\ p \in Topics
    /\ DOMAIN d = Tables
    /\ \A t \in Tables : d[t] \in Seq(RowsOf[p][t])
    /\ \A i, j \in DOMAIN d.files : d.files[i].path = d.files[j].path => i = j
    /\ \A i \in DOMAIN d.binaries : d.binaries[i].file \in DOMAIN d.files
    /\ \A i, j \in DOMAIN d.binaries : d.binaries[i].file = d.binaries[j].file => i = j
    /\ \A i \in DOMAIN d.entitlements : d.entitlements[i].binary \in DOMAIN d.binaries

LEMMA TablesAre ==
    Tables = {"files", "binaries", "entitlements", "observations", "bags"}
<1>1. DOMAIN TableOrder = 1..5
  BY DEF TableOrder
<1>2. \A i \in 1..5 : i = 1 \/ i = 2 \/ i = 3 \/ i = 4 \/ i = 5
  OBVIOUS
<1>3. QED
  BY <1>1, <1>2 DEF Tables, ToSet, TableOrder

LEMMA FinitelyMany ==
    ASSUME NEW T, NEW s \in Seq(T), NEW I \in SUBSET DOMAIN s
    PROVE  IsFiniteSet(I) /\ Cardinality(I) \in Nat /\ (Cardinality(I) > 0 <=> I # {})
<1>1. IsFiniteSet(1..Len(s)) /\ DOMAIN s = 1..Len(s)
  BY FS_Interval
<1>2. IsFiniteSet(I)
  BY <1>1, FS_Subset
<1>3. QED
  BY <1>2, FS_CardinalityType, FS_EmptySet

\* Those that hold a content.
Holding(d, identity, c) ==
    {i \in DOMAIN d.observations :
        Identity(d, d.observations[i]) = identity /\ Canonical[d.observations[i].properties] = c}

LEMMA HeldIs ==
    ASSUME NEW d, NEW p, Linked(d, p), NEW identity, NEW c
    PROVE  /\ Held(d, identity, c) \in Nat
           /\ Held(d, identity, c) > 0 <=> Holding(d, identity, c) # {}
<1>1. d.observations \in Seq(RowsOf[p]["observations"])
  BY TablesAre DEF Linked
<1>2. Holding(d, identity, c) \in SUBSET DOMAIN d.observations
  BY DEF Holding
<1>3. Held(d, identity, c) = Cardinality(Holding(d, identity, c))
  BY DEF Held, Holding
<1>4. QED
  BY <1>1, <1>2, <1>3, FinitelyMany

LEMMA ExcessIs ==
    ASSUME NEW o, NEW n, NEW p, Linked(o, p), Linked(n, p), NEW identity, NEW c
    PROVE  /\ Excess(o, n, identity, c) \in Nat
           /\ Excess(o, n, identity, c) > 0 <=> Held(o, identity, c) > Held(n, identity, c)
BY HeldIs DEF Excess

\* The sums of the excesses, as they are defined.
LEMMA AccumulatedIs ==
    ASSUME NEW o, NEW n, NEW p, Linked(o, p), Linked(n, p), NEW identity
    PROVE  LET up == Accumulated(o, n, identity)
           IN  /\ up \in [0..Contents -> Nat] /\ up[0] = 0
               /\ \A c \in Ranks : up[c] = up[c - 1] + Excess(o, n, identity, c)
<1> DEFINE g == [c \in Ranks |-> Excess(o, n, identity, c)]
           Recursion(f) ==
             f = [c \in 0..Contents |-> IF c = 0 THEN 0 ELSE f[c - 1] + Excess(o, n, identity, c)]
<1>1. Contents \in Nat /\ Ranks = 1..Contents
  BY DifferAssumption DEF Ranks
<1>2. g \in [1..Contents -> Nat]
  BY <1>1, ExcessIs
<1>3. PICK f \in [0..Contents -> Nat] :
        f[0] = 0 /\ \A c \in 1..Contents : f[c] = f[c - 1] + g[c]
  BY <1>1, <1>2, SumsExist
<1>4. \A c \in 0..Contents : f[c] = IF c = 0 THEN 0 ELSE f[c - 1] + Excess(o, n, identity, c)
  <2>1. TAKE c \in 0..Contents
  <2>2. CASE c = 0
    BY <1>3, <2>2
  <2>3. CASE c # 0
    <3>1. c \in 1..Contents
      BY <1>1, <2>3
    <3>2. f[c] = f[c - 1] + g[c] /\ g[c] = Excess(o, n, identity, c)
      BY <1>1, <1>3, <3>1
    <3>3. QED
      BY <2>3, <3>2
  <2>4. QED
    BY <2>2, <2>3
<1>5. Recursion(f)
  BY <1>3, <1>4
<1>6. Accumulated(o, n, identity) = CHOOSE h : Recursion(h)
  BY DEF Accumulated
<1>7. Recursion(Accumulated(o, n, identity))
  <2> HIDE DEF Recursion
  <2>1. QED
    BY <1>5, <1>6
<1> DEFINE up == Accumulated(o, n, identity)
<1>8. up = [c \in 0..Contents |-> IF c = 0 THEN 0 ELSE up[c - 1] + Excess(o, n, identity, c)]
  BY <1>7
<1> HIDE DEF up, Recursion, g
<1>9. up[0] = 0
  BY <1>1, <1>8
<1>10. \A c \in Ranks : up[c] = up[c - 1] + Excess(o, n, identity, c)
  BY <1>1, <1>8
<1>11. \A c \in 0..Contents : up[c] = f[c]
  <2> DEFINE Bad == {c \in 0..Contents : up[c] # f[c]}
  <2>2. SUFFICES ASSUME Bad # {} PROVE FALSE
    OBVIOUS
  <2> HIDE DEF Bad
  <2>3. Bad \subseteq 0..Contents /\ Bad \subseteq Nat
    BY <1>1 DEF Bad
  <2>4. PICK c \in Bad : \A b \in Bad : c <= b
    BY <2>2, <2>3, LeastExists
  <2>5. c # 0 /\ up[c] # f[c]
    BY <1>3, <1>9, <2>4 DEF Bad
  <2>6. c \in 1..Contents /\ c - 1 \in 0..Contents /\ c - 1 \notin Bad
    BY <1>1, <2>3, <2>4, <2>5
  <2>7. up[c - 1] = f[c - 1]
    BY <2>6 DEF Bad
  <2>8. QED
    BY <1>1, <1>4, <1>10, <2>5, <2>6, <2>7
<1>12. up \in [0..Contents -> Nat]
  <2>1. \A c \in 0..Contents : up[c] \in Nat
    BY <1>3, <1>11
  <2>2. up = [c \in 0..Contents |-> up[c]]
    BY <1>8
  <2>3. QED
    BY <2>1, <2>2
<1>13. QED
  BY <1>9, <1>10, <1>12 DEF up

LEMMA RemainingIs ==
    ASSUME NEW o, NEW n, NEW p, Linked(o, p), Linked(n, p), NEW identity
    PROVE  LET r == Remaining(o, n, identity)
           IN  /\ r \in Seq(Ranks)
               /\ \A i \in DOMAIN r : Excess(o, n, identity, r[i]) > 0
               /\ r = <<>> <=> \A c \in Ranks : Excess(o, n, identity, c) = 0
<1> DEFINE up == Accumulated(o, n, identity)
           r == Remaining(o, n, identity)
           Reaching(i) == {c \in Ranks : up[c] >= i}
<1>1. Contents \in Nat /\ Ranks = 1..Contents
  BY DifferAssumption DEF Ranks
<1>2. /\ up \in [0..Contents -> Nat] /\ up[0] = 0
      /\ \A c \in Ranks : up[c] = up[c - 1] + Excess(o, n, identity, c)
  BY AccumulatedIs
<1>3. \A c \in Ranks : Excess(o, n, identity, c) \in Nat
  BY ExcessIs
<1>4. r = [i \in 1..up[Contents] |-> Min(Reaching(i))] /\ up[Contents] \in Nat
  BY <1>1, <1>2 DEF Remaining
<1> HIDE DEF up, r
<1>5. ASSUME NEW i \in 1..up[Contents]
      PROVE  Min(Reaching(i)) \in Ranks /\ Excess(o, n, identity, Min(Reaching(i))) > 0
  <2>1. Contents \in Reaching(i)
    <3>1. Contents # 0
      BY <1>2, <1>4
    <3>2. QED
      BY <1>1, <1>4, <3>1
  <2>a. Reaching(i) \subseteq Nat /\ Reaching(i) # {}
    BY <1>1, <2>1
  <2>b. Min(Reaching(i)) \in Reaching(i) /\ \A b \in Reaching(i) : Min(Reaching(i)) <= b
    <3> HIDE DEF Reaching
    <3>1. QED
      BY <2>a, MinIsLeast
  <2> DEFINE c == Min(Reaching(i))
  <2>2. c \in Reaching(i) /\ \A b \in Reaching(i) : c <= b
    BY <2>b
  <2> HIDE DEF c
  <2>3. c \in 1..Contents /\ up[c] >= i /\ c - 1 \in 0..Contents
    BY <1>1, <2>2
  <2>4. up[c - 1] < i
    <3>1. CASE c = 1
      BY <1>2, <1>4, <3>1
    <3>2. CASE c # 1
      <4>1. c - 1 \in Ranks /\ ~(c <= c - 1)
        BY <1>1, <2>3, <3>2
      <4>2. c - 1 \notin Reaching(i)
        BY <2>2, <4>1
      <4>3. QED
        BY <1>2, <1>4, <2>3, <4>1, <4>2
    <3>3. QED
      BY <3>1, <3>2
  <2>5. up[c] = up[c - 1] + Excess(o, n, identity, c) /\ up[c] \in Nat /\ up[c - 1] \in Nat
    BY <1>1, <1>2, <2>3
  <2>6. c \in Ranks /\ Excess(o, n, identity, c) \in Nat
    BY <1>1, <1>3, <2>3
  <2>7. Excess(o, n, identity, c) > 0
    BY <1>4, <2>3, <2>4, <2>5, <2>6
  <2>8. QED
    BY <2>6, <2>7 DEF c
<1>6. r \in Seq(Ranks) /\ DOMAIN r = 1..up[Contents] /\ Len(r) = up[Contents]
  <2> HIDE DEF Reaching
  <2>1. r \in [1..up[Contents] -> Ranks]
    BY <1>4, <1>5
  <2> DEFINE k == up[Contents]
  <2>2. k \in Nat /\ r \in [1..k -> Ranks]
    BY <1>4, <2>1
  <2> HIDE DEF k
  <2>3. r \in Seq(Ranks) /\ DOMAIN r = 1..k /\ Len(r) = k
    BY <2>2
  <2>4. QED
    BY <2>3 DEF k
<1>7. \A i \in DOMAIN r : Excess(o, n, identity, r[i]) > 0
  BY <1>4, <1>5, <1>6
<1>8. ASSUME r = <<>>, NEW c \in Ranks PROVE Excess(o, n, identity, c) = 0
  <2>1. up[Contents] = 0
    BY <1>4, <1>6, <1>8
  <2>2. \A b \in 1..Contents : up[b - 1] <= up[b]
    <3>1. TAKE b \in 1..Contents
    <3>2. up[b - 1] \in Nat /\ up[b] = up[b - 1] + Excess(o, n, identity, b)
      BY <1>1, <1>2
    <3>3. QED
      BY <1>1, <1>3, <3>2
  <2>3. \A b \in 0..Contents : up[b] <= 0
    BY <1>1, <1>2, <2>1, <2>2, LastIsLargest
  <2>4. c \in 0..Contents /\ c - 1 \in 0..Contents
    BY <1>1
  <2>5. up[c] \in Nat /\ up[c - 1] \in Nat /\ up[c] <= 0 /\ up[c - 1] <= 0
    BY <1>2, <2>3, <2>4
  <2>6. up[c] = up[c - 1] + Excess(o, n, identity, c)
    BY <1>2
  <2>7. QED
    BY <1>3, <2>5, <2>6
<1>9. ASSUME \A c \in Ranks : Excess(o, n, identity, c) = 0 PROVE r = <<>>
  <2> DEFINE Bad == {c \in 0..Contents : up[c] # 0}
  <2>1. Bad = {}
    <3>1. SUFFICES ASSUME Bad # {} PROVE FALSE
      OBVIOUS
    <3> HIDE DEF Bad
    <3>2. Bad \subseteq 0..Contents /\ Bad \subseteq Nat
      BY <1>1 DEF Bad
    <3>3. PICK c \in Bad : \A b \in Bad : c <= b
      BY <3>1, <3>2, LeastExists
    <3>4. c # 0 /\ up[c] # 0
      BY <1>2, <3>3 DEF Bad
    <3>5. c \in Ranks /\ c - 1 \in 0..Contents /\ c - 1 \notin Bad
      BY <1>1, <3>2, <3>3, <3>4
    <3>6. up[c - 1] = 0
      BY <3>5 DEF Bad
    <3>7. up[c] = up[c - 1] + Excess(o, n, identity, c) /\ Excess(o, n, identity, c) = 0
      BY <1>2, <1>9, <3>5
    <3>8. QED
      BY <3>4, <3>6, <3>7
  <2>2. up[Contents] = 0
    BY <1>1, <2>1
  <2>3. QED
    BY <1>6, <2>2
<1>10. QED
  BY <1>6, <1>7, <1>8, <1>9 DEF r

LEMMA MinOfTwo ==
    ASSUME NEW a \in Nat, NEW b \in Nat
    PROVE  /\ Min({a, b}) \in Nat /\ Min({a, b}) <= a /\ Min({a, b}) <= b
           /\ Min({a, b}) = a \/ Min({a, b}) = b
<1>1. Min({a, b}) \in {a, b} /\ \A y \in {a, b} : Min({a, b}) <= y
  BY MinIsLeast
<1>2. QED
  BY <1>1

\* The first k contents left on each side are paired, and one side has no more.
Paired(was, is, k, d) ==
    /\ was \in Seq(Ranks) /\ is \in Seq(Ranks) /\ k \in Nat
    /\ k <= Len(was) /\ k <= Len(is)
    /\ k = Len(was) \/ k = Len(is)
    /\ d.changed = [i \in 1..k |-> <<was[i], is[i]>>]
    /\ d.removed = SubSeq(was, k + 1, Len(was))
    /\ d.added = SubSeq(is, k + 1, Len(is))
    /\ d = [changed |-> d.changed, removed |-> d.removed, added |-> d.added]

LEMMA ObservationsAre ==
    ASSUME NEW o, NEW n, NEW p, Linked(o, p), Linked(n, p),
           NEW identity \in Identities(o) \cup Identities(n)
    PROVE  Paired(Remaining(o, n, identity), Remaining(n, o, identity),
                  Min({Len(Remaining(o, n, identity)), Len(Remaining(n, o, identity))}),
                  ObservationDiff(o, n)[identity])
<1> DEFINE was == Remaining(o, n, identity)
           is == Remaining(n, o, identity)
           paired == Min({Len(was), Len(is)})
<1>1. was \in Seq(Ranks) /\ is \in Seq(Ranks)
  BY RemainingIs
<1>2. ObservationDiff(o, n)[identity] =
        [changed |-> [i \in 1..paired |-> <<was[i], is[i]>>],
         removed |-> SubSeq(was, paired + 1, Len(was)),
         added |-> SubSeq(is, paired + 1, Len(is))]
  BY DEF ObservationDiff
<1> HIDE DEF was, is
<1>3. Len(was) \in Nat /\ Len(is) \in Nat
  BY <1>1
<1>4. /\ paired \in Nat /\ paired <= Len(was) /\ paired <= Len(is)
      /\ paired = Len(was) \/ paired = Len(is)
  BY <1>3, MinOfTwo
<1> DEFINE d == ObservationDiff(o, n)[identity]
<1> HIDE DEF paired, d
<1>5. d = [changed |-> [i \in 1..paired |-> <<was[i], is[i]>>],
           removed |-> SubSeq(was, paired + 1, Len(was)),
           added |-> SubSeq(is, paired + 1, Len(is))]
  BY <1>2 DEF d
<1>6. /\ d.changed = [i \in 1..paired |-> <<was[i], is[i]>>]
      /\ d.removed = SubSeq(was, paired + 1, Len(was))
      /\ d.added = SubSeq(is, paired + 1, Len(is))
  BY <1>5
<1>7. d = [changed |-> d.changed, removed |-> d.removed, added |-> d.added]
  BY <1>5, <1>6, Zenon
<1>8. Paired(was, is, paired, d)
  BY <1>1, <1>4, <1>6, <1>7, Zenon DEF Paired
<1>9. QED
  BY <1>8 DEF was, is, paired, d

LEMMA RestOf ==
    ASSUME NEW T, NEW s \in Seq(T), NEW k \in Nat, k <= Len(s)
    PROVE  LET rest == SubSeq(s, k + 1, Len(s))
           IN  /\ rest \in Seq(T)
               /\ Len(rest) = Len(s) - k
               /\ \A i \in DOMAIN rest : \E j \in DOMAIN s : rest[i] = s[j]
               /\ rest = <<>> <=> k = Len(s)
BY SubSeqProperties

-----------------------------------------------------------------------------
(* The invariant.                                                          *)

\* The two databases are sound, and the report is of them.
Inv ==
    /\ Linked(old, topic) /\ Linked(new, topic)
    /\ report # None => report = FullDiff(old, new)

LEMMA EmptyIsLinked == ASSUME NEW p \in Topics PROVE Linked(Empty, p)
<1>1. \A t \in Tables : Empty[t] = <<>>
  BY DEF Empty
<1>2. DOMAIN Empty = Tables
  BY DEF Empty
<1>3. /\ Empty.files = <<>> /\ Empty.binaries = <<>> /\ Empty.entitlements = <<>>
  BY <1>1, TablesAre
<1>4. DOMAIN <<>> = {}
  OBVIOUS
<1>5. \A t \in Tables : Empty[t] \in Seq(RowsOf[p][t])
  <2>1. TAKE t \in Tables
  <2>2. Empty[t] = <<>>
    BY <1>1
  <2>3. <<>> \in Seq(RowsOf[p][t])
    OBVIOUS
  <2>4. QED
    BY <2>2, <2>3
<1>6. DOMAIN Empty.files = {} /\ DOMAIN Empty.binaries = {} /\ DOMAIN Empty.entitlements = {}
  BY <1>3, <1>4
<1>7. QED
  BY <1>2, <1>5, <1>6 DEF Linked

LEMMA InsertedIsLinked ==
    ASSUME NEW d, Linked(d, topic), NEW t \in Tables, NEW row, Inserted(d, t, row)
    PROVE  Linked([d EXCEPT ![t] = Append(@, row)], topic)
<1> DEFINE e == [d EXCEPT ![t] = Append(@, row)]
<1>1. row \in RowsOf[topic][t] /\ Insertable(d, t, row)
  BY DEF Inserted
<1>2. d[t] \in Seq(RowsOf[topic][t]) /\ DOMAIN d = Tables
  BY DEF Linked
<1>3. DOMAIN e = Tables /\ e[t] = Append(d[t], row) /\ \A u \in Tables \ {t} : e[u] = d[u]
  BY <1>2
<1> HIDE DEF e
<1>4. /\ e[t] \in Seq(RowsOf[topic][t]) /\ Len(e[t]) = Len(d[t]) + 1
      /\ DOMAIN d[t] = 1..Len(d[t]) /\ Len(d[t]) \in Nat
      /\ DOMAIN e[t] = 1..(Len(d[t]) + 1)
      /\ e[t][Len(d[t]) + 1] = row
      /\ \A i \in DOMAIN d[t] : e[t][i] = d[t][i]
  BY <1>1, <1>2, <1>3
<1>5. \A i \in DOMAIN e[t] : i \in DOMAIN d[t] \/ i = Len(d[t]) + 1
  BY <1>4
<1>6. \A u \in Tables : e[u] \in Seq(RowsOf[topic][u]) /\ DOMAIN d[u] \subseteq DOMAIN e[u]
  <2>1. TAKE u \in Tables
  <2>2. CASE u = t
    BY <1>4, <2>2
  <2>3. CASE u # t
    BY <1>3, <2>3 DEF Linked
  <2>4. QED
    BY <2>2, <2>3
<1>7. \A i, j \in DOMAIN e.files : e.files[i].path = e.files[j].path => i = j
  <2>1. CASE t = "files"
    <3>1. \A i \in DOMAIN d.files : d.files[i].path # row.path
      BY <1>1, <2>1 DEF Insertable, Rows, ToSet
    <3>2. \A i, j \in DOMAIN d.files : d.files[i].path = d.files[j].path => i = j
      BY DEF Linked
    <3>3. QED
      BY <1>4, <1>5, <2>1, <3>1, <3>2
  <2>2. CASE t # "files"
    BY <1>3, <2>2, TablesAre DEF Linked
  <2>3. QED
    BY <2>1, <2>2
<1>8. \A i \in DOMAIN e.binaries : e.binaries[i].file \in DOMAIN e.files
  <2>1. \A i \in DOMAIN d.binaries : d.binaries[i].file \in DOMAIN d.files
    BY DEF Linked
  <2>2. DOMAIN d.files \subseteq DOMAIN e.files
    BY <1>6, TablesAre
  <2>3. CASE t = "binaries"
    <3>1. row.file \in DOMAIN d.files
      BY <1>1, <2>3 DEF Insertable
    <3>2. QED
      BY <1>4, <1>5, <2>1, <2>2, <2>3, <3>1
  <2>4. CASE t # "binaries"
    BY <1>3, <2>1, <2>2, <2>4, TablesAre
  <2>5. QED
    BY <2>3, <2>4
<1>9. \A i, j \in DOMAIN e.binaries : e.binaries[i].file = e.binaries[j].file => i = j
  <2>1. CASE t = "binaries"
    <3>1. \A i \in DOMAIN d.binaries : d.binaries[i].file # row.file
      BY <1>1, <2>1 DEF Insertable, Rows, ToSet
    <3>2. \A i, j \in DOMAIN d.binaries : d.binaries[i].file = d.binaries[j].file => i = j
      BY DEF Linked
    <3>3. QED
      BY <1>4, <1>5, <2>1, <3>1, <3>2
  <2>2. CASE t # "binaries"
    BY <1>3, <2>2, TablesAre DEF Linked
  <2>3. QED
    BY <2>1, <2>2
<1>10. \A i \in DOMAIN e.entitlements : e.entitlements[i].binary \in DOMAIN e.binaries
  <2>1. \A i \in DOMAIN d.entitlements : d.entitlements[i].binary \in DOMAIN d.binaries
    BY DEF Linked
  <2>2. DOMAIN d.binaries \subseteq DOMAIN e.binaries
    BY <1>6, TablesAre
  <2>3. CASE t = "entitlements"
    <3>1. row.binary \in DOMAIN d.binaries
      BY <1>1, <2>3 DEF Insertable
    <3>2. QED
      BY <1>4, <1>5, <2>1, <2>2, <2>3, <3>1
  <2>4. CASE t # "entitlements"
    BY <1>3, <2>1, <2>2, <2>4, TablesAre
  <2>5. QED
    BY <2>3, <2>4
<1>11. topic \in Topics
  BY DEF Linked
<1>12. QED
  BY <1>3, <1>6, <1>7, <1>8, <1>9, <1>10, <1>11 DEF Linked, e

LEMMA InvCorrect == Spec => []Inv
<1>1. Init => Inv
  BY EmptyIsLinked DEF Init, Inv
<1>2. Inv /\ [Next]_vars => Inv'
  <2> SUFFICES ASSUME Inv, [Next]_vars PROVE Inv'
    OBVIOUS
  <2>1. CASE UNCHANGED vars
    BY <2>1 DEF Inv, vars
  <2>2. ASSUME NEW t \in Tables, NEW row, InsertOld(t, row) PROVE Inv'
    <3>1. /\ report' = None /\ new' = new /\ topic' = topic
          /\ old' = [old EXCEPT ![t] = Append(@, row)] /\ Inserted(old, t, row)
      BY <2>2 DEF InsertOld
    <3>2. Linked(old', topic)
      BY <3>1, InsertedIsLinked DEF Inv
    <3>3. QED
      BY <3>1, <3>2 DEF Inv
  <2>3. ASSUME NEW t \in Tables, NEW row, InsertNew(t, row) PROVE Inv'
    <3>1. /\ report' = None /\ old' = old /\ topic' = topic
          /\ new' = [new EXCEPT ![t] = Append(@, row)] /\ Inserted(new, t, row)
      BY <2>3 DEF InsertNew
    <3>2. Linked(new', topic)
      BY <3>1, InsertedIsLinked DEF Inv
    <3>3. QED
      BY <3>1, <3>2 DEF Inv
  <2>4. CASE Compare
    BY <2>4 DEF Inv, Compare
  <2>5. CASE Compared
    BY <2>1, <2>5 DEF Compared
  <2>6. QED
    BY <2>1, <2>2, <2>3, <2>4, <2>5 DEF Next
<1>3. QED
  BY <1>1, <1>2, PTL DEF Spec

-----------------------------------------------------------------------------
(* What is called a change is one.                                         *)

LEMMA ChangesDiffer ==
    ASSUME NEW o, NEW n
    PROVE  /\ \A p \in FilesChanged(o, n) : p[1].sha256 # p[2].sha256 \/ p[1].size # p[2].size
           /\ \A m \in BinaryMoved(o, n) \cup EntitlementReassigned(o, n) : m[2] # m[3]
<1>1. \A p \in FilesChanged(o, n) : p[1].sha256 # p[2].sha256 \/ p[1].size # p[2].size
  BY DEF FilesChanged, ContentDiffers
<1>2. \A m \in BinaryMoved(o, n) : m[2] # m[3]
  BY DEF BinaryMoved
<1>3. \A m \in EntitlementReassigned(o, n) : m[2] # m[3]
  BY DEF EntitlementReassigned
<1>4. QED
  BY <1>1, <1>2, <1>3

\* No content is left on both sides, and only one side has contents without a partner.
Apart(d) ==
    LET gone == ToSet(d.removed) \cup {q[1] : q \in ToSet(d.changed)}
        come == ToSet(d.added) \cup {q[2] : q \in ToSet(d.changed)}
    IN  gone \cap come = {} /\ (d.removed = <<>> \/ d.added = <<>>)

LEMMA RemainingDiffer ==
    ASSUME NEW o, NEW n, NEW p, Linked(o, p), Linked(n, p),
           NEW identity \in Identities(o) \cup Identities(n)
    PROVE  Apart(ObservationDiff(o, n)[identity])
<1> DEFINE was == Remaining(o, n, identity)
           is == Remaining(n, o, identity)
           paired == Min({Len(was), Len(is)})
           d == ObservationDiff(o, n)[identity]
           gone == ToSet(d.removed) \cup {q[1] : q \in ToSet(d.changed)}
           come == ToSet(d.added) \cup {q[2] : q \in ToSet(d.changed)}
<1>1. /\ was \in Seq(Ranks) /\ is \in Seq(Ranks) /\ paired \in Nat
      /\ paired <= Len(was) /\ paired <= Len(is)
      /\ paired = Len(was) \/ paired = Len(is)
      /\ d.changed = [i \in 1..paired |-> <<was[i], is[i]>>]
      /\ d.removed = SubSeq(was, paired + 1, Len(was))
      /\ d.added = SubSeq(is, paired + 1, Len(is))
  <2>1. Paired(was, is, paired, d)
    BY ObservationsAre
  <2> HIDE DEF was, is, paired, d
  <2>2. QED
    BY <2>1 DEF Paired
<1>2. /\ \A i \in DOMAIN was : Excess(o, n, identity, was[i]) > 0
      /\ \A i \in DOMAIN is : Excess(n, o, identity, is[i]) > 0
  BY RemainingIs
<1>3. \A i \in DOMAIN was, j \in DOMAIN is : was[i] # is[j]
  <2>1. TAKE i \in DOMAIN was, j \in DOMAIN is
  <2>2. /\ Held(o, identity, was[i]) > Held(n, identity, was[i])
        /\ Held(n, identity, is[j]) > Held(o, identity, is[j])
        /\ Held(o, identity, was[i]) \in Nat /\ Held(n, identity, was[i]) \in Nat
    BY <1>2, ExcessIs, HeldIs
  <2>3. QED
    BY <2>2
<1> HIDE DEF was, is, paired, d
<1>4. d.removed = <<>> \/ d.added = <<>>
  BY <1>1, RestOf
<1>5. /\ \A i \in DOMAIN d.removed : \E j \in DOMAIN was : d.removed[i] = was[j]
      /\ \A i \in DOMAIN d.added : \E j \in DOMAIN is : d.added[i] = is[j]
  <2>1. LET rest == SubSeq(was, paired + 1, Len(was))
        IN  \A i \in DOMAIN rest : \E j \in DOMAIN was : rest[i] = was[j]
    BY <1>1, RestOf, ZenonT(40)
  <2>2. LET rest == SubSeq(is, paired + 1, Len(is))
        IN  \A i \in DOMAIN rest : \E j \in DOMAIN is : rest[i] = is[j]
    BY <1>1, RestOf, ZenonT(40)
  <2>3. QED
    BY <1>1, <2>1, <2>2, ZenonT(40)
<1>6. DOMAIN d.changed = 1..paired /\ \A i \in 1..paired :
        i \in DOMAIN was /\ i \in DOMAIN is /\ d.changed[i] = <<was[i], is[i]>>
  BY <1>1
<1>7. \A x \in gone : \E i \in DOMAIN was : x = was[i]
  BY <1>5, <1>6 DEF ToSet
<1>8. \A x \in come : \E i \in DOMAIN is : x = is[i]
  BY <1>5, <1>6 DEF ToSet
<1>9. gone \cap come = {}
  BY <1>3, <1>7, <1>8
<1>10. Apart(d)
  BY <1>4, <1>9 DEF Apart
<1>11. QED
  BY <1>10 DEF d

\* changed_field_values and the report: what is rendered as a change has two values that
\* differ, and nothing is rendered as gone and as come.
THEOREM ChangedIsDifferent == Spec => []ChangedDiffer
<1>1. Inv => ChangedDiffer
  <2> SUFFICES ASSUME Inv, report # None PROVE ChangedDiffer
    BY DEF ChangedDiffer
  <2>1. report = FullDiff(old, new) /\ Linked(old, topic) /\ Linked(new, topic)
    BY DEF Inv
  <2>2. /\ report.changed = FilesChanged(old, new)
        /\ report.moved = BinaryMoved(old, new)
        /\ report.reassigned = EntitlementReassigned(old, new)
        /\ report.observations = ObservationDiff(old, new)
    BY <2>1 DEF FullDiff
  <2>3. DOMAIN report.observations = Identities(old) \cup Identities(new)
    BY <2>2 DEF ObservationDiff
  <2>4. /\ \A p \in report.changed : p[1].sha256 # p[2].sha256 \/ p[1].size # p[2].size
        /\ \A m \in report.moved \cup report.reassigned : m[2] # m[3]
    BY <2>2, ChangesDiffer
  <2>5. ASSUME NEW identity \in DOMAIN report.observations
        PROVE  Apart(report.observations[identity])
    BY <2>1, <2>2, <2>3, RemainingDiffer
  <2>6. QED
    BY <2>4, <2>5, Zenon DEF ChangedDiffer, Apart
<1>2. QED
  BY <1>1, InvCorrect, PTL

-----------------------------------------------------------------------------
(* The other way round.                                                    *)

LEMMA ExchangedPair ==
    ASSUME NEW a, NEW r
    PROVE  Exchanged([added |-> a, removed |-> r]) = [added |-> r, removed |-> a]
<1> DEFINE d == [added |-> a, removed |-> r]
<1>1. d.added = a /\ d.removed = r
  OBVIOUS
<1>2. Exchanged(d) = [d EXCEPT !.added = r, !.removed = a]
  BY <1>1, Zenon DEF Exchanged
<1>3. [d EXCEPT !.added = r] = [added |-> r, removed |-> r]
  OBVIOUS
<1>4. [[added |-> r, removed |-> r] EXCEPT !.removed = a] = [added |-> r, removed |-> a]
  OBVIOUS
<1>5. QED
  BY <1>2, <1>3, <1>4, Zenon

Triple(d) == d = [added |-> d.added, removed |-> d.removed, changed |-> d.changed]

ExchangedWith(d, x) == [added |-> d.removed, removed |-> d.added, changed |-> x]

LEMMA ExchangedTriple ==
    ASSUME NEW d, Triple(d), NEW x
    PROVE  [Exchanged(d) EXCEPT !.changed = x] = ExchangedWith(d, x)
<1> DEFINE a == d.added
           r == d.removed
           c == d.changed
<1>1. d = [added |-> a, removed |-> r, changed |-> c]
  BY DEF Triple
<1>2. Exchanged(d) = [d EXCEPT !.added = r, !.removed = a]
  BY Zenon DEF Exchanged
<1> HIDE DEF a, r, c
<1>3. [d EXCEPT !.added = r] = [added |-> r, removed |-> r, changed |-> c]
  BY <1>1
<1>4. [[added |-> r, removed |-> r, changed |-> c] EXCEPT !.removed = a]
        = [added |-> r, removed |-> a, changed |-> c]
  OBVIOUS
<1>5. Exchanged(d) = [added |-> r, removed |-> a, changed |-> c]
  BY <1>2, <1>3, <1>4, Zenon
<1>6. [[added |-> r, removed |-> a, changed |-> c] EXCEPT !.changed = x]
        = [added |-> r, removed |-> a, changed |-> x]
  OBVIOUS
<1>7. [Exchanged(d) EXCEPT !.changed = x] = [added |-> r, removed |-> a, changed |-> x]
  BY <1>5, <1>6, Zenon
<1>8. QED
  BY <1>7, Zenon DEF ExchangedWith, a, r

LEMMA KeysSwap ==
    ASSUME NEW o, NEW n
    PROVE  NaturalDiff(n, o) = Exchanged(NaturalDiff(o, n))
BY ExchangedPair, Zenon DEF NaturalDiff

LEMMA FilesSwap ==
    ASSUME NEW o, NEW n
    PROVE  FilesChanged(n, o) = Swap(FilesChanged(o, n))
<1>1. ASSUME NEW p \in FilesChanged(n, o) PROVE p \in Swap(FilesChanged(o, n))
  <2>1. /\ p \in Rows(n, "files") \X Rows(o, "files")
        /\ p[1].path = p[2].path /\ ContentDiffers(p[1], p[2])
    BY DEF FilesChanged
  <2>2. ContentDiffers(p[2], p[1])
    BY <2>1 DEF ContentDiffers
  <2>3. <<p[2], p[1]>> \in FilesChanged(o, n)
    BY <2>1, <2>2 DEF FilesChanged
  <2>4. p = <<p[1], p[2]>>
    BY <2>1
  <2>5. QED
    BY <2>3, <2>4 DEF Swap
<1>2. ASSUME NEW p \in Swap(FilesChanged(o, n)) PROVE p \in FilesChanged(n, o)
  <2>1. PICK q \in FilesChanged(o, n) : p = <<q[2], q[1]>>
    BY DEF Swap
  <2>2. /\ q \in Rows(o, "files") \X Rows(n, "files")
        /\ q[1].path = q[2].path /\ ContentDiffers(q[1], q[2])
    BY DEF FilesChanged
  <2>3. ContentDiffers(q[2], q[1])
    BY <2>2 DEF ContentDiffers
  <2>4. QED
    BY <2>1, <2>2, <2>3 DEF FilesChanged
<1>3. QED
  BY <1>1, <1>2

Turned(triples) == {<<m[1], m[3], m[2]>> : m \in triples}

LEMMA MovesSwap ==
    ASSUME NEW o, NEW n
    PROVE  BinaryMoved(n, o) = Turned(BinaryMoved(o, n))
<1> DEFINE A == Sole(o, "binaries", "name")
           B == Sole(n, "binaries", "name")
           Moves(q) == Equal(q[1].name, q[2].name) /\ Place(o, q[1]) # Place(n, q[2])
           Comes(q) == Equal(q[1].name, q[2].name) /\ Place(n, q[1]) # Place(o, q[2])
<1> HIDE DEF A, B
<1>1. \A m : m \in BinaryMoved(o, n) <=>
        \E q \in A \X B : Moves(q) /\ m = <<q[1].name, Place(o, q[1]), Place(n, q[2])>>
  BY DEF BinaryMoved, A, B
<1>2. \A m : m \in BinaryMoved(n, o) <=>
        \E q \in B \X A : Comes(q) /\ m = <<q[1].name, Place(n, q[1]), Place(o, q[2])>>
  BY DEF BinaryMoved, A, B
<1>3. ASSUME NEW m \in BinaryMoved(n, o) PROVE m \in Turned(BinaryMoved(o, n))
  <2>1. PICK q \in B \X A : Comes(q) /\ m = <<q[1].name, Place(n, q[1]), Place(o, q[2])>>
    BY <1>2
  <2>2. <<q[2], q[1]>> \in A \X B /\ q[1].name = q[2].name /\ Moves(<<q[2], q[1]>>)
    BY <2>1 DEF Equal
  <2>3. <<q[2].name, Place(o, q[2]), Place(n, q[1])>> \in BinaryMoved(o, n)
    BY <1>1, <2>2
  <2>4. QED
    BY <2>1, <2>2, <2>3 DEF Turned
<1>4. ASSUME NEW m \in Turned(BinaryMoved(o, n)) PROVE m \in BinaryMoved(n, o)
  <2>1. PICK w \in BinaryMoved(o, n) : m = <<w[1], w[3], w[2]>>
    BY DEF Turned
  <2>2. PICK q \in A \X B : Moves(q) /\ w = <<q[1].name, Place(o, q[1]), Place(n, q[2])>>
    BY <1>1
  <2>3. <<q[2], q[1]>> \in B \X A /\ q[1].name = q[2].name /\ Comes(<<q[2], q[1]>>)
    BY <2>2 DEF Equal
  <2>4. m = <<q[2].name, Place(n, q[2]), Place(o, q[1])>>
    BY <2>1, <2>2, <2>3
  <2>5. QED
    BY <1>2, <2>3, <2>4
<1>5. QED
  BY <1>3, <1>4

LEMMA ReassignmentsSwap ==
    ASSUME NEW o, NEW n
    PROVE  EntitlementReassigned(n, o) = Turned(EntitlementReassigned(o, n))
<1> DEFINE A == Sole(o, "entitlements", "key")
           B == Sole(n, "entitlements", "key")
           Moves(q) == q[1].key = q[2].key /\ Owner(o, q[1]) # Owner(n, q[2])
           Comes(q) == q[1].key = q[2].key /\ Owner(n, q[1]) # Owner(o, q[2])
<1> HIDE DEF A, B
<1>1. \A m : m \in EntitlementReassigned(o, n) <=>
        \E q \in A \X B : Moves(q) /\ m = <<q[1].key, Owner(o, q[1]), Owner(n, q[2])>>
  BY DEF EntitlementReassigned, A, B
<1>2. \A m : m \in EntitlementReassigned(n, o) <=>
        \E q \in B \X A : Comes(q) /\ m = <<q[1].key, Owner(n, q[1]), Owner(o, q[2])>>
  BY DEF EntitlementReassigned, A, B
<1>3. ASSUME NEW m \in EntitlementReassigned(n, o) PROVE m \in Turned(EntitlementReassigned(o, n))
  <2>1. PICK q \in B \X A : Comes(q) /\ m = <<q[1].key, Owner(n, q[1]), Owner(o, q[2])>>
    BY <1>2
  <2>2. <<q[2], q[1]>> \in A \X B /\ Moves(<<q[2], q[1]>>)
    BY <2>1
  <2>3. <<q[2].key, Owner(o, q[2]), Owner(n, q[1])>> \in EntitlementReassigned(o, n)
    BY <1>1, <2>2
  <2>4. QED
    BY <2>1, <2>3 DEF Turned
<1>4. ASSUME NEW m \in Turned(EntitlementReassigned(o, n)) PROVE m \in EntitlementReassigned(n, o)
  <2>1. PICK w \in EntitlementReassigned(o, n) : m = <<w[1], w[3], w[2]>>
    BY DEF Turned
  <2>2. PICK q \in A \X B : Moves(q) /\ w = <<q[1].key, Owner(o, q[1]), Owner(n, q[2])>>
    BY <1>1
  <2>3. <<q[2], q[1]>> \in B \X A /\ Comes(<<q[2], q[1]>>)
    BY <2>2
  <2>4. m = <<q[2].key, Owner(n, q[2]), Owner(o, q[1])>>
    BY <2>1, <2>2
  <2>5. QED
    BY <1>2, <2>3, <2>4
<1>5. QED
  BY <1>3, <1>4

LEMMA ResolutionsSwap ==
    ASSUME NEW o, NEW n
    PROVE  LET r == ResolutionDiff(o, n)
           IN  ResolutionDiff(n, o) = [Exchanged(r) EXCEPT !.changed = Swap(r.changed)]
<1> DEFINE was == BagsByKey(o)
           is == BagsByKey(n)
           Differs(j) == was[j].count # is[j].count \/ was[j].score # is[j].score
           Returns(j) == is[j].count # was[j].count \/ is[j].score # was[j].score
           forth == {<<was[k], is[k]>> : k \in {j \in DOMAIN was \cap DOMAIN is : Differs(j)}}
           back == {<<is[k], was[k]>> : k \in {j \in DOMAIN is \cap DOMAIN was : Returns(j)}}
           come == {is[k] : k \in DOMAIN is \ DOMAIN was}
           gone == {was[k] : k \in DOMAIN was \ DOMAIN is}
<1>1. ResolutionDiff(o, n) = [added |-> come, removed |-> gone, changed |-> forth]
  BY DEF ResolutionDiff, NaturalDiff
<1>2. ResolutionDiff(n, o) = [added |-> gone, removed |-> come, changed |-> back]
  BY DEF ResolutionDiff, NaturalDiff
<1>3. back = Swap(forth)
  <2> HIDE DEF was, is
  <2>1. {j \in DOMAIN is \cap DOMAIN was : Returns(j)}
          = {j \in DOMAIN was \cap DOMAIN is : Differs(j)}
    OBVIOUS
  <2> DEFINE J == {j \in DOMAIN was \cap DOMAIN is : Differs(j)}
  <2>2. back = {<<is[k], was[k]>> : k \in J}
    BY <2>1
  <2>a. forth = {<<was[k], is[k]>> : k \in J}
    OBVIOUS
  <2> HIDE DEF J, back, forth
  <2>3. ASSUME NEW p \in back PROVE p \in Swap(forth)
    <3>1. PICK k \in J : p = <<is[k], was[k]>>
      BY <2>2
    <3>2. <<was[k], is[k]>> \in forth
      BY <2>a
    <3>3. QED
      BY <3>1, <3>2 DEF Swap
  <2>4. ASSUME NEW p \in Swap(forth) PROVE p \in back
    <3>1. PICK q \in forth : p = <<q[2], q[1]>>
      BY DEF Swap
    <3>2. PICK k \in J : q = <<was[k], is[k]>>
      BY <2>a
    <3>3. QED
      BY <2>2, <3>1, <3>2
  <2>5. QED
    BY <2>3, <2>4
<1> DEFINE r == ResolutionDiff(o, n)
<1> HIDE DEF back, forth, come, gone, r
<1>4. r = [added |-> come, removed |-> gone, changed |-> forth] /\ r.changed = forth
  BY <1>1 DEF r
<1>5. Triple(r) /\ r.added = come /\ r.removed = gone
  BY <1>4 DEF Triple
<1>6. ResolutionDiff(n, o) = ExchangedWith(r, Swap(r.changed))
  BY <1>2, <1>3, <1>4, <1>5, Zenon DEF ExchangedWith
<1>7. ResolutionDiff(n, o) = [Exchanged(r) EXCEPT !.changed = Swap(r.changed)]
  BY <1>5, <1>6, ExchangedTriple, Zenon
<1>8. QED
  BY <1>7 DEF r

LEMMA ObservationsSwap ==
    ASSUME NEW o, NEW n, NEW p, Linked(o, p), Linked(n, p),
           NEW identity \in Identities(o) \cup Identities(n)
    PROVE  LET d == ObservationDiff(o, n)[identity]
           IN  ObservationDiff(n, o)[identity] =
                 [Exchanged(d) EXCEPT !.changed =
                    [i \in DOMAIN d.changed |-> <<d.changed[i][2], d.changed[i][1]>>]]
<1> DEFINE was == Remaining(o, n, identity)
           is == Remaining(n, o, identity)
           k == Min({Len(was), Len(is)})
           d == ObservationDiff(o, n)[identity]
           e == ObservationDiff(n, o)[identity]
<1>1. Paired(was, is, k, d)
  BY ObservationsAre
<1>2. Paired(is, was, k, e)
  <2>1. {Len(is), Len(was)} = {Len(was), Len(is)}
    OBVIOUS
  <2>2. Paired(is, was, Min({Len(is), Len(was)}), e)
    BY ObservationsAre
  <2> HIDE DEF was, is, e
  <2>3. QED
    BY <2>1, <2>2
<1> HIDE DEF was, is, k, d, e
<1>3. [i \in DOMAIN d.changed |-> <<d.changed[i][2], d.changed[i][1]>>]
        = [i \in 1..k |-> <<is[i], was[i]>>]
  <2>1. DOMAIN d.changed = 1..k /\ \A i \in 1..k : d.changed[i] = <<was[i], is[i]>>
    BY <1>1 DEF Paired
  <2>2. QED
    BY <2>1
<1>4. /\ e.changed = [i \in 1..k |-> <<is[i], was[i]>>]
      /\ e.removed = d.added /\ e.added = d.removed
      /\ e = [changed |-> e.changed, removed |-> e.removed, added |-> e.added]
      /\ d = [changed |-> d.changed, removed |-> d.removed, added |-> d.added]
  BY <1>1, <1>2, Zenon DEF Paired
<1> DEFINE turned == [i \in DOMAIN d.changed |-> <<d.changed[i][2], d.changed[i][1]>>]
<1>5. e.changed = turned
  BY <1>3, <1>4
<1> HIDE DEF turned
<1>6. e = [Exchanged(d) EXCEPT !.changed = turned]
  <2>1. Triple(d)
    BY <1>4 DEF Triple
  <2>2. e = ExchangedWith(d, turned)
    BY <1>4, <1>5 DEF ExchangedWith
  <2>3. QED
    BY <2>1, <2>2, ExchangedTriple, Zenon
<1>7. QED
  BY <1>6 DEF turned, d, e

\* IcarusDiffer(old, new) and IcarusDiffer(new, old) say the same: what one calls added the
\* other calls removed, and the values of every change are exchanged.
THEOREM SwapExchanges == Spec => []SwapSwaps
<1>1. Inv => SwapSwaps
  <2> SUFFICES ASSUME Inv, report # None PROVE SwapSwaps
    BY DEF SwapSwaps
  <2> DEFINE back == FullDiff(new, old)
  <2>1. report = FullDiff(old, new) /\ Linked(old, topic) /\ Linked(new, topic)
    BY DEF Inv
  <2>2. /\ report.files = NaturalDiff(FileKeys(old), FileKeys(new))
        /\ report.binaries = NaturalDiff(BinaryKeys(old), BinaryKeys(new))
        /\ report.entitlements = NaturalDiff(EntitlementKeys(old), EntitlementKeys(new))
        /\ report.changed = FilesChanged(old, new)
        /\ report.moved = BinaryMoved(old, new)
        /\ report.reassigned = EntitlementReassigned(old, new)
        /\ report.observations = ObservationDiff(old, new)
        /\ report.resolution = ResolutionDiff(old, new)
        /\ report.unresolved = <<{old.observations[i] : i \in Unresolved(old)},
                                 {new.observations[i] : i \in Unresolved(new)}>>
    BY <2>1 DEF FullDiff
  <2>3. /\ back.files = NaturalDiff(FileKeys(new), FileKeys(old))
        /\ back.binaries = NaturalDiff(BinaryKeys(new), BinaryKeys(old))
        /\ back.entitlements = NaturalDiff(EntitlementKeys(new), EntitlementKeys(old))
        /\ back.changed = FilesChanged(new, old)
        /\ back.moved = BinaryMoved(new, old)
        /\ back.reassigned = EntitlementReassigned(new, old)
        /\ back.observations = ObservationDiff(new, old)
        /\ back.resolution = ResolutionDiff(new, old)
        /\ back.unresolved = <<{new.observations[i] : i \in Unresolved(new)},
                               {old.observations[i] : i \in Unresolved(old)}>>
    BY DEF FullDiff
  <2> HIDE DEF back
  <2>4. \A t \in {"files", "binaries", "entitlements"} : back[t] = Exchanged(report[t])
    BY <2>2, <2>3, KeysSwap
  <2>5. back.changed = Swap(report.changed)
    BY <2>2, <2>3, FilesSwap
  <2>6. back.moved = {<<m[1], m[3], m[2]>> : m \in report.moved}
    BY <2>2, <2>3, MovesSwap DEF Turned
  <2>7. back.reassigned = {<<m[1], m[3], m[2]>> : m \in report.reassigned}
    BY <2>2, <2>3, ReassignmentsSwap DEF Turned
  <2>8. back.resolution =
          [Exchanged(report.resolution) EXCEPT !.changed = Swap(report.resolution.changed)]
    BY <2>2, <2>3, ResolutionsSwap
  <2>9. ASSUME NEW identity \in DOMAIN report.observations
        PROVE  LET was == report.observations[identity]
               IN  back.observations[identity] =
                     [Exchanged(was) EXCEPT !.changed =
                        [i \in DOMAIN was.changed |-> <<was.changed[i][2], was.changed[i][1]>>]]
    <3>1. identity \in Identities(old) \cup Identities(new)
      BY <2>2 DEF ObservationDiff
    <3>2. QED
      BY <2>1, <2>2, <2>3, <3>1, ObservationsSwap
  <2>10. back.unresolved = <<report.unresolved[2], report.unresolved[1]>>
    BY <2>2, <2>3
  <2>11. QED
    BY <2>4, <2>5, <2>6, <2>7, <2>8, <2>9, <2>10 DEF SwapSwaps, back
<1>2. QED
  BY <1>1, InvCorrect, PTL

-----------------------------------------------------------------------------
(* A report without differences.                                           *)

\* Whoever holds a content of an identity that can be told has that identity.
LEMMA HeldIsIdentified ==
    ASSUME NEW d, NEW p, Linked(d, p), NEW e, NEW identity \in Identities(e), NEW c,
           Held(d, identity, c) > 0
    PROVE  identity \in Identities(d)
<1>1. PICK x \in Rows(e, "observations") : Subject(e, x) # None /\ identity = Identity(e, x)
  BY DEF Identities
<1>2. identity[2] # None
  BY <1>1 DEF Identity
<1>3. PICK i \in Holding(d, identity, c) : TRUE
  BY HeldIs
<1>4. i \in DOMAIN d.observations /\ Identity(d, d.observations[i]) = identity
  BY <1>3 DEF Holding
<1>5. Subject(d, d.observations[i]) # None
  BY <1>2, <1>4 DEF Identity
<1>6. QED
  BY <1>4, <1>5 DEF Identities, Rows, ToSet

\* Every content is held as often on both sides.
HeldAlike(o, n) ==
    \A identity \in Identities(o) \cup Identities(n), c \in Ranks :
        Held(o, identity, c) = Held(n, identity, c)

NothingRemains(o, n) ==
    \A identity \in Identities(o) \cup Identities(n) :
        Remaining(o, n, identity) = <<>> /\ Remaining(n, o, identity) = <<>>

LEMMA AlikeIsNothing ==
    ASSUME NEW o, NEW n, NEW p, Linked(o, p), Linked(n, p)
    PROVE  HeldAlike(o, n) <=> NothingRemains(o, n)
<1>1. ASSUME NEW identity
      PROVE  (\A c \in Ranks : Held(o, identity, c) = Held(n, identity, c))
               <=> Remaining(o, n, identity) = <<>> /\ Remaining(n, o, identity) = <<>>
  <2>1. \A c \in Ranks :
          Held(o, identity, c) = Held(n, identity, c)
            <=> Excess(o, n, identity, c) = 0 /\ Excess(n, o, identity, c) = 0
    <3>1. TAKE c \in Ranks
    <3>2. Held(o, identity, c) \in Nat /\ Held(n, identity, c) \in Nat
      BY HeldIs
    <3>3. QED
      BY <3>2 DEF Excess
  <2>2. Remaining(o, n, identity) = <<>> <=> \A c \in Ranks : Excess(o, n, identity, c) = 0
    BY RemainingIs
  <2>3. Remaining(n, o, identity) = <<>> <=> \A c \in Ranks : Excess(n, o, identity, c) = 0
    BY RemainingIs
  <2>4. QED
    BY <2>1, <2>2, <2>3
<1>2. QED
  BY <1>1 DEF HeldAlike, NothingRemains

LEMMA AlikeIsSame ==
    ASSUME NEW o, NEW n, NEW p, Linked(o, p), Linked(n, p)
    PROVE  HeldAlike(o, n) <=> Observed(o) = Observed(n)
<1>1. \A d, x : x \in Observed(d) <=>
        \E identity \in Identities(d), c \in Ranks :
            Held(d, identity, c) > 0 /\ x = <<identity, c, Held(d, identity, c)>>
  <2>1. TAKE d, x
  <2>2. x \in Observed(d) <=>
          \E y \in Identities(d) \X Ranks :
            Held(d, y[1], y[2]) > 0 /\ x = <<y[1], y[2], Held(d, y[1], y[2])>>
    BY DEF Observed
  <2>3. \A identity \in Identities(d), c \in Ranks :
          <<identity, c>> \in Identities(d) \X Ranks
    OBVIOUS
  <2>4. QED
    BY <2>2, <2>3
<1>2. ASSUME HeldAlike(o, n) PROVE Observed(o) = Observed(n)
  <2>1. ASSUME NEW x \in Observed(o) PROVE x \in Observed(n)
    <3>1. PICK identity \in Identities(o), c \in Ranks :
            Held(o, identity, c) > 0 /\ x = <<identity, c, Held(o, identity, c)>>
      BY <1>1
    <3>2. Held(n, identity, c) = Held(o, identity, c)
      BY <1>2 DEF HeldAlike
    <3>3. identity \in Identities(n)
      BY <3>1, <3>2, HeldIsIdentified
    <3>4. QED
      BY <1>1, <3>1, <3>2, <3>3
  <2>2. ASSUME NEW x \in Observed(n) PROVE x \in Observed(o)
    <3>1. PICK identity \in Identities(n), c \in Ranks :
            Held(n, identity, c) > 0 /\ x = <<identity, c, Held(n, identity, c)>>
      BY <1>1
    <3>2. Held(n, identity, c) = Held(o, identity, c)
      BY <1>2 DEF HeldAlike
    <3>3. identity \in Identities(o)
      BY <3>1, <3>2, HeldIsIdentified
    <3>4. QED
      BY <1>1, <3>1, <3>2, <3>3
  <2>3. QED
    BY <2>1, <2>2
<1>3. ASSUME Observed(o) = Observed(n),
             NEW identity \in Identities(o) \cup Identities(n), NEW c \in Ranks
      PROVE  Held(o, identity, c) = Held(n, identity, c)
  <2>1. Held(o, identity, c) \in Nat /\ Held(n, identity, c) \in Nat
    BY HeldIs
  <2>2. CASE Held(o, identity, c) > 0
    <3>1. identity \in Identities(o)
      BY <2>2, HeldIsIdentified
    <3>2. <<identity, c, Held(o, identity, c)>> \in Observed(n)
      BY <1>1, <1>3, <2>2, <3>1
    <3>3. QED
      BY <1>1, <3>2
  <2>3. CASE Held(n, identity, c) > 0
    <3>1. identity \in Identities(n)
      BY <2>3, HeldIsIdentified
    <3>2. <<identity, c, Held(n, identity, c)>> \in Observed(o)
      BY <1>1, <1>3, <2>3, <3>1
    <3>3. QED
      BY <1>1, <3>2
  <2>4. QED
    BY <2>1, <2>2, <2>3
<1>4. QED
  BY <1>2, <1>3 DEF HeldAlike

\* Nothing is reported of observations exactly when nothing remains.
LEMMA NothingIsSilent ==
    ASSUME NEW o, NEW n, NEW p, Linked(o, p), Linked(n, p)
    PROVE  NothingRemains(o, n) <=>
             \A identity \in DOMAIN ObservationDiff(o, n) :
               \A kind \in {"added", "removed", "changed"} :
                 ObservationDiff(o, n)[identity][kind] = <<>>
<1>1. DOMAIN ObservationDiff(o, n) = Identities(o) \cup Identities(n)
  BY DEF ObservationDiff
<1>2. ASSUME NEW identity \in Identities(o) \cup Identities(n)
      PROVE  (Remaining(o, n, identity) = <<>> /\ Remaining(n, o, identity) = <<>>)
               <=> \A kind \in {"added", "removed", "changed"} :
                     ObservationDiff(o, n)[identity][kind] = <<>>
  <2> DEFINE was == Remaining(o, n, identity)
             is == Remaining(n, o, identity)
             k == Min({Len(was), Len(is)})
             d == ObservationDiff(o, n)[identity]
  <2>1. Paired(was, is, k, d)
    BY ObservationsAre
  <2> HIDE DEF was, is, k, d
  <2>2. /\ was \in Seq(Ranks) /\ is \in Seq(Ranks) /\ k \in Nat
        /\ k <= Len(was) /\ k <= Len(is)
    BY <2>1 DEF Paired
  <2>3. d.removed = <<>> <=> k = Len(was)
    BY <2>1, <2>2, RestOf DEF Paired
  <2>4. d.added = <<>> <=> k = Len(is)
    BY <2>1, <2>2, RestOf DEF Paired
  <2>5. d.changed = <<>> <=> k = 0
    <3>1. d.changed = [i \in 1..k |-> <<was[i], is[i]>>]
      BY <2>1 DEF Paired
    <3>2. Len(d.changed) = k /\ (k = 0 => d.changed = <<>>)
      BY <2>2, <3>1
    <3>3. QED
      BY <3>2
  <2>6. (was = <<>> <=> Len(was) = 0) /\ (is = <<>> <=> Len(is) = 0)
    BY <2>2
  <2>7. (was = <<>> /\ is = <<>>) <=> (d.added = <<>> /\ d.removed = <<>> /\ d.changed = <<>>)
    BY <2>2, <2>3, <2>4, <2>5, <2>6
  <2>8. QED
    BY <2>7 DEF was, is, d
<1>3. QED
  BY <1>1, <1>2 DEF NothingRemains

\* The bag that a canonical key stands for, if no other has it.
LEMMA KeyedBags ==
    ASSUME NEW d, NEW p, Linked(d, p), OneBagPerKey(d)
    PROVE  LET by == BagsByKey(d)
           IN  /\ \A i \in LiveBags(d) :
                    d.bags[i].key \in DOMAIN by /\ by[d.bags[i].key] = d.bags[i]
               /\ \A k \in DOMAIN by : \E i \in LiveBags(d) : d.bags[i].key = k /\ by[k] = d.bags[i]
<1> DEFINE by == BagsByKey(d)
           Of(k) == {i \in LiveBags(d) : d.bags[i].key = k}
<1>1. LiveBags(d) = {i \in DOMAIN d.bags : Counted(d.bags[i])}
  BY DEF LiveBags, Counted
<1>2. by = [k \in {d.bags[i].key : i \in LiveBags(d)} |-> d.bags[Max(Of(k))]]
  BY <1>1 DEF BagsByKey
<1>3. LiveBags(d) \subseteq Nat
  <2>1. d.bags \in Seq(RowsOf[p]["bags"])
    BY TablesAre DEF Linked
  <2>2. QED
    BY <2>1 DEF LiveBags
<1>4. ASSUME NEW i \in LiveBags(d) PROVE Max(Of(d.bags[i].key)) = i
  <2>1. Of(d.bags[i].key) = {i}
    BY DEF OneBagPerKey
  <2>2. Max({i}) = i
    BY <1>3 DEF Max
  <2>3. QED
    BY <2>1, <2>2
<1> HIDE DEF by, Of
<1>5. DOMAIN by = {d.bags[i].key : i \in LiveBags(d)}
  BY <1>2
<1>6. \A i \in LiveBags(d) : d.bags[i].key \in DOMAIN by /\ by[d.bags[i].key] = d.bags[i]
  BY <1>2, <1>4, <1>5
<1>7. \A k \in DOMAIN by : \E i \in LiveBags(d) : d.bags[i].key = k /\ by[k] = d.bags[i]
  BY <1>5, <1>6
<1>8. QED
  BY <1>6, <1>7 DEF by

LEMMA BagRow ==
    ASSUME NEW d, NEW p, Linked(d, p), NEW i \in DOMAIN d.bags
    PROVE  LET b == d.bags[i] IN b = [key |-> b.key, count |-> b.count, score |-> b.score]
<1>1. d.bags \in Seq(RowsOf[p]["bags"]) /\ p \in Topics
  BY TablesAre DEF Linked
<1>2. d.bags[i] \in RowsOf[p]["bags"]
  BY <1>1
<1>3. QED
  BY <1>1, <1>2, DifferAssumption

LEMMA SilentBags ==
    ASSUME NEW o, NEW n, NEW p, Linked(o, p), Linked(n, p), OneBagPerKey(o), OneBagPerKey(n),
           ResolutionDiff(o, n).added = {}, ResolutionDiff(o, n).removed = {},
           ResolutionDiff(o, n).changed = {}
    PROVE  {o.bags[i] : i \in LiveBags(o)} = {n.bags[i] : i \in LiveBags(n)}
<1> DEFINE was == BagsByKey(o)
           is == BagsByKey(n)
<1>1. /\ {is[k] : k \in DOMAIN is \ DOMAIN was} = {}
      /\ {was[k] : k \in DOMAIN was \ DOMAIN is} = {}
      /\ {<<was[k], is[k]>> : k \in {j \in DOMAIN was \cap DOMAIN is :
            was[j].count # is[j].count \/ was[j].score # is[j].score}} = {}
  BY DEF ResolutionDiff, NaturalDiff
<1>2. /\ \A i \in LiveBags(o) : o.bags[i].key \in DOMAIN was /\ was[o.bags[i].key] = o.bags[i]
      /\ \A k \in DOMAIN was : \E i \in LiveBags(o) : o.bags[i].key = k /\ was[k] = o.bags[i]
  BY KeyedBags
<1>3. /\ \A i \in LiveBags(n) : n.bags[i].key \in DOMAIN is /\ is[n.bags[i].key] = n.bags[i]
      /\ \A k \in DOMAIN is : \E i \in LiveBags(n) : n.bags[i].key = k /\ is[k] = n.bags[i]
  BY KeyedBags
<1>4. LiveBags(o) \subseteq DOMAIN o.bags /\ LiveBags(n) \subseteq DOMAIN n.bags
  BY DEF LiveBags
<1> HIDE DEF was, is
<1>5. DOMAIN was = DOMAIN is
  BY <1>1
<1>6. \A k \in DOMAIN was : was[k].count = is[k].count /\ was[k].score = is[k].score
  <2>1. TAKE k \in DOMAIN was
  <2>2. k \notin {j \in DOMAIN was \cap DOMAIN is :
                    was[j].count # is[j].count \/ was[j].score # is[j].score}
    BY <1>1
  <2>3. QED
    BY <1>5, <2>2
<1>7. \A k \in DOMAIN was : was[k] = is[k]
  <2>1. TAKE k \in DOMAIN was
  <2>2. PICK i \in LiveBags(o) : o.bags[i].key = k /\ was[k] = o.bags[i]
    BY <1>2
  <2>3. PICK j \in LiveBags(n) : n.bags[j].key = k /\ is[k] = n.bags[j]
    BY <1>3, <1>5
  <2>4. LET b == o.bags[i] IN b = [key |-> b.key, count |-> b.count, score |-> b.score]
    BY <1>4, BagRow
  <2>5. LET b == n.bags[j] IN b = [key |-> b.key, count |-> b.count, score |-> b.score]
    BY <1>4, BagRow
  <2>6. QED
    BY <1>6, <2>2, <2>3, <2>4, <2>5
<1>8. ASSUME NEW i \in LiveBags(o) PROVE \E j \in LiveBags(n) : n.bags[j] = o.bags[i]
  BY <1>2, <1>3, <1>5, <1>7
<1>9. ASSUME NEW j \in LiveBags(n) PROVE \E i \in LiveBags(o) : n.bags[j] = o.bags[i]
  BY <1>2, <1>3, <1>5, <1>7
<1>10. QED
  BY <1>8, <1>9

\* An empty report means what it says: there is no difference in files, binaries,
\* entitlements, resolved bags or observations that the comparison passes over.
THEOREM SilenceIsSameness == Spec => []SilentMeansSame
<1>1. Inv => SilentMeansSame
  <2> SUFFICES ASSUME Inv, report # None, Silent(report), OneBagPerKey(old), OneBagPerKey(new)
               PROVE  /\ FileKeys(old) = FileKeys(new)
                      /\ \A f \in Rows(old, "files"), g \in Rows(new, "files") :
                            f.path = g.path => f.sha256 = g.sha256 \/ f.size = g.size
                      /\ BinaryKeys(old) = BinaryKeys(new)
                      /\ EntitlementKeys(old) = EntitlementKeys(new)
                      /\ Observed(old) = Observed(new)
                      /\ {old.bags[i] : i \in LiveBags(old)} = {new.bags[i] : i \in LiveBags(new)}
    BY Zenon DEF SilentMeansSame
  <2>1. report = FullDiff(old, new) /\ Linked(old, topic) /\ Linked(new, topic)
    BY DEF Inv
  <2>2. /\ report.files = NaturalDiff(FileKeys(old), FileKeys(new))
        /\ report.binaries = NaturalDiff(BinaryKeys(old), BinaryKeys(new))
        /\ report.entitlements = NaturalDiff(EntitlementKeys(old), EntitlementKeys(new))
        /\ report.changed = FilesChanged(old, new)
        /\ report.observations = ObservationDiff(old, new)
        /\ report.resolution = ResolutionDiff(old, new)
    BY <2>1 DEF FullDiff
  <2>3. \A t \in {"files", "binaries", "entitlements", "resolution"} :
            report[t].added = {} /\ report[t].removed = {}
    BY Zenon DEF Silent
  <2>4. report.changed = {} /\ report.resolution.changed = {}
    BY Zenon DEF Silent
  <2>5. \A identity \in DOMAIN report.observations :
          \A kind \in {"added", "removed", "changed"} : report.observations[identity][kind] = <<>>
    BY Zenon DEF Silent
  <2>6. \A A, B : NaturalDiff(A, B).added = {} /\ NaturalDiff(A, B).removed = {} => A = B
    BY DEF NaturalDiff
  <2>7. /\ FileKeys(old) = FileKeys(new)
        /\ BinaryKeys(old) = BinaryKeys(new)
        /\ EntitlementKeys(old) = EntitlementKeys(new)
    BY <2>2, <2>3, <2>6
  <2>8. ASSUME NEW f \in Rows(old, "files"), NEW g \in Rows(new, "files"), f.path = g.path
        PROVE  f.sha256 = g.sha256 \/ f.size = g.size
    <3>1. <<f, g>> \notin FilesChanged(old, new)
      BY <2>2, <2>4
    <3>2. ~ContentDiffers(f, g)
      BY <2>8, <3>1 DEF FilesChanged
    <3>3. QED
      BY <3>2 DEF ContentDiffers
  <2>9. Observed(old) = Observed(new)
    <3>1. NothingRemains(old, new)
      BY <2>1, <2>2, <2>5, NothingIsSilent
    <3>2. QED
      BY <2>1, <3>1, AlikeIsNothing, AlikeIsSame
  <2>10. {old.bags[i] : i \in LiveBags(old)} = {new.bags[i] : i \in LiveBags(new)}
    <3>1. /\ ResolutionDiff(old, new).added = {} /\ ResolutionDiff(old, new).removed = {}
          /\ ResolutionDiff(old, new).changed = {}
      BY <2>2, <2>3, <2>4
    <3>2. QED
      BY <2>1, <3>1, SilentBags
  <2>11. QED
    BY <2>7, <2>8, <2>9, <2>10
<1>2. QED
  BY <1>1, InvCorrect, PTL

-----------------------------------------------------------------------------
(* Two databases of one content.                                           *)

\* A path names one binary.
LEMMA PathIsUnique ==
    ASSUME NEW d, NEW p, Linked(d, p),
           NEW b \in Rows(d, "binaries"), NEW c \in Rows(d, "binaries"),
           PathOf(d, b) = PathOf(d, c)
    PROVE  b = c
<1>1. PICK i \in DOMAIN d.binaries : b = d.binaries[i]
  BY DEF Rows, ToSet
<1>2. PICK j \in DOMAIN d.binaries : c = d.binaries[j]
  BY DEF Rows, ToSet
<1>3. b.file \in DOMAIN d.files /\ c.file \in DOMAIN d.files
  BY <1>1, <1>2 DEF Linked
<1>4. b.file = c.file
  BY <1>3 DEF Linked, PathOf
<1>5. QED
  BY <1>1, <1>2, <1>4 DEF Linked

Triples(d) == {<<PathOf(d, b), b.name, b.bundle>> : b \in Rows(d, "binaries")}

Reaches(d, e) == <<PathOf(d, d.binaries[e.binary]), e.key>>

\* What is the same when two databases have one content.
Alike(o, n) ==
    /\ Rows(o, "files") = Rows(n, "files")
    /\ Triples(o) = Triples(n)
    /\ {Reaches(o, e) : e \in Rows(o, "entitlements")}
         = {Reaches(n, e) : e \in Rows(n, "entitlements")}

LEMMA AlikeIsMutual ==
    ASSUME NEW o, NEW n, Alike(o, n)
    PROVE  Alike(n, o)
BY DEF Alike

LEMMA SameIsAlike ==
    ASSUME NEW o, NEW n, Content(o) = Content(n)
    PROVE  /\ Alike(o, n)
           /\ Observed(o) = Observed(n)
           /\ Counts(o.bags, LAMBDA b : b) = Counts(n.bags, LAMBDA b : b)
<1>1. \A d : /\ Content(d).files = Rows(d, "files")
             /\ Content(d).binaries = Triples(d)
             /\ Content(d).observations = Observed(d)
             /\ Content(d).bags = Counts(d.bags, LAMBDA b : b)
  BY DEF Content, Triples
<1>2. \A d : DOMAIN Content(d).entitlements = {Reaches(d, e) : e \in Rows(d, "entitlements")}
  <2>1. TAKE d
  <2>2. DOMAIN Content(d).entitlements
          = {Reaches(d, d.entitlements[i]) : i \in DOMAIN d.entitlements}
    BY DEF Content, Counts, Reaches
  <2>3. QED
    BY <2>2 DEF Rows, ToSet
<1>3. QED
  BY <1>1, <1>2 DEF Alike

\* A binary of one side is the one of its path on the other.
LEMMA SameBinary ==
    ASSUME NEW o, NEW n, NEW p, Linked(o, p), Linked(n, p), Alike(o, n),
           NEW b \in Rows(o, "binaries")
    PROVE  /\ \E c \in Rows(n, "binaries") :
                PathOf(n, c) = PathOf(o, b) /\ c.name = b.name /\ c.bundle = b.bundle
           /\ \A c \in Rows(n, "binaries") :
                PathOf(n, c) = PathOf(o, b) => c.name = b.name /\ c.bundle = b.bundle
<1>1. <<PathOf(o, b), b.name, b.bundle>> \in Triples(n)
  BY DEF Alike, Triples
<1>2. PICK c \in Rows(n, "binaries") :
        <<PathOf(o, b), b.name, b.bundle>> = <<PathOf(n, c), c.name, c.bundle>>
  BY <1>1 DEF Triples
<1>3. PathOf(n, c) = PathOf(o, b) /\ c.name = b.name /\ c.bundle = b.bundle
  BY <1>2
<1>4. \A q \in Rows(n, "binaries") : PathOf(n, q) = PathOf(n, c) => q = c
  BY PathIsUnique
<1>5. QED
  BY <1>3, <1>4

\* An entitlement of one side is on the other, of a binary with the same path, name and
\* bundle.
LEMMA SameEntitlement ==
    ASSUME NEW o, NEW n, NEW p, Linked(o, p), Linked(n, p), Alike(o, n),
           NEW e \in Rows(o, "entitlements")
    PROVE  \E f \in Rows(n, "entitlements") :
             /\ f.key = e.key
             /\ n.binaries[f.binary].bundle = o.binaries[e.binary].bundle
             /\ Owner(n, f) = Owner(o, e)
<1>1. \A d, x : Linked(d, p) /\ x \in Rows(d, "entitlements")
                  => d.binaries[x.binary] \in Rows(d, "binaries")
  BY DEF Linked, Rows, ToSet
<1>2. PICK f \in Rows(n, "entitlements") : Reaches(n, f) = Reaches(o, e)
  BY DEF Alike
<1> DEFINE b == o.binaries[e.binary]
           c == n.binaries[f.binary]
<1>3. b \in Rows(o, "binaries") /\ c \in Rows(n, "binaries")
  BY <1>1
<1>4. PathOf(n, c) = PathOf(o, b) /\ f.key = e.key
  BY <1>2 DEF Reaches
<1>5. c.name = b.name /\ c.bundle = b.bundle
  BY <1>3, <1>4, SameBinary
<1>6. Owner(n, f) = Owner(o, e)
  BY <1>4, <1>5 DEF Owner
<1>7. QED
  BY <1>4, <1>5, <1>6

\* A row whose name is its own is the only one of that name.
LEMMA SoleIsOnly ==
    ASSUME NEW d, NEW p, Linked(d, p), NEW t \in Tables, NEW name,
           NEW r \in Sole(d, t, name), NEW x \in Rows(d, t), x[name] = r[name]
    PROVE  x = r
<1> DEFINE I == {i \in DOMAIN d[t] : d[t][i][name] = r[name]}
<1>1. r \in Rows(d, t) /\ Cardinality(I) = 1
  BY DEF Sole
<1>2. d[t] \in Seq(RowsOf[p][t])
  BY DEF Linked
<1>3. IsFiniteSet(I)
  BY <1>2, FinitelyMany
<1>4. PICK i \in DOMAIN d[t] : r = d[t][i]
  BY <1>1 DEF Rows, ToSet
<1>5. PICK j \in DOMAIN d[t] : x = d[t][j]
  BY DEF Rows, ToSet
<1>6. i \in I /\ j \in I
  BY <1>4, <1>5
<1>7. \E y : I = {y}
  BY <1>1, <1>3, FS_Singleton
<1>8. i = j
  BY <1>6, <1>7
<1>9. QED
  BY <1>4, <1>5, <1>8

LEMMA NothingChanged ==
    ASSUME NEW o, NEW n, NEW p, Linked(o, p), Alike(o, n)
    PROVE  FilesChanged(o, n) = {}
<1>1. SUFFICES ASSUME NEW q \in FilesChanged(o, n) PROVE FALSE
  OBVIOUS
<1>2. /\ q[1] \in Rows(o, "files") /\ q[2] \in Rows(o, "files")
      /\ q[1].path = q[2].path /\ ContentDiffers(q[1], q[2])
  BY DEF FilesChanged, Alike
<1>3. PICK i \in DOMAIN o.files : q[1] = o.files[i]
  BY <1>2 DEF Rows, ToSet
<1>4. PICK j \in DOMAIN o.files : q[2] = o.files[j]
  BY <1>2 DEF Rows, ToSet
<1>5. q[1] = q[2]
  BY <1>2, <1>3, <1>4 DEF Linked
<1>6. QED
  BY <1>2, <1>5 DEF ContentDiffers

LEMMA NothingMoved ==
    ASSUME NEW o, NEW n, NEW p, Linked(o, p), Linked(n, p), Alike(o, n)
    PROVE  BinaryMoved(o, n) = {}
<1>1. SUFFICES ASSUME NEW m \in BinaryMoved(o, n) PROVE FALSE
  OBVIOUS
<1>2. PICK q \in Sole(o, "binaries", "name") \X Sole(n, "binaries", "name") :
        Equal(q[1].name, q[2].name) /\ Place(o, q[1]) # Place(n, q[2])
  BY DEF BinaryMoved
<1>3. q[1] \in Rows(o, "binaries") /\ q[2] \in Sole(n, "binaries", "name") /\ q[1].name = q[2].name
  BY <1>2 DEF Sole, Equal
<1>4. PICK c \in Rows(n, "binaries") : PathOf(n, c) = PathOf(o, q[1]) /\ c.name = q[1].name
  BY <1>3, SameBinary
<1>5. c = q[2]
  <2>1. c["name"] = q[2]["name"] /\ "binaries" \in Tables
    BY <1>3, <1>4, TablesAre
  <2>2. QED
    BY <1>3, <2>1, SoleIsOnly
<1>6. QED
  BY <1>2, <1>4, <1>5 DEF Place

LEMMA NothingReassigned ==
    ASSUME NEW o, NEW n, NEW p, Linked(o, p), Linked(n, p), Alike(o, n)
    PROVE  EntitlementReassigned(o, n) = {}
<1>1. SUFFICES ASSUME NEW m \in EntitlementReassigned(o, n) PROVE FALSE
  OBVIOUS
<1>2. PICK q \in Sole(o, "entitlements", "key") \X Sole(n, "entitlements", "key") :
        q[1].key = q[2].key /\ Owner(o, q[1]) # Owner(n, q[2])
  BY DEF EntitlementReassigned
<1>3. q[1] \in Rows(o, "entitlements") /\ q[2] \in Sole(n, "entitlements", "key")
  BY <1>2 DEF Sole
<1>4. PICK f \in Rows(n, "entitlements") : f.key = q[1].key /\ Owner(n, f) = Owner(o, q[1])
  BY <1>3, SameEntitlement
<1>5. f = q[2]
  <2>1. f["key"] = q[2]["key"] /\ "entitlements" \in Tables
    BY <1>2, <1>4, TablesAre
  <2>2. QED
    BY <1>3, <2>1, SoleIsOnly
<1>6. QED
  BY <1>2, <1>4, <1>5

LEMMA KeysInclude ==
    ASSUME NEW o, NEW n, NEW p, Linked(o, p), Linked(n, p), Alike(o, n)
    PROVE  /\ FileKeys(o) \subseteq FileKeys(n)
           /\ BinaryKeys(o) \subseteq BinaryKeys(n)
           /\ EntitlementKeys(o) \subseteq EntitlementKeys(n)
<1>1. FileKeys(o) \subseteq FileKeys(n)
  BY DEF FileKeys, Alike
<1>2. ASSUME NEW k \in BinaryKeys(o) PROVE k \in BinaryKeys(n)
  <2>1. PICK b \in Rows(o, "binaries") : k = PathOf(o, b)
    BY DEF BinaryKeys
  <2>2. \E c \in Rows(n, "binaries") : PathOf(n, c) = PathOf(o, b)
    BY SameBinary
  <2>3. QED
    BY <2>1, <2>2 DEF BinaryKeys
<1>3. ASSUME NEW k \in EntitlementKeys(o) PROVE k \in EntitlementKeys(n)
  <2>1. PICK e \in Rows(o, "entitlements") : k = <<o.binaries[e.binary].bundle, e.key>>
    BY DEF EntitlementKeys
  <2>2. PICK f \in Rows(n, "entitlements") :
          f.key = e.key /\ n.binaries[f.binary].bundle = o.binaries[e.binary].bundle
    BY SameEntitlement
  <2>3. QED
    BY <2>1, <2>2 DEF EntitlementKeys
<1>4. QED
  BY <1>1, <1>2, <1>3

\* A key of one bag on one side is of one bag on the other.
LEMMA SameBags ==
    ASSUME NEW o, NEW n, NEW p, Linked(o, p), Linked(n, p), OneBagPerKey(o),
           Counts(o.bags, LAMBDA b : b) = Counts(n.bags, LAMBDA b : b)
    PROVE  OneBagPerKey(n) /\ BagsByKey(o) = BagsByKey(n)
<1> DEFINE Count(d, x) == Cardinality({i \in DOMAIN d.bags : d.bags[i] = x})
           All(d) == {d.bags[i] : i \in DOMAIN d.bags}
<1>1. \A d : Counts(d.bags, LAMBDA b : b) = [x \in All(d) |-> Count(d, x)]
  BY DEF Counts
<1> HIDE DEF Count, All
<1>2. All(o) = All(n) /\ \A x \in All(o) : Count(o, x) = Count(n, x)
  <2>1. [x \in All(o) |-> Count(o, x)] = [x \in All(n) |-> Count(n, x)]
    BY <1>1
  <2> DEFINE f == [x \in All(o) |-> Count(o, x)]
             g == [x \in All(n) |-> Count(n, x)]
  <2>2. f = g /\ DOMAIN f = All(o) /\ DOMAIN g = All(n)
    BY <2>1
  <2>3. (\A x \in All(o) : f[x] = Count(o, x)) /\ (\A x \in All(n) : g[x] = Count(n, x))
    OBVIOUS
  <2> HIDE DEF f, g
  <2>4. QED
    BY <2>2, <2>3
<1>3. \A d, i : i \in LiveBags(d) <=>
                  i \in DOMAIN d.bags /\ d.bags[i].key # None /\ d.bags[i].count > 0
  BY DEF LiveBags
<1>4. ASSUME NEW i \in LiveBags(n) PROVE \E a \in LiveBags(o) : o.bags[a] = n.bags[i]
  <2>1. n.bags[i] \in All(o)
    BY <1>2, <1>3 DEF All
  <2>2. PICK a \in DOMAIN o.bags : o.bags[a] = n.bags[i]
    BY <2>1 DEF All
  <2>3. QED
    BY <1>3, <2>2
<1>5. ASSUME NEW a \in LiveBags(o) PROVE \E i \in LiveBags(n) : n.bags[i] = o.bags[a]
  <2>1. o.bags[a] \in All(n)
    BY <1>2, <1>3 DEF All
  <2>2. PICK i \in DOMAIN n.bags : n.bags[i] = o.bags[a]
    BY <2>1 DEF All
  <2>3. QED
    BY <1>3, <2>2
<1>6. ASSUME NEW i \in LiveBags(n), NEW j \in LiveBags(n), n.bags[i].key = n.bags[j].key
      PROVE  i = j
  <2>1. PICK a \in LiveBags(o) : o.bags[a] = n.bags[i]
    BY <1>4
  <2>2. PICK b \in LiveBags(o) : o.bags[b] = n.bags[j]
    BY <1>4
  <2>3. a = b
    BY <1>6, <2>1, <2>2 DEF OneBagPerKey
  <2> DEFINE x == o.bags[a]
             I == {k \in DOMAIN n.bags : n.bags[k] = x}
             A == {k \in DOMAIN o.bags : o.bags[k] = x}
  <2>4. n.bags[i] = x /\ n.bags[j] = x
    BY <2>1, <2>2, <2>3
  <2>5. A = {a}
    <3>1. a \in A
      BY <1>3
    <3>2. ASSUME NEW k \in A PROVE k = a
      <4>1. k \in LiveBags(o) /\ o.bags[k].key = o.bags[a].key
        BY <1>3
      <4>2. QED
        BY <4>1 DEF OneBagPerKey
    <3>3. QED
      BY <3>1, <3>2
  <2>6. Cardinality(A) = 1
    BY <2>5, FS_Singleton
  <2>7. Cardinality(I) = 1
    <3>1. x \in All(o)
      BY <1>3 DEF All
    <3>2. Count(o, x) = Count(n, x)
      BY <1>2, <3>1
    <3>3. QED
      BY <2>6, <3>2 DEF Count
  <2>8. IsFiniteSet(I)
    <3>1. n.bags \in Seq(RowsOf[p]["bags"])
      BY TablesAre DEF Linked
    <3>2. QED
      BY <3>1, FinitelyMany
  <2>9. i \in I /\ j \in I
    BY <1>3, <2>4
  <2>10. \E y : I = {y}
    BY <2>7, <2>8, FS_Singleton
  <2>11. QED
    BY <2>9, <2>10
<1>7. OneBagPerKey(n)
  BY <1>6 DEF OneBagPerKey
<1> DEFINE was == BagsByKey(o)
           is == BagsByKey(n)
<1>8. /\ \A a \in LiveBags(o) : o.bags[a].key \in DOMAIN was /\ was[o.bags[a].key] = o.bags[a]
      /\ \A k \in DOMAIN was : \E a \in LiveBags(o) : o.bags[a].key = k /\ was[k] = o.bags[a]
  BY KeyedBags
<1>9. /\ \A i \in LiveBags(n) : n.bags[i].key \in DOMAIN is /\ is[n.bags[i].key] = n.bags[i]
      /\ \A k \in DOMAIN is : \E i \in LiveBags(n) : n.bags[i].key = k /\ is[k] = n.bags[i]
  BY <1>7, KeyedBags
<1>10. was = [k \in DOMAIN was |-> was[k]] /\ is = [k \in DOMAIN is |-> is[k]]
  BY DEF BagsByKey
<1> HIDE DEF was, is
<1>11. ASSUME NEW k \in DOMAIN was PROVE k \in DOMAIN is /\ is[k] = was[k]
  <2>1. PICK a \in LiveBags(o) : o.bags[a].key = k /\ was[k] = o.bags[a]
    BY <1>8
  <2>2. PICK i \in LiveBags(n) : n.bags[i] = o.bags[a]
    BY <1>5
  <2>3. QED
    BY <1>9, <2>1, <2>2
<1>12. ASSUME NEW k \in DOMAIN is PROVE k \in DOMAIN was
  <2>1. PICK i \in LiveBags(n) : n.bags[i].key = k
    BY <1>9
  <2>2. PICK a \in LiveBags(o) : o.bags[a] = n.bags[i]
    BY <1>4
  <2>3. QED
    BY <1>8, <2>1, <2>2
<1>13. DOMAIN was = DOMAIN is
  BY <1>11, <1>12
<1>14. was = is
  BY <1>10, <1>11, <1>13
<1>15. QED
  BY <1>7, <1>14 DEF was, is

\* Two builds of one content have no difference, in whatever order their rows were inserted
\* and whatever ids they got.
THEOREM SamenessIsSilence == Spec => []SameIsSilent
<1>1. Inv => SameIsSilent
  <2> SUFFICES ASSUME Inv, report # None, Content(old) = Content(new), OneBagPerKey(old)
               PROVE  Silent(report)
    BY DEF SameIsSilent
  <2>1. report = FullDiff(old, new) /\ Linked(old, topic) /\ Linked(new, topic)
    BY DEF Inv
  <2>2. /\ report.files = NaturalDiff(FileKeys(old), FileKeys(new))
        /\ report.binaries = NaturalDiff(BinaryKeys(old), BinaryKeys(new))
        /\ report.entitlements = NaturalDiff(EntitlementKeys(old), EntitlementKeys(new))
        /\ report.changed = FilesChanged(old, new)
        /\ report.moved = BinaryMoved(old, new)
        /\ report.reassigned = EntitlementReassigned(old, new)
        /\ report.observations = ObservationDiff(old, new)
        /\ report.resolution = ResolutionDiff(old, new)
    BY <2>1 DEF FullDiff
  <2>3. /\ Alike(old, new) /\ Observed(old) = Observed(new)
        /\ Counts(old.bags, LAMBDA b : b) = Counts(new.bags, LAMBDA b : b)
    BY SameIsAlike
  <2>4. Alike(new, old)
    BY <2>3, AlikeIsMutual
  <2>5. /\ FileKeys(old) = FileKeys(new)
        /\ BinaryKeys(old) = BinaryKeys(new)
        /\ EntitlementKeys(old) = EntitlementKeys(new)
    <3>1. /\ FileKeys(old) \subseteq FileKeys(new)
          /\ BinaryKeys(old) \subseteq BinaryKeys(new)
          /\ EntitlementKeys(old) \subseteq EntitlementKeys(new)
      <4>1. Alike(old, new)
        BY <2>3
      <4>2. QED
        BY <2>1, <4>1, KeysInclude
    <3>2. /\ FileKeys(new) \subseteq FileKeys(old)
          /\ BinaryKeys(new) \subseteq BinaryKeys(old)
          /\ EntitlementKeys(new) \subseteq EntitlementKeys(old)
      BY <2>1, <2>4, KeysInclude
    <3>3. QED
      BY <3>1, <3>2
  <2>6. \A A : NaturalDiff(A, A).added = {} /\ NaturalDiff(A, A).removed = {}
    BY DEF NaturalDiff
  <2>7. report.changed = {} /\ report.moved = {} /\ report.reassigned = {}
    BY <2>1, <2>2, <2>3, NothingChanged, NothingMoved, NothingReassigned
  <2>8. /\ report.resolution.added = {} /\ report.resolution.removed = {}
        /\ report.resolution.changed = {}
    <3>1. BagsByKey(old) = BagsByKey(new)
      BY <2>1, <2>3, SameBags
    <3> DEFINE by == BagsByKey(old)
    <3>2. report.resolution =
            [added |-> {by[k] : k \in DOMAIN by \ DOMAIN by},
             removed |-> {by[k] : k \in DOMAIN by \ DOMAIN by},
             changed |-> {<<by[k], by[k]>> : k \in {j \in DOMAIN by \cap DOMAIN by :
                            by[j].count # by[j].count \/ by[j].score # by[j].score}}]
      BY <2>2, <3>1, Zenon DEF ResolutionDiff, NaturalDiff
    <3> HIDE DEF by
    <3>3. QED
      BY <3>2
  <2>9. ASSUME NEW identity \in DOMAIN report.observations,
               NEW kind \in {"added", "removed", "changed"}
        PROVE  report.observations[identity][kind] = <<>>
    <3>1. NothingRemains(old, new)
      BY <2>1, <2>3, AlikeIsNothing, AlikeIsSame
    <3>2. QED
      BY <2>1, <2>2, <3>1, NothingIsSilent
  <2>10. \A t \in {"files", "binaries", "entitlements", "resolution"} :
            report[t].added = {} /\ report[t].removed = {}
    BY <2>2, <2>5, <2>6, <2>8
  <2>11. QED
    BY <2>7, <2>8, <2>9, <2>10 DEF Silent
<1>2. QED
  BY <1>1, InvCorrect, PTL
=============================================================================
